--------------------------- MODULE MCEventListener ---------------------------
(* One tab, two domains, rows committed in the order of their ids and sizes   *)
(* that nothing reaches.                                                      *)
EXTENDS EventListener

TwoDomains == <<"payments", "rooms">>
Alternating == [i \in Rows |-> IF i % 2 = 0 THEN "rooms" ELSE "payments"]
=============================================================================
