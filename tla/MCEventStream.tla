---------------------------- MODULE MCEventStream ----------------------------
(* Instances of EventStream: sizes so small that a history is outgrown, a     *)
(* queue overflows, a batch is cut and a recovery truncated by a few rows.    *)
EXTENDS EventStream

TwoDomains == <<"payments", "rooms">>
Alternating == [i \in Rows |-> IF i % 2 = 0 THEN "rooms" ELSE "payments"]
=============================================================================
