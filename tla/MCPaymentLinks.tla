--------------------------- MODULE MCPaymentLinks ---------------------------
(* Instances of PaymentLinks for TLC.                                        *)
EXTENDS PaymentLinks

CONSTANTS l1, p1

\* All payments are of one link; one of them covers it, any other is half of it.
OneLink == [p \in Payments |-> l1]
WholeOrHalf == [p \in Payments |-> IF p = p1 THEN 2 ELSE 1]
TwoUnits == [l \in Links |-> 2]

\* The first payment may be open, completed, charged back or refunded.
Eventful == [p \in Payments |->
  IF p = p1 THEN {"pending", "completed", "failed", "refunded"} ELSE {"completed"}]

\* Payments that the provider completes and that stay so.
Plain == [p \in Payments |-> {"completed"}]
=============================================================================
