-------------------------- MODULE ProviderPayments --------------------------
(* What the ledger promises about the payments a provider takes, whatever    *)
(* order its notices come in and however often: a payment that is captured   *)
(* is entered once, in the step that says so, and from captured it can only  *)
(* be returned; failed and returned are final.  Statuses and the rule that   *)
(* none goes back are those of _ALLOWED_STATUS_TRANSITIONS in                *)
(* app/services/payment_webhook_service.py, partial and full refunds taken   *)
(* together.                                                                 *)
EXTENDS Naturals

CONSTANT Payments

VARIABLES standing,  \* [Payments -> Standings]
          entries    \* [Payments -> transactions in the ledger]

Standings == {"unknown", "open", "captured", "failed", "returned"}

Init ==
  /\ standing = [p \in Payments |-> "unknown"]
  /\ entries = [p \in Payments |-> 0]

Becomes(p, s) == standing' = [standing EXCEPT ![p] = s]

\* A payment that waits for its payer.
Open(p) ==
  /\ standing[p] = "unknown"
  /\ Becomes(p, "open")
  /\ UNCHANGED entries

\* The money is there: the ledger has it in the same step.
Capture(p) ==
  /\ standing[p] \in {"unknown", "open"}
  /\ Becomes(p, "captured")
  /\ entries' = [entries EXCEPT ![p] = @ + 1]

\* Rejected or abandoned.
Fail(p) ==
  /\ standing[p] \in {"unknown", "open"}
  /\ Becomes(p, "failed")
  /\ UNCHANGED entries

\* The provider gave money back: the ledger is left to a manager.
Return(p) ==
  /\ standing[p] \in {"unknown", "open", "captured"}
  /\ Becomes(p, "returned")
  /\ UNCHANGED entries

Next == \E p \in Payments : Open(p) \/ Capture(p) \/ Fail(p) \/ Return(p)

Spec == Init /\ [][Next]_<<standing, entries>>
=============================================================================
