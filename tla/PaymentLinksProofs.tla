------------------------- MODULE PaymentLinksProofs -------------------------
(* What PaymentLinks keeps for any links, payments, amounts and workers: its  *)
(* types, the agreement of ledger, payments and links, and what revocations   *)
(* may claim.  What the sums of Outstanding and Available amount to is never  *)
(* needed.                                                                    *)
EXTENDS PaymentLinks, FiniteSetTheorems, TLAPS

-----------------------------------------------------------------------------
(* Type correctness.                                                         *)

\* The types hold at first.
LEMMA InitTypes == Init => TypeOK
  <1> SUFFICES ASSUME Init PROVE TypeOK
    OBVIOUS
  <1>1. Unissued \in LinkRows /\ Idle \in Claims
    BY DEF Unissued, LinkRows, LinkStatuses, Revocations, Idle, Claims
  <1>2. link \in [Links -> LinkRows] /\ worker \in [Workers -> Claims]
    BY <1>1 DEF Init
  <1>3. /\ payment \in [Payments -> Outcomes \cup {"absent"}]
        /\ booked \in [Payments -> Nat]
        /\ charge \in [Payments -> Outcomes \cup {"none"}]
    BY DEF Init
  <1>4. charged \in BOOLEAN
    BY DEF Init
  <1>5. faults \in 0 .. MaxFaults
    BY BoundsAssumption DEF Init
  <1> QED
    BY <1>2, <1>3, <1>4, <1>5 DEF Init, TypeOK

\* What keeps the answer of a fetch an outcome: the provider notifies only of
\* payments it has taken.
Noticed == \A n \in notices : charge[n[1]] \in Outcomes

\* Counting faults stays within the bound.
LEMMA FaultTypes == TypeOK /\ Fault => faults' \in 0 .. MaxFaults
  BY BoundsAssumption DEF TypeOK, Fault

\* An answer to the provider leaves notices to be sent again, and counts a lost one.
LEMMA ReplyTypes ==
  ASSUME TypeOK, NEW n, NEW heard, Reply(n, heard)
  PROVE  notices' \subseteq Notices /\ faults' \in 0 .. MaxFaults
  BY FaultTypes DEF Reply, TypeOK

\* Claims that are slow rather than lost count as faults.
LEMMA StaleTypes ==
  ASSUME TypeOK, NEW stale, Stale(stale)
  PROVE  faults' \in 0 .. MaxFaults
  <1>1. IsFiniteSet(stale \cap Held)
    BY LinksAssumption, FS_Subset DEF Held, Processing
  <1>2. Cardinality(stale \cap Held) \in Nat
    BY <1>1, FS_CardinalityType
  <1> QED
    BY <1>2, BoundsAssumption DEF TypeOK, Stale

\* The desk and the reservation.
LEMMA DeskTypes == TypeOK /\ Desk => TypeOK'
  <1> SUFFICES ASSUME TypeOK, Desk PROVE TypeOK'
    OBVIOUS
  <1>1. ASSUME NEW l \in Links, NEW answered \in BOOLEAN, CreateLink(l, answered) PROVE TypeOK'
    <2> DEFINE row == [link[l] EXCEPT !.status = "pending", !.provider = answered,
                                      !.payable = answered]
    <2>3. row \in LinkRows
      BY DEF TypeOK, LinkRows, LinkStatuses
    <2>4. link' = [link EXCEPT ![l] = row]
      BY <1>1 DEF CreateLink, TypeOK
    <2>1. link' \in [Links -> LinkRows]
      BY <2>3, <2>4 DEF TypeOK
    <2>2. checkout' \subseteq Links
      BY <1>1 DEF TypeOK, CreateLink
    <2> QED
      BY <1>1, <2>1, <2>2 DEF TypeOK, CreateLink, deskVars, bookVars
  <1>2. ASSUME NEW a \in CashSteps, TakeCash(a) \/ ReturnCash(a) PROVE TypeOK'
    <2>1. ledger' \in Nat
      BY <1>2, AmountsAssumption DEF TypeOK, TakeCash, ReturnCash
    <2>2. charged' \in BOOLEAN
      BY <1>2 DEF TypeOK, TakeCash, ReturnCash
    <2>3. UNCHANGED <<resv, link, bookVars, seen, jobs, cancelling, worker, providerVars, notices, faults>>
      BY <1>2 DEF TakeCash, ReturnCash
    <2> QED
      BY <2>1, <2>2, <2>3 DEF TypeOK, bookVars, providerVars
  <1>3. CASE CheckOut
    BY <1>3 DEF TypeOK, CheckOut, bookVars, providerVars
  <1>7. CASE RecreateWithDates
    BY <1>7 DEF TypeOK, RecreateWithDates, bookVars, providerVars
  <1>4. CASE CancelReservation
    <2>3. \A l \in Links : link[l] \in LinkRows /\ Queued(link[l].payable) \in Revocations
      BY DEF TypeOK, Queued, Revocations
    <2>2. \A l \in Links : [link[l] EXCEPT !.status = "cancelled", !.payable = FALSE,
                                           !.revocation = Queued(link[l].payable)] \in LinkRows
      BY <2>3 DEF LinkRows, LinkStatuses
    <2>1. link' \in [Links -> LinkRows]
      BY <1>4, <2>2 DEF TypeOK, CancelReservation
    <2> QED
      BY <1>4, <2>1 DEF TypeOK, CancelReservation, bookVars, providerVars
  <1>5. ASSUME NEW l \in Links, ReadForCancel(l) PROVE TypeOK'
    <2>1. link[l] \in LinkRows
      BY DEF TypeOK
    <2>2. cancelling' \in Snapshots
      BY <1>5, <2>1 DEF ReadForCancel, Snapshots, LinkRows
    <2> QED
      BY <1>5, <2>2 DEF TypeOK, ReadForCancel, deskVars, bookVars, providerVars
  <1>6. CASE CommitCancel
    <2>1. cancelling \in Snapshots
      BY <1>6 DEF TypeOK, CommitCancel
    <2>2. Queued(cancelling.payable) \in Revocations
      BY DEF Queued, Revocations
    <2>3. link' \in [Links -> LinkRows]
      BY <1>6, <2>1, <2>2 DEF TypeOK, CommitCancel, LinkRows, LinkStatuses, Snapshots
    <2> QED
      BY <1>6, <2>3 DEF TypeOK, CommitCancel, deskVars, bookVars, providerVars
  <1> QED
    BY <1>1, <1>2, <1>3, <1>4, <1>5, <1>6, <1>7 DEF Desk

\* The provider.
LEMMA ProviderTypes == TypeOK /\ Provider => TypeOK'
  <1> SUFFICES ASSUME TypeOK, NEW p \in Payments, NEW s \in Reports[p], Pay(p, s) PROVE TypeOK'
    BY DEF Provider
  <1>1. s \in Outcomes
    BY ReportsAssumption
  <1>2. charge' \in [Payments -> Outcomes \cup {"none"}]
    BY <1>1 DEF TypeOK, Pay
  <1>3. notices' \subseteq Notices
    BY <1>1 DEF TypeOK, Pay, Notices
  <1>4. UNCHANGED <<deskVars, link, bookVars, seen, jobs, cancelling, worker, checkout, faults>>
    BY DEF Pay
  <1> QED
    BY <1>2, <1>3, <1>4 DEF TypeOK, deskVars, bookVars

\* The answers a row may get from refresh_link_collection are rows.
LEMMA RefreshedTypes ==
  ASSUME TypeOK, NEW l \in Links, NEW paid
  PROVE  Refreshed(l, paid) \in LinkRows /\ Shut(l) \in LinkRows
  <1>1. link[l] \in LinkRows
    BY DEF TypeOK
  <1>2. Shut(l) \in LinkRows
    BY <1>1 DEF Shut, LinkRows, LinkStatuses
  <1>3. Refreshed(l, paid) \in LinkRows
    <2> DEFINE collected == {p \in Payments : LinkOf[p] = l /\ paid[p] = "completed"}
               row == [link[l] EXCEPT !.collected = collected]
    <2>1. collected \in SUBSET Payments /\ row \in LinkRows
      BY <1>1 DEF LinkRows
    <2> HIDE DEF collected
    <2>2. /\ [row EXCEPT !.status = "completed", !.payable = FALSE] \in LinkRows
          /\ [row EXCEPT !.status = "cancelled", !.payable = FALSE] \in LinkRows
          /\ [row EXCEPT !.status = "partially_paid", !.payable = row.provider] \in LinkRows
          /\ [row EXCEPT !.status = "pending"] \in LinkRows
      BY <2>1 DEF LinkRows, LinkStatuses
    <2> HIDE DEF row
    <2> QED
      BY <2>2 DEF Refreshed, collected, row
  <1> QED
    BY <1>2, <1>3

\* A notice read is a job, and a job names a payment and an outcome.
LEMMA JobTypes ==
  ASSUME TypeOK, NEW j \in jobs
  PROVE  /\ j.notice \in Notices /\ j.notice[1] \in Payments /\ j.status \in Outcomes
         /\ LinkOf[j.notice[1]] \in Links
  <1>1. j \in Jobs
    BY DEF TypeOK
  <1>2. j.notice \in Notices /\ j.status \in Outcomes
    BY <1>1 DEF Jobs
  <1>3. j.notice[1] \in Payments
    BY <1>2 DEF Notices
  <1> QED
    BY <1>2, <1>3, AmountsAssumption

\* The webhooks.
LEMMA WebhookTypes == TypeOK /\ Noticed /\ Webhooks => TypeOK'
  <1> SUFFICES ASSUME TypeOK, Noticed, Webhooks PROVE TypeOK'
    OBVIOUS
  <1>1. ASSUME NEW n \in notices, NEW heard \in BOOLEAN, AnswerDuplicate(n, heard) PROVE TypeOK'
    <2>1. notices' \subseteq Notices /\ faults' \in 0 .. MaxFaults
      BY <1>1, ReplyTypes DEF AnswerDuplicate
    <2>2. UNCHANGED <<deskVars, link, bookVars, seen, jobs, cancelling, worker, providerVars>>
      BY <1>1 DEF AnswerDuplicate
    <2> QED
      BY <2>1, <2>2 DEF TypeOK, deskVars, bookVars, providerVars
  <1>2. ASSUME NEW n \in notices, FetchPayment(n) PROVE TypeOK'
    <2>1. n \in Notices /\ n[1] \in Payments
      BY DEF TypeOK, Notices
    <2>4. [notice |-> n, status |-> charge[n[1]]] \in Jobs
      BY <2>1 DEF Noticed, Jobs
    <2>2. jobs' \subseteq Jobs
      BY <1>2, <2>4 DEF FetchPayment, TypeOK
    <2>3. UNCHANGED <<deskVars, link, bookVars, seen, cancelling, worker, providerVars, notices, faults>>
      BY <1>2 DEF FetchPayment
    <2> QED
      BY <2>2, <2>3 DEF TypeOK, deskVars, bookVars, providerVars
  <1>3. ASSUME NEW j \in jobs, LoseJob(j) PROVE TypeOK'
    <2>1. jobs' \subseteq Jobs /\ faults' \in 0 .. MaxFaults
      BY <1>3, FaultTypes DEF LoseJob, TypeOK
    <2>2. UNCHANGED <<deskVars, link, bookVars, seen, cancelling, worker, providerVars, notices>>
      BY <1>3 DEF LoseJob
    <2> QED
      BY <2>1, <2>2 DEF TypeOK, deskVars, bookVars, providerVars
  <1>4. ASSUME NEW j \in jobs, NEW heard \in BOOLEAN, IgnoreNotice(j, heard) PROVE TypeOK'
    <2>1. notices' \subseteq Notices /\ faults' \in 0 .. MaxFaults /\ jobs' \subseteq Jobs
      BY <1>4, ReplyTypes DEF IgnoreNotice, TypeOK
    <2>2. UNCHANGED <<deskVars, link, bookVars, seen, cancelling, worker, providerVars>>
      BY <1>4 DEF IgnoreNotice
    <2> QED
      BY <2>1, <2>2 DEF TypeOK, deskVars, bookVars, providerVars
  <1>5. ASSUME NEW j \in jobs, FailNotice(j) PROVE TypeOK'
    <2>1. jobs' \subseteq Jobs
      BY <1>5 DEF FailNotice, TypeOK
    <2>2. UNCHANGED <<deskVars, link, bookVars, seen, cancelling, worker, providerVars, notices, faults>>
      BY <1>5 DEF FailNotice
    <2> QED
      BY <2>1, <2>2 DEF TypeOK, deskVars, bookVars, providerVars
  <1>6. ASSUME NEW j \in jobs, NEW heard \in BOOLEAN, LogNotice(j, heard) PROVE TypeOK'
    <2>1. notices' \subseteq Notices /\ faults' \in 0 .. MaxFaults /\ jobs' \subseteq Jobs
      BY <1>6, ReplyTypes DEF LogNotice, TypeOK
    <2>2. seen' \subseteq Notices
      BY <1>6, JobTypes DEF LogNotice, TypeOK
    <2>3. link' \in [Links -> LinkRows]
      BY <1>6, JobTypes, RefreshedTypes DEF LogNotice, TypeOK
    <2>4. UNCHANGED <<deskVars, bookVars, cancelling, worker, providerVars>>
      BY <1>6 DEF LogNotice
    <2> QED
      BY <2>1, <2>2, <2>3, <2>4 DEF TypeOK, deskVars, bookVars, providerVars
  <1>7. ASSUME NEW j \in jobs, NEW heard \in BOOLEAN, RecordNotice(j, heard) PROVE TypeOK'
    <2>1. notices' \subseteq Notices /\ faults' \in 0 .. MaxFaults /\ jobs' \subseteq Jobs
      BY <1>7, ReplyTypes DEF RecordNotice, TypeOK
    <2>2. seen' \subseteq Notices
      BY <1>7, JobTypes DEF RecordNotice, TypeOK
    <2>3. link' \in [Links -> LinkRows]
      BY <1>7, JobTypes, RefreshedTypes DEF RecordNotice, TypeOK
    <2>4. payment' \in [Payments -> Outcomes \cup {"absent"}]
      BY <1>7, JobTypes DEF RecordNotice, TypeOK
    <2>5. booked' \in [Payments -> Nat] /\ ledger' \in Nat
      <3> DEFINE p == j.notice[1]
      <3>1. p \in Payments /\ Amount[p] \in Nat
        BY JobTypes, AmountsAssumption
      <3>2. ledger' = ledger \/ ledger' = ledger + Amount[p]
        BY <1>7 DEF RecordNotice
      <3>3. booked' = booked \/ booked' = [booked EXCEPT ![p] = @ + 1]
        BY <1>7, <3>1 DEF RecordNotice, TypeOK
      <3> HIDE DEF p
      <3> QED
        BY <3>1, <3>2, <3>3 DEF TypeOK
    <2>6. charged' \in BOOLEAN
      <3> DEFINE books == Books(j.notice[1], j.status)
      <3>1. books \in BOOLEAN
        BY DEF Books
      <3>2. charged' = (charged \/ books)
        BY <1>7 DEF RecordNotice
      <3> HIDE DEF books
      <3> QED
        BY <3>1, <3>2 DEF TypeOK
    <2>7. UNCHANGED <<resv, cancelling, worker, providerVars>>
      BY <1>7 DEF RecordNotice
    <2> QED
      BY <2>1, <2>2, <2>3, <2>4, <2>5, <2>6, <2>7 DEF TypeOK, providerVars
  <1> QED
    BY <1>1, <1>2, <1>3, <1>4, <1>5, <1>6, <1>7 DEF Webhooks, Ingest

\* The revocation task.
LEMMA RevocationTypes == TypeOK /\ Revocation => TypeOK'
  <1> SUFFICES ASSUME TypeOK, Revocation PROVE TypeOK'
    OBVIOUS
  <1>0. Idle \in Claims
    BY DEF Idle, Claims
  <1>1. \A l \in Links : /\ link[l] \in LinkRows /\ link[l].attempts + 1 \in Nat
                         /\ [link[l] EXCEPT !.revocation = "pending"] \in LinkRows
                         /\ [link[l] EXCEPT !.revocation = "processing", !.attempts = @ + 1] \in LinkRows
    <2> SUFFICES ASSUME NEW l \in Links
                 PROVE  /\ link[l] \in LinkRows /\ link[l].attempts + 1 \in Nat
                        /\ [link[l] EXCEPT !.revocation = "pending"] \in LinkRows
                        /\ [link[l] EXCEPT !.revocation = "processing", !.attempts = @ + 1] \in LinkRows
      OBVIOUS
    <2>1. link[l] \in LinkRows
      BY DEF TypeOK
    <2>2. link[l].attempts \in Nat
      BY <2>1 DEF LinkRows
    <2>3. [link[l] EXCEPT !.revocation = "pending"] \in LinkRows
      BY <2>1 DEF LinkRows, Revocations
    <2>4. [link[l] EXCEPT !.revocation = "processing", !.attempts = @ + 1] \in LinkRows
      <3> DEFINE k == link[l].attempts + 1
      <3>1. k \in Nat
        BY <2>2
      <3> HIDE DEF k
      <3>2. [link[l] EXCEPT !.revocation = "processing", !.attempts = k] \in LinkRows
        BY <2>1, <3>1 DEF LinkRows, Revocations
      <3> QED
        BY <3>2 DEF k
    <2> QED
      BY <2>1, <2>2, <2>3, <2>4
  <1>2. ASSUME NEW w \in Workers, NEW l \in Links, NEW stale \in SUBSET Links, Claim(w, l, stale)
        PROVE  TypeOK'
    <2>1. link' \in [Links -> LinkRows]
      BY <1>1, <1>2 DEF Claim, TypeOK
    <2>2. worker' \in [Workers -> Claims]
      BY <1>1, <1>2 DEF Claim, TypeOK, Claims
    <2>3. faults' \in 0 .. MaxFaults
      BY <1>2, StaleTypes DEF Claim
    <2>4. UNCHANGED <<deskVars, bookVars, seen, jobs, cancelling, providerVars, notices>>
      BY <1>2 DEF Claim
    <2> QED
      BY <2>1, <2>2, <2>3, <2>4 DEF TypeOK, deskVars, bookVars, providerVars
  <1>3. ASSUME NEW stale \in SUBSET Links, ReleaseStale(stale) PROVE TypeOK'
    <2>1. link' \in [Links -> LinkRows]
      BY <1>1, <1>3 DEF ReleaseStale, TypeOK
    <2>2. faults' \in 0 .. MaxFaults
      BY <1>3, StaleTypes DEF ReleaseStale
    <2>3. UNCHANGED <<deskVars, bookVars, seen, jobs, cancelling, worker, providerVars, notices>>
      BY <1>3 DEF ReleaseStale
    <2> QED
      BY <2>1, <2>2, <2>3 DEF TypeOK, deskVars, bookVars, providerVars
  <1>4. ASSUME NEW w \in Workers, NEW answer \in {"expired", "unconfirmed"},
               NEW done \in BOOLEAN, Revoke(w, answer, done)
        PROVE  TypeOK'
    <2>1. worker' \in [Workers -> Claims]
      BY <1>4 DEF Revoke, TypeOK, Claims
    <2>2. checkout' \subseteq Links
      BY <1>4 DEF Revoke, TypeOK
    <2>3. UNCHANGED <<deskVars, link, bookVars, seen, jobs, cancelling, charge, notices, faults>>
      BY <1>4 DEF Revoke
    <2> QED
      BY <2>1, <2>2, <2>3 DEF TypeOK, deskVars, bookVars
  <1>5. ASSUME NEW w \in Workers, Settle(w) PROVE TypeOK'
    <2>1. worker[w].link \in Links
      BY <1>5 DEF Settle, TypeOK, Claims
    <2>2. link' \in [Links -> LinkRows]
      BY <1>1, <1>5, <2>1 DEF Settle, TypeOK, LinkRows, Revocations
    <2>3. worker' \in [Workers -> Claims]
      BY <1>0, <1>5 DEF Settle, TypeOK
    <2>4. UNCHANGED <<deskVars, bookVars, seen, jobs, cancelling, providerVars, notices, faults>>
      BY <1>5 DEF Settle
    <2> QED
      BY <2>2, <2>3, <2>4 DEF TypeOK, deskVars, bookVars, providerVars
  <1>6. ASSUME NEW w \in Workers, Skip(w) \/ Abandon(w) PROVE TypeOK'
    <2>1. worker' \in [Workers -> Claims]
      BY <1>0, <1>6 DEF Skip, Abandon, TypeOK
    <2>2. faults' \in 0 .. MaxFaults
      BY <1>6, FaultTypes DEF Skip, Abandon, TypeOK
    <2>3. UNCHANGED <<deskVars, link, bookVars, seen, jobs, cancelling, providerVars, notices>>
      BY <1>6 DEF Skip, Abandon
    <2> QED
      BY <2>1, <2>2, <2>3 DEF TypeOK, deskVars, bookVars, providerVars
  <1> QED
    BY <1>2, <1>3, <1>4, <1>5, <1>6 DEF Revocation, Work

\* Only Pay makes notices, and it never makes a charge "none".
LEMMA NoticedStep == TypeOK /\ Noticed /\ [Next]_vars => Noticed'
  <1> SUFFICES ASSUME TypeOK, Noticed, [Next]_vars PROVE Noticed'
    OBVIOUS
  <1>1. CASE UNCHANGED vars
    BY <1>1 DEF Noticed, vars
  <1>2. CASE Desk
    BY <1>2 DEF Noticed, Desk, CreateLink, TakeCash, ReturnCash, CheckOut, CancelReservation,
                RecreateWithDates, ReadForCancel, CommitCancel, providerVars
  <1>3. ASSUME NEW p \in Payments, NEW s \in Reports[p], Pay(p, s) PROVE Noticed'
    <2>1. s \in Outcomes /\ charge \in [Payments -> Outcomes \cup {"none"}]
      BY ReportsAssumption DEF TypeOK
    <2> QED
      BY <1>3, <2>1 DEF Noticed, Pay
  <1>4. CASE Webhooks
    <2>1. notices' \subseteq notices /\ charge' = charge
      BY <1>4 DEF Webhooks, Ingest, AnswerDuplicate, FetchPayment, LoseJob, IgnoreNotice, LogNotice,
                  FailNotice, RecordNotice, Reply, providerVars
    <2> QED
      BY <2>1 DEF Noticed
  <1>5. CASE Revocation
    <2>1. notices' = notices /\ charge' = charge
      BY <1>5 DEF Revocation, Work, Claim, ReleaseStale, Revoke, Settle, Skip, Abandon, providerVars
    <2> QED
      BY <2>1 DEF Noticed
  <1> QED
    BY <1>1, <1>2, <1>3, <1>4, <1>5 DEF Next, Provider

\* Steps that keep the types.
LEMMA TypesStep == TypeOK /\ Noticed /\ [Next]_vars => (TypeOK /\ Noticed)'
  <1>1. TypeOK /\ UNCHANGED vars => TypeOK'
    BY DEF TypeOK, vars
  <1> QED
    BY <1>1, NoticedStep, DeskTypes, ProviderTypes, WebhookTypes, RevocationTypes DEF Next

\* The types and what the provider has taken, always.
LEMMA TypesAlways == Spec => [](TypeOK /\ Noticed)
  <1>1. Init => TypeOK /\ Noticed
    BY InitTypes DEF Init, Noticed
  <1> QED
    BY <1>1, TypesStep, PTL DEF Spec

\* Every variable keeps its type through every step of the desk, the provider, the
\* webhooks and the revocation task, and faults stay within their bound.
THEOREM TypeCorrectness == Spec => []TypeOK
  BY TypesAlways, PTL

-----------------------------------------------------------------------------
(* What a step does to payments, ledger and links.                           *)

\* Payments and their transactions are written by RecordNotice alone.
LEMMA BookSteps ==
  ASSUME [Next]_vars
  PROVE  \/ payment' = payment /\ booked' = booked
         \/ \E j \in jobs, heard \in BOOLEAN : RecordNotice(j, heard)
  <1>1. CASE UNCHANGED vars
    BY <1>1 DEF vars
  <1>2. CASE Desk
    BY <1>2 DEF Desk, CreateLink, TakeCash, ReturnCash, CheckOut, CancelReservation,
                RecreateWithDates, ReadForCancel, CommitCancel, bookVars
  <1>3. CASE Provider
    BY <1>3 DEF Provider, Pay, bookVars
  <1>4. CASE Webhooks
    BY <1>4 DEF Webhooks, Ingest, AnswerDuplicate, FetchPayment, LoseJob, IgnoreNotice, LogNotice,
                FailNotice, bookVars
  <1>5. CASE Revocation
    BY <1>5 DEF Revocation, Work, Claim, ReleaseStale, Revoke, Settle, Skip, Abandon, bookVars
  <1> QED
    BY <1>1, <1>2, <1>3, <1>4, <1>5 DEF Next

\* The ledger is written by the desk's cash and by RecordNotice.
LEMMA LedgerSteps ==
  ASSUME [Next]_vars
  PROVE  \/ ledger' = ledger
         \/ \E a \in CashSteps : TakeCash(a) \/ ReturnCash(a)
         \/ \E j \in jobs, heard \in BOOLEAN : RecordNotice(j, heard)
  <1>1. CASE UNCHANGED vars
    BY <1>1 DEF vars
  <1>2. CASE Desk
    BY <1>2 DEF Desk, CreateLink, CheckOut, CancelReservation,
                RecreateWithDates, ReadForCancel, CommitCancel, deskVars
  <1>3. CASE Provider
    BY <1>3 DEF Provider, Pay, deskVars
  <1>4. CASE Webhooks
    BY <1>4 DEF Webhooks, Ingest, AnswerDuplicate, FetchPayment, LoseJob, IgnoreNotice, LogNotice,
                FailNotice, deskVars
  <1>5. CASE Revocation
    BY <1>5 DEF Revocation, Work, Claim, ReleaseStale, Revoke, Settle, Skip, Abandon, deskVars
  <1> QED
    BY <1>1, <1>2, <1>3, <1>4, <1>5 DEF Next

\* A link is issued, cancelled, closed by a notice that is only logged, worked on
\* by the revocation task, or refreshed with a payment.
Issued(l) ==
  /\ link[l].status = "absent" /\ link'[l].status = "pending"
  /\ link'[l].collected = link[l].collected
  /\ link'[l].revocation = link[l].revocation

CancelledNow(l) ==
  /\ link'[l].status = "cancelled"
  /\ link'[l].collected = link[l].collected
  /\ link'[l].payable => link[l].payable
  /\ \/ link'[l].revocation = link[l].revocation
     \/ link'[l].revocation \in {"pending", "not_required"}

WorkedOn(l) ==
  /\ link'[l].status = link[l].status
  /\ link'[l].collected = link[l].collected
  /\ link'[l].payable = link[l].payable
  /\ link[l].revocation \in {"pending", "processing"}

RefreshedNow(l) ==
  /\ link'[l].status # "absent"
  /\ link'[l].collected = {p \in Payments : LinkOf[p] = l /\ payment'[p] = "completed"}
  /\ resv = "cancelled" => ~link'[l].payable
  /\ link'[l].revocation = link[l].revocation

\* The same by the actions of the desk.
LEMMA DeskLinkSteps ==
  ASSUME TypeOK, Desk, NEW l \in Links
  PROVE  link'[l] = link[l] \/ Issued(l) \/ CancelledNow(l)
  <1>1. link[l] \in LinkRows
    BY DEF TypeOK
  <1>2. ASSUME NEW m \in Links, NEW answered \in BOOLEAN, CreateLink(m, answered)
        PROVE  link'[l] = link[l] \/ Issued(l)
    BY <1>1, <1>2 DEF CreateLink, Issued, TypeOK, LinkRows
  <1>3. CASE CancelReservation
    BY <1>1, <1>3 DEF CancelReservation, CancelledNow, Queued, LinkRows
  <1>4. CASE CommitCancel
    BY <1>1, <1>4 DEF CommitCancel, CancelledNow, Queued, LinkRows, TypeOK
  <1>5. CASE UNCHANGED link
    BY <1>5
  <1> QED
    BY <1>2, <1>3, <1>4, <1>5 DEF Desk, TakeCash, ReturnCash, CheckOut, RecreateWithDates, ReadForCancel

\* The rows refresh_link_collection and a closed reservation leave.
LEMMA RefreshedRow ==
  ASSUME TypeOK, NEW l \in Links, NEW paid
  PROVE  LET row == Refreshed(l, paid) IN
         /\ row.status # "absent"
         /\ row.collected = {p \in Payments : LinkOf[p] = l /\ paid[p] = "completed"}
         /\ resv = "cancelled" => ~row.payable
         /\ row.revocation = link[l].revocation
  <1>1. link[l] \in LinkRows
    BY DEF TypeOK
  <1> DEFINE collected == {p \in Payments : LinkOf[p] = l /\ paid[p] = "completed"}
             row == [link[l] EXCEPT !.collected = collected]
             Good(r) == /\ r.status # "absent" /\ r.collected = collected
                        /\ r.revocation = link[l].revocation
  <1> HIDE DEF collected
  <1>2. /\ Good([row EXCEPT !.status = "completed", !.payable = FALSE])
        /\ Good([row EXCEPT !.status = "cancelled", !.payable = FALSE])
        /\ Good([row EXCEPT !.status = "partially_paid", !.payable = row.provider])
        /\ Good([row EXCEPT !.status = "pending"])
        /\ ~[row EXCEPT !.status = "completed", !.payable = FALSE].payable
        /\ ~[row EXCEPT !.status = "cancelled", !.payable = FALSE].payable
    BY <1>1 DEF LinkRows
  <1> HIDE DEF row, Good
  <1>3. Good(Refreshed(l, paid)) /\ (resv = "cancelled" => ~Refreshed(l, paid).payable)
    BY <1>2 DEF Refreshed, Closed, collected, row
  <1> QED
    BY <1>3 DEF Good, collected

\* The same by the webhooks.
LEMMA WebhookLinkSteps ==
  ASSUME TypeOK, Webhooks, NEW l \in Links
  PROVE  link'[l] = link[l] \/ CancelledNow(l) \/ RefreshedNow(l)
  <1>1. link[l] \in LinkRows
    BY DEF TypeOK
  <1>2. ASSUME NEW j \in jobs, NEW heard \in BOOLEAN, LogNotice(j, heard)
        PROVE  link'[l] = link[l] \/ CancelledNow(l)
    <2>1. link'[l] = link[l] \/ link'[l] = Shut(l)
      BY <1>2, JobTypes DEF LogNotice, TypeOK
    <2>2. Shut(l) = link[l] \/ Shut(l) = [link[l] EXCEPT !.status = "cancelled", !.payable = FALSE]
      BY DEF Shut
    <2> QED
      BY <1>1, <2>1, <2>2 DEF CancelledNow, LinkRows
  <1>3. ASSUME NEW j \in jobs, NEW heard \in BOOLEAN, RecordNotice(j, heard)
        PROVE  link'[l] = link[l] \/ RefreshedNow(l)
    <2>1. link'[l] = link[l] \/ link'[l] = Refreshed(l, payment')
      BY <1>3, JobTypes DEF RecordNotice, TypeOK
    <2> QED
      BY <2>1, RefreshedRow DEF RefreshedNow
  <1>4. CASE UNCHANGED link
    BY <1>4
  <1> QED
    BY <1>2, <1>3, <1>4 DEF Webhooks, Ingest, AnswerDuplicate, FetchPayment, LoseJob, IgnoreNotice, FailNotice

\* The same by the revocation task.
LEMMA RevocationLinkSteps ==
  ASSUME TypeOK, Revocation, NEW l \in Links
  PROVE  link'[l] = link[l] \/ WorkedOn(l)
  <1>1. link[l] \in LinkRows
    BY DEF TypeOK
  <1>2. ASSUME NEW w \in Workers, NEW m \in Links, NEW stale \in SUBSET Links, Claim(w, m, stale)
        PROVE  link'[l] = link[l] \/ WorkedOn(l)
    <2>1. m = l => link[l].revocation \in {"pending", "processing"}
      BY <1>2 DEF Claim, Candidates, Stale, Processing
    <2>2. l \in stale => link[l].revocation = "processing"
      BY <1>2 DEF Claim, Stale, Processing
    <2> QED
      BY <1>1, <1>2, <2>1, <2>2 DEF Claim, WorkedOn, LinkRows
  <1>3. ASSUME NEW stale \in SUBSET Links, ReleaseStale(stale)
        PROVE  link'[l] = link[l] \/ WorkedOn(l)
    BY <1>1, <1>3 DEF ReleaseStale, Stale, Processing, WorkedOn, LinkRows
  <1>4. ASSUME NEW w \in Workers, Settle(w) PROVE link'[l] = link[l] \/ WorkedOn(l)
    BY <1>1, <1>4 DEF Settle, Fenced, WorkedOn, LinkRows, TypeOK
  <1>5. CASE UNCHANGED link
    BY <1>5
  <1> QED
    BY <1>2, <1>3, <1>4, <1>5 DEF Revocation, Work, Revoke, Skip, Abandon

\* What any step does to a link.
LEMMA LinkSteps ==
  ASSUME TypeOK, [Next]_vars, NEW l \in Links
  PROVE  link'[l] = link[l] \/ Issued(l) \/ CancelledNow(l) \/ WorkedOn(l) \/ RefreshedNow(l)
  <1>1. Provider => link' = link
    BY DEF Provider, Pay
  <1>2. UNCHANGED vars => link' = link
    BY DEF vars
  <1> QED
    BY <1>1, <1>2, DeskLinkSteps, WebhookLinkSteps, RevocationLinkSteps DEF Next

-----------------------------------------------------------------------------
(* Money.                                                                    *)

\* RecordNotice writes a transaction with the first completion of a payment.
LEMMA LedgerStep == TypeOK /\ LedgerFollowsPayments /\ [Next]_vars => LedgerFollowsPayments'
  <1> SUFFICES ASSUME TypeOK, LedgerFollowsPayments, [Next]_vars PROVE LedgerFollowsPayments'
    OBVIOUS
  <1>1. CASE payment' = payment /\ booked' = booked
    BY <1>1 DEF LedgerFollowsPayments
  <1>2. ASSUME NEW j \in jobs, NEW heard \in BOOLEAN, RecordNotice(j, heard)
        PROVE  LedgerFollowsPayments'
    <2> DEFINE p == j.notice[1]
    <2>1. p \in Payments /\ j.status \in Outcomes
      BY JobTypes
    <2>2. /\ payment' = [payment EXCEPT ![p] = j.status]
          /\ booked' = [booked EXCEPT ![p] = IF Books(p, j.status) THEN @ + 1 ELSE @]
          /\ Allowed(payment[p], j.status)
      BY <1>2 DEF RecordNotice
    <2> HIDE DEF p
    <2>3. payment[p] \in Outcomes \cup {"absent"} /\ booked[p] \in 0 .. 1
      BY <2>1 DEF TypeOK, LedgerFollowsPayments
    <2>4. /\ booked'[p] = IF j.status = "completed" THEN 1 ELSE booked[p]
          /\ payment'[p] = j.status
      BY <2>1, <2>2, <2>3 DEF Books, TypeOK
    <2>5. /\ booked'[p] <= 1
          /\ payment'[p] = "completed" => booked'[p] = 1
          /\ booked'[p] = 1 => payment'[p] \in {"completed", "partially_refunded", "refunded"}
      BY <2>1, <2>2, <2>3, <2>4 DEF Allowed, LedgerFollowsPayments
    <2>6. \A q \in Payments \ {p} : payment'[q] = payment[q] /\ booked'[q] = booked[q]
      BY <2>2 DEF TypeOK
    <2> QED
      BY <2>5, <2>6 DEF LedgerFollowsPayments
  <1> QED
    BY <1>1, <1>2, BookSteps

\* Whatever the order and the number of the notices, a payment has one transaction
\* if it was ever completed and none otherwise.
THEOREM OneTransactionEach == Spec => []LedgerFollowsPayments
  <1>1. Init => LedgerFollowsPayments
    BY DEF Init, LedgerFollowsPayments
  <1> QED
    BY <1>1, LedgerStep, TypesAlways, PTL DEF Spec

\* Cash, late payments and links paid twice never add up to more than the
\* reservation costs.
THEOREM NothingOverpaid == Spec => []NeverOverpaid
  <1>1. Init => NeverOverpaid
    BY AmountsAssumption DEF Init, NeverOverpaid
  <1>2. TypeOK /\ NeverOverpaid /\ [Next]_vars => NeverOverpaid'
    <2> SUFFICES ASSUME TypeOK, NeverOverpaid, [Next]_vars PROVE NeverOverpaid'
      OBVIOUS
    <2>1. ledger \in Nat /\ Total \in Nat
      BY AmountsAssumption DEF TypeOK
    <2>2. ASSUME NEW a \in CashSteps, TakeCash(a) \/ ReturnCash(a) PROVE NeverOverpaid'
      BY <2>1, <2>2, AmountsAssumption DEF TakeCash, ReturnCash, Balance, NeverOverpaid
    <2>3. ASSUME NEW j \in jobs, NEW heard \in BOOLEAN, RecordNotice(j, heard) PROVE NeverOverpaid'
      <3> DEFINE p == j.notice[1]
      <3>1. Amount[p] \in Nat
        BY JobTypes, AmountsAssumption
      <3>2. ledger' = ledger \/ (ledger' = ledger + Amount[p] /\ Amount[p] <= Balance)
        BY <2>1, <2>3, <3>1 DEF RecordNotice, Unbookable, Balance
      <3> HIDE DEF p
      <3> QED
        BY <2>1, <3>1, <3>2 DEF NeverOverpaid, Balance
    <2> QED
      BY <2>2, <2>3, LedgerSteps DEF NeverOverpaid
  <1> QED
    BY <1>1, <1>2, TypesAlways, PTL DEF Spec

\* What a link says it collected is the set of its completed payments, after
\* refunds, late payments and cancellations.
THEOREM LinksAgreeWithPayments == Spec => []LinkCollectsItsPayments
  <1>1. Init => LinkCollectsItsPayments
    BY DEF Init, Unissued, LinkCollectsItsPayments
  <1>2. TypeOK /\ LinkCollectsItsPayments /\ [Next]_vars => LinkCollectsItsPayments'
    <2> SUFFICES ASSUME TypeOK, LinkCollectsItsPayments, [Next]_vars, NEW l \in Links
                 PROVE  link'[l].collected
                        = {p \in Payments : LinkOf[p] = l /\ payment'[p] = "completed"}
      BY DEF LinkCollectsItsPayments
    <2>1. link[l].collected = {p \in Payments : LinkOf[p] = l /\ payment[p] = "completed"}
      BY DEF LinkCollectsItsPayments
    <2>2. CASE payment' = payment /\ booked' = booked
      BY <2>1, <2>2, LinkSteps DEF Issued, CancelledNow, WorkedOn, RefreshedNow
    <2>3. ASSUME NEW j \in jobs, NEW heard \in BOOLEAN, RecordNotice(j, heard)
          PROVE  link'[l].collected
                 = {p \in Payments : LinkOf[p] = l /\ payment'[p] = "completed"}
      <3> DEFINE p == j.notice[1]
      <3>1. /\ link' = [link EXCEPT ![LinkOf[p]] = Refreshed(LinkOf[p], payment')]
            /\ payment' = [payment EXCEPT ![p] = j.status]
        BY <2>3 DEF RecordNotice
      <3> HIDE DEF p
      <3>2. CASE LinkOf[p] = l
        <4>1. link'[l] = Refreshed(l, payment')
          BY <3>1, <3>2 DEF TypeOK
        <4> QED
          BY <4>1, RefreshedRow
      <3>3. CASE LinkOf[p] # l
        <4>1. link'[l] = link[l]
          BY <3>1, <3>3 DEF TypeOK
        <4>2. \A q \in Payments : LinkOf[q] = l => payment'[q] = payment[q]
          BY <3>1, <3>3 DEF TypeOK
        <4> QED
          BY <2>1, <4>1, <4>2
      <3> QED
        BY <3>2, <3>3
    <2> QED
      BY <2>2, <2>3, BookSteps
  <1> QED
    BY <1>1, <1>2, TypesAlways, PTL DEF Spec

-----------------------------------------------------------------------------
(* Links and their revocation.                                               *)

\* Money that comes late for a cancelled reservation opens no link again.
THEOREM NothingReopened == Spec => LateMoneyReopensNothing
  <1>1. TypeOK /\ [Next]_vars =>
          [\A l \in Links : resv = "cancelled" /\ link[l].status # "absent" /\ ~link[l].payable
                            => ~link'[l].payable]_vars
    BY LinkSteps DEF Issued, CancelledNow, WorkedOn, RefreshedNow
  <1> QED
    BY <1>1, TypesAlways, PTL DEF Spec, LateMoneyReopensNothing

\* A verdict on a revocation is changed by a new cancellation only.
THEOREM VerdictsStand == Spec => RevocationVerdictStands
  <1>1. TypeOK /\ [Next]_vars =>
          [\A l \in Links :
             link[l].revocation \in {"succeeded", "failed"} /\ link'[l].revocation # link[l].revocation
             => link'[l].status = "cancelled" /\ link'[l].revocation \in {"pending", "not_required"}]_vars
    BY LinkSteps DEF Issued, CancelledNow, WorkedOn, RefreshedNow
  <1> QED
    BY <1>1, TypesAlways, PTL DEF Spec, RevocationVerdictStands

\* What a worker has been told, and that links are claimed after their issue,
\* make SucceededMeansClosed inductive.
ClaimsAreIssued ==
  \A w \in Workers : worker[w].link # NoLink => link[worker[w].link].status # "absent"
ExpiredIsClosed ==
  \A w \in Workers : worker[w].answer = "expired" => worker[w].link \notin checkout
AbsentHasNoVerdict ==
  \A l \in Links : link[l].status = "absent" => link[l].revocation # "succeeded"
Closing == ClaimsAreIssued /\ ExpiredIsClosed /\ AbsentHasNoVerdict /\ SucceededMeansClosed

\* No step unissues a link or gives a verdict to one that is not issued.
LEMMA IssuedStays ==
  ASSUME TypeOK, AbsentHasNoVerdict, [Next]_vars, NEW l \in Links
  PROVE  /\ link[l].status # "absent" => link'[l].status # "absent"
         /\ link'[l].status = "absent" => link[l].status = "absent"
  BY LinkSteps DEF Issued, CancelledNow, WorkedOn, RefreshedNow

\* A step that neither changes claims nor checkouts nor makes a verdict.
LEMMA ClosingElsewhere ==
  ASSUME TypeOK, Closing, [Next]_vars, worker' = worker, checkout' = checkout,
         \A l \in Links : link'[l].revocation = "succeeded" => link[l].revocation = "succeeded"
  PROVE  Closing'
  <1>1. ClaimsAreIssued'
    <2> SUFFICES ASSUME NEW w \in Workers, worker[w].link # NoLink
                 PROVE  link'[worker[w].link].status # "absent"
      BY DEF ClaimsAreIssued
    <2>1. worker[w].link \in Links
      BY DEF TypeOK, Claims
    <2> QED
      BY <2>1, IssuedStays DEF Closing, ClaimsAreIssued
  <1>2. ExpiredIsClosed'
    BY DEF Closing, ExpiredIsClosed
  <1>3. AbsentHasNoVerdict'
    BY IssuedStays DEF Closing, AbsentHasNoVerdict
  <1>4. SucceededMeansClosed'
    BY DEF Closing, SucceededMeansClosed
  <1> QED
    BY <1>1, <1>2, <1>3, <1>4 DEF Closing

\* The revocation task gives a verdict on a checkout it has closed.
LEMMA ClosingRevocation == TypeOK /\ Closing /\ Revocation => Closing'
  <1> SUFFICES ASSUME TypeOK, Closing, Revocation PROVE Closing'
    OBVIOUS
  <1>0. [Next]_vars
    BY DEF Next
  <1>1. Idle.link = NoLink /\ Idle.answer = "none"
    BY DEF Idle
  <1>2. ASSUME NEW w \in Workers, NEW l \in Links, NEW stale \in SUBSET Links, Claim(w, l, stale)
        PROVE  Closing'
    <2>1. /\ link[l].status = "cancelled" /\ checkout' = checkout
          /\ worker' = [worker EXCEPT ![w] = [link |-> l, attempt |-> link[l].attempts + 1,
                                               answer |-> "none"]]
      BY <1>2 DEF Claim, Candidates, providerVars
    <2>2. \A m \in Links : link'[m].revocation = "succeeded" => link[m].revocation = "succeeded"
      BY <1>2 DEF Claim, TypeOK, LinkRows
    <2>3. worker'[w].link = l /\ worker'[w].answer = "none"
      BY <2>1 DEF TypeOK
    <2>4. \A v \in Workers \ {w} : worker'[v] = worker[v]
      BY <2>1 DEF TypeOK
    <2>5. ClaimsAreIssued'
      <3> SUFFICES ASSUME NEW v \in Workers, worker'[v].link # NoLink
                   PROVE  link'[worker'[v].link].status # "absent"
        BY DEF ClaimsAreIssued
      <3>1. CASE v = w
        BY <1>0, <2>1, <2>3, <3>1, IssuedStays DEF Closing
      <3>2. CASE v # w
        <4>1. worker[v].link \in Links /\ worker'[v] = worker[v]
          BY <2>4, <3>2 DEF TypeOK, Claims
        <4> QED
          BY <1>0, <4>1, IssuedStays DEF Closing, ClaimsAreIssued
      <3> QED
        BY <3>1, <3>2
    <2>6. ExpiredIsClosed'
      BY <2>1, <2>3, <2>4 DEF Closing, ExpiredIsClosed
    <2>7. AbsentHasNoVerdict'
      BY <1>0, <2>2, IssuedStays DEF Closing, AbsentHasNoVerdict
    <2>8. SucceededMeansClosed'
      BY <2>1, <2>2 DEF Closing, SucceededMeansClosed
    <2> QED
      BY <2>5, <2>6, <2>7, <2>8 DEF Closing
  <1>3. ASSUME NEW stale \in SUBSET Links, ReleaseStale(stale) PROVE Closing'
    <2>1. \A m \in Links : link'[m].revocation = "succeeded" => link[m].revocation = "succeeded"
      BY <1>3 DEF ReleaseStale, TypeOK, LinkRows
    <2>2. worker' = worker /\ checkout' = checkout
      BY <1>3 DEF ReleaseStale, providerVars
    <2> QED
      BY <1>0, <2>1, <2>2, ClosingElsewhere
  <1>4. ASSUME NEW w \in Workers, NEW answer \in {"expired", "unconfirmed"},
               NEW done \in BOOLEAN, Revoke(w, answer, done)
        PROVE  Closing'
    <2>1. /\ link' = link /\ worker' = [worker EXCEPT ![w].answer = answer]
          /\ checkout' = IF done THEN checkout \ {worker[w].link} ELSE checkout
          /\ answer = "expired" => done
      BY <1>4 DEF Revoke
    <2>2. worker'[w].link = worker[w].link /\ worker'[w].answer = answer
      <3>1. worker[w] \in Claims
        BY DEF TypeOK
      <3>2. worker'[w] = [worker[w] EXCEPT !.answer = answer]
        BY <2>1 DEF TypeOK
      <3> QED
        BY <3>1, <3>2 DEF Claims
    <2>3. \A v \in Workers \ {w} : worker'[v] = worker[v]
      BY <2>1 DEF TypeOK
    <2>4. ClaimsAreIssued' /\ AbsentHasNoVerdict'
      BY <2>1, <2>2, <2>3 DEF Closing, ClaimsAreIssued, AbsentHasNoVerdict
    <2>5. ExpiredIsClosed'
      BY <2>1, <2>2, <2>3 DEF Closing, ExpiredIsClosed
    <2>6. SucceededMeansClosed'
      BY <2>1 DEF Closing, SucceededMeansClosed
    <2> QED
      BY <2>4, <2>5, <2>6 DEF Closing
  <1>5. ASSUME NEW w \in Workers, Settle(w) PROVE Closing'
    <2> DEFINE m == worker[w].link
               verdict == IF worker[w].answer = "expired" THEN "succeeded" ELSE "failed"
    <2>1. m \in Links /\ link[m] \in LinkRows
      BY <1>5 DEF Settle, TypeOK, Claims
    <2>2. /\ link' = [link EXCEPT ![m].revocation = verdict]
          /\ worker' = [worker EXCEPT ![w] = Idle] /\ checkout' = checkout
      BY <1>5 DEF Settle, providerVars
    <2>3. link'[m].revocation = verdict
      BY <2>1, <2>2 DEF TypeOK, LinkRows
    <2>4. \A l \in Links \ {m} : link'[l] = link[l]
      BY <2>2 DEF TypeOK
    <2>5. SucceededMeansClosed'
      BY <2>2, <2>3, <2>4 DEF Closing, SucceededMeansClosed, ExpiredIsClosed
    <2>6. worker'[w] = Idle /\ \A v \in Workers \ {w} : worker'[v] = worker[v]
      BY <2>2 DEF TypeOK
    <2>7. ClaimsAreIssued'
      <3> SUFFICES ASSUME NEW v \in Workers, worker'[v].link # NoLink
                   PROVE  link'[worker'[v].link].status # "absent"
        BY DEF ClaimsAreIssued
      <3>1. worker'[v] = worker[v] /\ worker[v].link \in Links
        BY <1>1, <2>6 DEF TypeOK, Claims
      <3> QED
        BY <1>0, <3>1, IssuedStays DEF Closing, ClaimsAreIssued
    <2>8. ExpiredIsClosed'
      BY <1>1, <2>2, <2>6 DEF Closing, ExpiredIsClosed
    <2>9. AbsentHasNoVerdict'
      <3>1. link[m].status # "absent"
        BY <1>5 DEF Settle, Closing, ClaimsAreIssued
      <3> QED
        BY <1>0, <2>4, <3>1, IssuedStays DEF Closing, AbsentHasNoVerdict
    <2> QED
      BY <2>5, <2>7, <2>8, <2>9 DEF Closing
  <1>6. ASSUME NEW w \in Workers, Skip(w) \/ Abandon(w) PROVE Closing'
    <2>1. /\ link' = link /\ checkout' = checkout /\ worker' = [worker EXCEPT ![w] = Idle]
      BY <1>6 DEF Skip, Abandon, providerVars
    <2>2. worker'[w] = Idle /\ \A v \in Workers \ {w} : worker'[v] = worker[v]
      BY <2>1 DEF TypeOK
    <2> QED
      BY <1>1, <2>1, <2>2 DEF Closing, ClaimsAreIssued, ExpiredIsClosed, AbsentHasNoVerdict,
                              SucceededMeansClosed
  <1> QED
    BY <1>2, <1>3, <1>4, <1>5, <1>6 DEF Revocation, Work

\* The other steps make no verdict; a link is issued once, so a checkout that was
\* closed does not open again.
LEMMA ClosingDesk == TypeOK /\ Closing /\ (Desk \/ Provider \/ Webhooks) => Closing'
  <1> SUFFICES ASSUME TypeOK, Closing, Desk \/ Provider \/ Webhooks PROVE Closing'
    OBVIOUS
  <1>0. [Next]_vars
    BY DEF Next
  <1>1. \A l \in Links : link'[l].revocation = "succeeded" => link[l].revocation = "succeeded"
    <2>1. Provider => link' = link
      BY DEF Provider, Pay
    <2> QED
      BY <2>1, DeskLinkSteps, WebhookLinkSteps DEF Issued, CancelledNow, RefreshedNow
  <1>2. worker' = worker
    BY DEF Desk, CreateLink, TakeCash, ReturnCash, CheckOut, CancelReservation, RecreateWithDates,
           ReadForCancel, CommitCancel, Provider, Pay, Webhooks, Ingest, AnswerDuplicate,
           FetchPayment, LoseJob, IgnoreNotice, LogNotice, FailNotice, RecordNotice
  <1>3. CASE checkout' = checkout
    BY <1>0, <1>1, <1>2, <1>3, ClosingElsewhere
  <1>4. ASSUME NEW l \in Links, NEW answered \in BOOLEAN, CreateLink(l, answered) PROVE Closing'
    <2>1. link[l].status = "absent" /\ checkout' \subseteq checkout \cup {l}
      BY <1>4 DEF CreateLink
    <2>2. link[l].revocation # "succeeded" /\ \A w \in Workers : worker[w].link # l
      BY <2>1, LinksAssumption DEF Closing, AbsentHasNoVerdict, ClaimsAreIssued
    <2>3. SucceededMeansClosed'
      BY <1>1, <2>1, <2>2 DEF Closing, SucceededMeansClosed
    <2>4. ExpiredIsClosed'
      BY <1>2, <2>1, <2>2 DEF Closing, ExpiredIsClosed
    <2>5. AbsentHasNoVerdict'
      BY <1>0, <1>1, IssuedStays DEF Closing, AbsentHasNoVerdict
    <2>6. ClaimsAreIssued'
      <3> SUFFICES ASSUME NEW w \in Workers, worker[w].link # NoLink
                   PROVE  link'[worker[w].link].status # "absent"
        BY <1>2 DEF ClaimsAreIssued
      <3>1. worker[w].link \in Links
        BY DEF TypeOK, Claims
      <3> QED
        BY <1>0, <3>1, IssuedStays DEF Closing, ClaimsAreIssued
    <2> QED
      BY <2>3, <2>4, <2>5, <2>6 DEF Closing
  <1> QED
    BY <1>3, <1>4 DEF Desk, TakeCash, ReturnCash, CheckOut, CancelReservation, RecreateWithDates,
           ReadForCancel, CommitCancel, Provider, Pay, Webhooks, Ingest, AnswerDuplicate,
           FetchPayment, LoseJob, IgnoreNotice, LogNotice, FailNotice, RecordNotice, providerVars

\* A checkout that is said to be expired takes no payment, whichever of several
\* slow workers said so.
THEOREM SucceededIsTrue == Spec => []SucceededMeansClosed
  <1>1. Init => Closing
    BY DEF Init, Closing, ClaimsAreIssued, ExpiredIsClosed, AbsentHasNoVerdict,
           SucceededMeansClosed, Idle, Unissued
  <1>2. TypeOK /\ Closing /\ [Next]_vars => Closing'
    <2>1. Closing /\ UNCHANGED vars => Closing'
      BY DEF vars, Closing, ClaimsAreIssued, ExpiredIsClosed, AbsentHasNoVerdict,
             SucceededMeansClosed
    <2> QED
      BY <2>1, ClosingDesk, ClosingRevocation DEF Next
  <1>3. Closing => SucceededMeansClosed
    BY DEF Closing
  <1> QED
    BY <1>1, <1>2, <1>3, TypesAlways, PTL DEF Spec

-----------------------------------------------------------------------------
(* Implementation of ProviderPayments.                                       *)

\* The mapped state: the standings of the payments.
StandingMap == [p \in Payments |-> Standing(payment[p])]

\* A step of the payments is a step of the promise or none.
LEMMA PromisedStep ==
  ASSUME TypeOK, LedgerFollowsPayments, [Next]_vars
  PROVE  [Promised!Next]_<<StandingMap, booked>>
  <1>1. CASE payment' = payment /\ booked' = booked
    BY <1>1 DEF StandingMap
  <1>2. ASSUME NEW j \in jobs, NEW heard \in BOOLEAN, RecordNotice(j, heard)
        PROVE  [Promised!Next]_<<StandingMap, booked>>
    <2> DEFINE p == j.notice[1]
               s == j.status
    <2>1. p \in Payments /\ s \in Outcomes
      BY JobTypes
    <2>2. /\ payment' = [payment EXCEPT ![p] = s]
          /\ booked' = [booked EXCEPT ![p] = IF Books(p, s) THEN @ + 1 ELSE @]
          /\ Allowed(payment[p], s)
      BY <1>2 DEF RecordNotice
    <2> HIDE DEF p, s
    <2>3. payment[p] \in Outcomes \cup {"absent"} /\ booked[p] \in Nat
      BY <2>1 DEF TypeOK
    <2>4. /\ booked[p] <= 1
          /\ payment[p] = "completed" => booked[p] = 1
          /\ booked[p] = 1 => payment[p] \in {"completed", "partially_refunded", "refunded"}
      BY <2>1 DEF LedgerFollowsPayments
    <2>5. StandingMap' = [StandingMap EXCEPT ![p] = Standing(s)]
      BY <2>1, <2>2 DEF StandingMap, TypeOK
    <2>6. StandingMap[p] = Standing(payment[p])
      BY <2>1 DEF StandingMap
    <2>7. /\ Standing("absent") = "unknown" /\ Standing("pending") = "open"
          /\ Standing("completed") = "captured" /\ Standing("failed") = "failed"
          /\ Standing("partially_refunded") = "returned" /\ Standing("refunded") = "returned"
      BY DEF Standing
    <2>8. ~Books(p, s) => booked' = booked
      BY <2>2 DEF TypeOK
    <2>9. Books(p, s) => booked' = [booked EXCEPT ![p] = @ + 1]
      BY <2>2
    <2>10. CASE Standing(s) = Standing(payment[p])
      <3>1. StandingMap' = StandingMap
        BY <2>1, <2>5, <2>6, <2>10 DEF StandingMap
      <3>2. ~Books(p, s)
        BY <2>1, <2>3, <2>4, <2>7, <2>10 DEF Books, Outcomes
      <3> QED
        BY <2>8, <3>1, <3>2
    <2>11. CASE Standing(s) # Standing(payment[p])
      <3>1. CASE s = "pending"
        <4>1. payment[p] = "absent" /\ ~Books(p, s)
          BY <2>2, <2>11, <3>1 DEF Allowed, Books
        <4>2. Promised!Open(p)
          BY <2>5, <2>6, <2>7, <2>8, <3>1, <4>1 DEF Promised!Open, Promised!Becomes, StandingMap
        <4> QED
          BY <2>1, <4>2 DEF Promised!Next
      <3>2. CASE s = "completed"
        <4>1. payment[p] \in {"absent", "pending"} /\ Books(p, s)
          BY <2>2, <2>3, <2>4, <2>11, <3>2 DEF Allowed, Books
        <4>2. Promised!Capture(p)
          BY <2>5, <2>6, <2>7, <2>9, <3>2, <4>1 DEF Promised!Capture, Promised!Becomes, StandingMap
        <4> QED
          BY <2>1, <4>2 DEF Promised!Next
      <3>3. CASE s = "failed"
        <4>1. payment[p] \in {"absent", "pending"} /\ ~Books(p, s)
          BY <2>2, <2>11, <3>3 DEF Allowed, Books
        <4>2. Promised!Fail(p)
          BY <2>5, <2>6, <2>7, <2>8, <3>3, <4>1 DEF Promised!Fail, Promised!Becomes, StandingMap
        <4> QED
          BY <2>1, <4>2 DEF Promised!Next
      <3>4. CASE s \in {"partially_refunded", "refunded"}
        <4>1. payment[p] \in {"absent", "pending", "completed"} /\ ~Books(p, s)
          BY <2>2, <2>7, <2>11, <3>4 DEF Allowed, Books
        <4>2. Promised!Return(p)
          BY <2>5, <2>6, <2>7, <2>8, <3>4, <4>1 DEF Promised!Return, Promised!Becomes, StandingMap
        <4> QED
          BY <2>1, <4>2 DEF Promised!Next
      <3> QED
        BY <2>1, <3>1, <3>2, <3>3, <3>4 DEF Outcomes
    <2> QED
      BY <2>10, <2>11
  <1> QED
    BY <1>1, <1>2, BookSteps

\* The webhooks implement ProviderPayments: a payment is entered in the step that
\* captures it and never again, and no notice, however late, takes it back.
THEOREM WebhooksKeepThePromise == Spec => PaymentsKeepTheirStanding
  <1>1. Init => Promised!Init
    BY DEF Init, Promised!Init, Standing
  <1>2. TypeOK /\ LedgerFollowsPayments /\ [Next]_vars
        => [Promised!Next]_<<StandingMap, booked>>
    BY PromisedStep
  <1> QED
    BY <1>1, <1>2, TypesAlways, OneTransactionEach, PTL
       DEF Spec, PaymentsKeepTheirStanding, Promised!Spec, StandingMap
=============================================================================
