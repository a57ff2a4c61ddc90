---------------------------- MODULE PaymentLinks ----------------------------
(* The payment links of one reservation: the guest pays at the provider, the *)
(* provider notifies, the notification is checked against the provider and   *)
(* recorded as a payment and a transaction, while the desk takes and returns *)
(* cash, cancels links and the reservation, and a task closes the checkouts  *)
(* of cancelled links at the provider.                                       *)
(*                                                                           *)
(* A notification is read in two steps, for the provider is asked before any *)
(* lock is taken (FetchPayment) and all is decided again under the locks of  *)
(* event, payment, reservation and link.  cancel_link locks nothing and is   *)
(* two steps as well (ReadForCancel, CommitCancel).  The revocation task     *)
(* commits its claim, calls the provider and commits the outcome: Claim,     *)
(* Revoke, Settle.                                                           *)
(*                                                                           *)
(* Amounts are whole units of one currency, without surcharges and without   *)
(* the cent of tolerance; links carry the surcharge quote of their issue.    *)
(* Transactions are kept as their net sum (ledger) and, per provider         *)
(* payment, their number (booked).                                           *)
EXTENDS Integers, FiniteSets, Functions

CONSTANTS Links, Workers,
          Payments,   \* the payments the provider may take, each at one checkout
          LinkOf,     \* [Payments -> Links]
          Amount,     \* [Payments -> Nat \ {0}]
          Requested,  \* [Links -> Nat \ {0}]
          Total,      \* what the reservation costs
          CashSteps,  \* the amounts the desk takes or returns at once
          Reports,    \* bound: what the provider may report of each payment
          MaxJobs,    \* bound: notifications read at the same time
          MaxFaults,  \* bound: stopped processes, lost replies and slow claims
          NoLink

Outcomes == {"pending", "completed", "failed", "partially_refunded", "refunded"}

ASSUME LinksAssumption == NoLink \notin Links /\ IsFiniteSet(Links)
ASSUME AmountsAssumption ==
  /\ LinkOf \in [Payments -> Links]
  /\ Amount \in [Payments -> Nat \ {0}]
  /\ Requested \in [Links -> Nat \ {0}]
  /\ Total \in Nat
  /\ CashSteps \subseteq Nat \ {0}
ASSUME ReportsAssumption == Reports \in [Payments -> SUBSET Outcomes]
ASSUME BoundsAssumption == MaxJobs \in Nat /\ MaxFaults \in Nat

VARIABLES
  resv,        \* the reservation: "open", "cancelled" or "checked_out"
  ledger,      \* the sum of its transactions, refunds subtracted
  charged,     \* has it ever had a transaction?
  link,        \* [Links -> the row of the link]
  payment,     \* [Payments -> the status of the Payment row, or "absent"]
  booked,      \* [Payments -> how many transactions record it]
  seen,        \* the notices with a payment_webhook_events row
  jobs,        \* notices being ingested, with what the provider answered
  cancelling,  \* what cancel_link has read and not yet written, or NoLink
  worker,      \* [Workers -> the claim each holds]
  checkout,    \* at the provider: the links whose checkout takes payments
  charge,      \* at the provider: [Payments -> status, or "none"]
  notices,     \* at the provider: notices not acknowledged yet
  faults       \* how many faults have happened

deskVars == <<resv, ledger, charged>>
bookVars == <<payment, booked>>
providerVars == <<checkout, charge>>
vars == <<resv, ledger, charged, link, payment, booked, seen, jobs, cancelling,
          worker, checkout, charge, notices, faults>>

LinkStatuses == {"absent", "pending", "partially_paid", "completed", "cancelled"}
Revocations == {"not_required", "pending", "processing", "succeeded", "failed"}
LinkRows == [status : LinkStatuses, provider : BOOLEAN, payable : BOOLEAN,
             collected : SUBSET Payments, revocation : Revocations, attempts : Nat]
Notices == {n \in Payments \X Outcomes : n[2] \in Reports[n[1]]}
Jobs == [notice : Notices, status : Outcomes]
Snapshots == [link : Links, payable : BOOLEAN, revocation : Revocations]
Claims == [link : Links \cup {NoLink}, attempt : Nat,
           answer : {"none", "expired", "unconfirmed"}]
Idle == [link |-> NoLink, attempt |-> 0, answer |-> "none"]

TypeOK ==
  /\ resv \in {"open", "cancelled", "checked_out"}
  /\ ledger \in Nat
  /\ charged \in BOOLEAN
  /\ link \in [Links -> LinkRows]
  /\ payment \in [Payments -> Outcomes \cup {"absent"}]
  /\ booked \in [Payments -> Nat]
  /\ seen \subseteq Notices
  /\ jobs \subseteq Jobs
  /\ cancelling \in Snapshots \cup {NoLink}
  /\ worker \in [Workers -> Claims]
  /\ checkout \subseteq Links
  /\ charge \in [Payments -> Outcomes \cup {"none"}]
  /\ notices \subseteq Notices
  /\ faults \in 0 .. MaxFaults

-----------------------------------------------------------------------------
Unissued == [status |-> "absent", provider |-> FALSE, payable |-> FALSE,
             collected |-> {}, revocation |-> "not_required", attempts |-> 0]

Init ==
  /\ resv = "open"
  /\ ledger = 0
  /\ charged = FALSE
  /\ link = [l \in Links |-> Unissued]
  /\ payment = [p \in Payments |-> "absent"]
  /\ booked = [p \in Payments |-> 0]
  /\ seen = {} /\ jobs = {}
  /\ cancelling = NoLink
  /\ worker = [w \in Workers |-> Idle]
  /\ checkout = {}
  /\ charge = [p \in Payments |-> "none"]
  /\ notices = {}
  /\ faults = 0

Fault == faults < MaxFaults /\ faults' = faults + 1

Sum(S) == FoldFunctionOnSet(+, 0, Amount, S)

\* operational_balance_due; total and adjustments do not change here.
Balance == Total - ledger

\* What a link still asks for.
Outstanding(l) ==
  LET rest == Requested[l] - Sum(link[l].collected)
  IN  IF rest > 0 THEN rest ELSE 0

\* _available_provider_balance: what payable links ask for is set aside.
SetAside == {l \in Links : link[l].payable /\ link[l].status \in {"pending", "partially_paid"}}
Available == Balance - FoldFunctionOnSet(+, 0, [l \in Links |-> Outstanding(l)], SetAside)

\* create_link, under the lock of the reservation through the call to the
\* gateway: a payable link, or a local one when the gateway gives no preference.
CreateLink(l, answered) ==
  /\ link[l].status = "absent"
  /\ resv = "open"
  /\ Requested[l] <= Available
  /\ link' = [link EXCEPT ![l].status = "pending", ![l].provider = answered,
                          ![l].payable = answered]
  /\ checkout' = IF answered THEN checkout \cup {l} ELSE checkout
  /\ UNCHANGED <<deskVars, bookVars, seen, jobs, cancelling, worker, charge, notices, faults>>

\* process_payment for cash at the desk: a charge or the refund of one.
TakeCash(a) ==
  /\ resv = "open"
  /\ a <= Balance
  /\ ledger' = ledger + a
  /\ charged' = TRUE
  /\ UNCHANGED <<resv, link, bookVars, seen, jobs, cancelling, worker, providerVars, notices, faults>>

\* MUTANT of ReturnCash: what was paid is not looked up.
ReturnUnpaidCash(a) ==
  /\ ledger' = ledger - a
  /\ UNCHANGED <<resv, charged, link, bookVars, seen, jobs, cancelling, worker, providerVars, notices, faults>>

ReturnCash(a) ==
  /\ a <= ledger
  /\ ledger' = ledger - a
  /\ UNCHANGED <<resv, charged, link, bookVars, seen, jobs, cancelling, worker, providerVars, notices, faults>>

\* perform_checkout, with or without a balance due (the desk may force it).
CheckOut ==
  /\ resv = "open"
  /\ resv' = "checked_out"
  /\ UNCHANGED <<ledger, charged, link, bookVars, seen, jobs, cancelling, worker, providerVars, notices, faults>>

\* _queue_provider_revocation decides from the row as it was loaded.
Queued(payable) == IF payable THEN "pending" ELSE "not_required"

\* Cancellations by the desk, a review or a channel close the links of the
\* reservation; a change of the dates of an unpaid one does not.
CancelReservation ==
  /\ resv = "open"
  /\ resv' = "cancelled"
  /\ link' = [l \in Links |->
       IF link[l].status \in {"pending", "partially_paid"}
       THEN [link[l] EXCEPT !.status = "cancelled", !.payable = FALSE,
                            !.revocation = Queued(link[l].payable)]
       ELSE link[l]]
  /\ UNCHANGED <<ledger, charged, bookVars, seen, jobs, cancelling, worker, providerVars, notices, faults>>

RecreateWithDates ==
  /\ resv = "open"
  /\ ~charged
  /\ resv' = "cancelled"
  /\ UNCHANGED <<ledger, charged, link, bookVars, seen, jobs, cancelling, worker, providerVars, notices, faults>>

\* cancel_link reads the row without a lock.
ReadForCancel(l) ==
  /\ cancelling = NoLink
  /\ link[l].status \in {"pending", "partially_paid"}
  /\ cancelling' = [link |-> l, payable |-> link[l].payable, revocation |-> link[l].revocation]
  /\ UNCHANGED <<deskVars, link, bookVars, seen, jobs, worker, providerVars, notices, faults>>

\* Only the columns that differ from what was read are written.
CommitCancel ==
  /\ cancelling # NoLink
  /\ LET l == cancelling.link
         queued == Queued(cancelling.payable)
     IN  link' = [link EXCEPT
           ![l].status = "cancelled",
           ![l].payable = IF cancelling.payable THEN FALSE ELSE @,
           ![l].revocation = IF queued # cancelling.revocation THEN queued ELSE @]
  /\ cancelling' = NoLink
  /\ UNCHANGED <<deskVars, bookVars, seen, jobs, worker, providerVars, notices, faults>>

-----------------------------------------------------------------------------
(* The provider.                                                             *)

\* What the provider may make of a payment; "failed" after "completed" is a
\* charge back.
Follows(old, new) ==
  \/ old = "none" /\ new \in {"pending", "completed"}
  \/ old = "pending" /\ new \in {"completed", "failed"}
  \/ old = "completed" /\ new \in {"failed", "partially_refunded", "refunded"}
  \/ old = "partially_refunded" /\ new = "refunded"

\* The guest pays, or the provider moves a payment: a notice is due.
Pay(p, s) ==
  /\ charge[p] = "none" => LinkOf[p] \in checkout
  /\ Follows(charge[p], s)
  /\ charge' = [charge EXCEPT ![p] = s]
  /\ notices' = notices \cup {<<p, s>>}
  /\ UNCHANGED <<deskVars, link, bookVars, seen, jobs, cancelling, worker, checkout, faults>>

\* The provider hears a 200, or the reply is lost and it notifies again.
Reply(n, heard) ==
  IF heard THEN notices' = notices \ {n} /\ UNCHANGED faults
           ELSE Fault /\ UNCHANGED notices

-----------------------------------------------------------------------------
(* Notices from the provider: ingest_webhook and its route.                  *)

\* The fast path: an event already recorded is answered at once.
AnswerDuplicate(n, heard) ==
  /\ n \in notices
  /\ n \in seen
  /\ Reply(n, heard)
  /\ UNCHANGED <<deskVars, link, bookVars, seen, jobs, cancelling, worker, providerVars>>

\* The provider is asked for the payment, with no lock held.
FetchPayment(n) ==
  /\ n \in notices
  /\ n \notin seen
  /\ Cardinality(jobs) < MaxJobs
  /\ jobs' = jobs \cup {[notice |-> n, status |-> charge[n[1]]]}
  /\ UNCHANGED <<deskVars, link, bookVars, seen, cancelling, worker, providerVars, notices, faults>>

\* The process stops before it commits.
LoseJob(j) ==
  /\ j \in jobs
  /\ Fault
  /\ jobs' = jobs \ {j}
  /\ UNCHANGED <<deskVars, link, bookVars, seen, cancelling, worker, providerVars, notices>>

\* MUTANT of Closed: the reservation is not asked.
LinkClosed(l) == link[l].status = "cancelled"

\* closed_link_status: links are not expired by any caller.
Closed(l) == resv = "cancelled" \/ link[l].status = "cancelled"

\* MUTANT of Refused: a closed link takes no payment any more.
RefusedOnceClosed(p, s) ==
  LET l == LinkOf[p] IN
  \/ payment[p] = "absent" /\ ~link[l].payable
  \/ payment[p] = "absent" /\ Amount[p] > Outstanding(l)
  \/ Closed(l) /\ ~(s = "failed" /\ payment[p] = "completed")

\* PaymentWebhookError: answered 200 and rolled back.
Refused(p, s) ==
  LET l == LinkOf[p] IN
  \/ payment[p] = "absent" /\ ~link[l].payable /\ ~Closed(l)
  \/ payment[p] = "absent" /\ Amount[p] > Outstanding(l)
  \/ Closed(l) /\ s # "completed" /\ ~(s = "failed" /\ payment[p] = "completed")

\* MUTANT of Allowed: the latest answer wins.
AnyStatus(old, new) == TRUE

\* _ALLOWED_STATUS_TRANSITIONS; a new payment takes any status.
Allowed(old, new) ==
  \/ old \in {"absent", "pending"}
  \/ old = new
  \/ old = "completed" /\ new \in {"partially_refunded", "refunded"}
  \/ old = "partially_refunded" /\ new = "refunded"

\* MUTANT of Books: the key of the transaction is not looked up.
BooksEachTime(p, s) == s = "completed"

\* _ensure_completed_transaction writes none when the key is in use.
Books(p, s) == s = "completed" /\ booked[p] = 0

\* MUTANT of Unbookable: a verified late payment skips the balance as well.
UnbookableOnlyAtDeparture(p) == resv = "checked_out"

\* PaymentError of process_payment: a cancelled reservation is let through, for
\* the provider has verified the payment; one that left or owes less is not.
Unbookable(p) == resv = "checked_out" \/ Amount[p] > Balance

\* MUTANT of Refreshed: payments are added to the link and never taken off.
RefreshedByAdding(l, paid) ==
  LET collected == link[l].collected
                   \cup {p \in Payments : LinkOf[p] = l /\ paid[p] = "completed"}
      row == [link[l] EXCEPT !.collected = collected]
  IN  IF Sum(collected) >= Requested[l]
      THEN [row EXCEPT !.status = "completed", !.payable = FALSE]
      ELSE IF Closed(l) THEN [row EXCEPT !.status = "cancelled", !.payable = FALSE]
      ELSE IF collected # {} THEN [row EXCEPT !.status = "partially_paid", !.payable = row.provider]
      ELSE [row EXCEPT !.status = "pending"]

\* refresh_link_collection of l when the payments are as in paid, then the
\* closed status again unless the link is now complete.
Refreshed(l, paid) ==
  LET collected == {p \in Payments : LinkOf[p] = l /\ paid[p] = "completed"}
      row == [link[l] EXCEPT !.collected = collected]
  IN  IF Sum(collected) >= Requested[l]
      THEN [row EXCEPT !.status = "completed", !.payable = FALSE]
      ELSE IF Closed(l) THEN [row EXCEPT !.status = "cancelled", !.payable = FALSE]
      ELSE IF collected # {} THEN [row EXCEPT !.status = "partially_paid", !.payable = row.provider]
      ELSE [row EXCEPT !.status = "pending"]

\* Under the locks the event is known, or the payment is refused.
IgnoreNotice(j, heard) ==
  /\ j \in jobs
  /\ j.notice \in seen \/ Refused(j.notice[1], j.status)
  /\ jobs' = jobs \ {j}
  /\ Reply(j.notice, heard)
  /\ UNCHANGED <<deskVars, link, bookVars, seen, cancelling, worker, providerVars>>

\* A link found open in a closed reservation is closed before anything else.
Shut(l) ==
  IF Closed(l) THEN [link[l] EXCEPT !.status = "cancelled", !.payable = FALSE] ELSE link[l]

\* An answer older than what is recorded, or a charge back: the event is kept,
\* the payment is not changed.
LogNotice(j, heard) ==
  /\ j \in jobs
  /\ j.notice \notin seen
  /\ ~Refused(j.notice[1], j.status)
  /\ ~Allowed(payment[j.notice[1]], j.status)
  /\ link' = [link EXCEPT ![LinkOf[j.notice[1]]] = Shut(LinkOf[j.notice[1]])]
  /\ seen' = seen \cup {j.notice}
  /\ jobs' = jobs \ {j}
  /\ Reply(j.notice, heard)
  /\ UNCHANGED <<deskVars, bookVars, cancelling, worker, providerVars>>

\* The PaymentError is not caught: 500, rolled back, notified again.
FailNotice(j) ==
  LET p == j.notice[1] IN
  /\ j \in jobs
  /\ j.notice \notin seen
  /\ ~Refused(p, j.status)
  /\ Allowed(payment[p], j.status)
  /\ Books(p, j.status) /\ Unbookable(p)
  /\ jobs' = jobs \ {j}
  /\ UNCHANGED <<deskVars, link, bookVars, seen, cancelling, worker, providerVars, notices, faults>>

\* Payment, transaction, link and event in one commit.
RecordNotice(j, heard) ==
  LET p == j.notice[1]
      books == Books(p, j.status)
  IN
  /\ j \in jobs
  /\ j.notice \notin seen
  /\ ~Refused(p, j.status)
  /\ Allowed(payment[p], j.status)
  /\ ~(books /\ Unbookable(p))
  /\ payment' = [payment EXCEPT ![p] = j.status]
  /\ booked' = [booked EXCEPT ![p] = IF books THEN @ + 1 ELSE @]
  /\ ledger' = IF books THEN ledger + Amount[p] ELSE ledger
  /\ charged' = (charged \/ books)
  /\ link' = [link EXCEPT ![LinkOf[p]] = Refreshed(LinkOf[p], payment')]
  /\ seen' = seen \cup {j.notice}
  /\ jobs' = jobs \ {j}
  /\ Reply(j.notice, heard)
  /\ UNCHANGED <<resv, cancelling, worker, providerVars>>

-----------------------------------------------------------------------------
(* process_payment_link_revocations.                                         *)

Processing == {l \in Links : link[l].revocation = "processing"}

\* Claims whose worker still runs; that they grow stale is a slow provider.
Held == {l \in Processing : \E w \in Workers :
           worker[w].link = l /\ worker[w].attempt = link[l].attempts}

\* The rows to work on once the claims in stale are pending again.
Candidates(stale) ==
  {l \in Links : link[l].status = "cancelled"
                 /\ (link[l].revocation = "pending" \/ l \in stale)}

\* MUTANT of Stale: claims are not recovered.
NoneStale(stale) == stale = {} /\ UNCHANGED faults

\* Claims of five minutes ago or more; held ones count as faults.
Stale(stale) ==
  /\ stale \subseteq Processing
  /\ faults' = faults + Cardinality(stale \cap Held)
  /\ faults' <= MaxFaults

Claim(w, l, stale) ==
  /\ worker[w] = Idle
  /\ Stale(stale)
  /\ l \in Candidates(stale)
  /\ link' = [m \in Links |->
       IF m = l THEN [link[m] EXCEPT !.revocation = "processing", !.attempts = @ + 1]
       ELSE IF m \in stale THEN [link[m] EXCEPT !.revocation = "pending"]
       ELSE link[m]]
  /\ worker' = [worker EXCEPT ![w] = [link |-> l, attempt |-> link[l].attempts + 1, answer |-> "none"]]
  /\ UNCHANGED <<deskVars, bookVars, seen, jobs, cancelling, providerVars, notices>>

\* No row to work on: the stale claims are released all the same.
ReleaseStale(stale) ==
  /\ stale # {}
  /\ Stale(stale)
  /\ Candidates(stale) = {}
  /\ link' = [m \in Links |-> IF m \in stale THEN [link[m] EXCEPT !.revocation = "pending"] ELSE link[m]]
  /\ UNCHANGED <<deskVars, bookVars, seen, jobs, cancelling, worker, providerVars, notices>>

\* MUTANT of Fenced: the row is written whoever claimed it since.
Unfenced(w) == TRUE

\* The claim is still the one this worker made.
Fenced(w) ==
  LET l == worker[w].link IN
  link[l].revocation = "processing" /\ link[l].attempts = worker[w].attempt

\* MUTANT of Revoke: an accepted update is taken for the proof.
RevokeUnverified(w, answer, done) ==
  /\ worker[w].link # NoLink /\ worker[w].answer = "none"
  /\ worker' = [worker EXCEPT ![w].answer = answer]
  /\ checkout' = IF done THEN checkout \ {worker[w].link} ELSE checkout
  /\ UNCHANGED <<deskVars, link, bookVars, seen, jobs, cancelling, charge, notices, faults>>

\* The provider is asked to expire the checkout; an error leaves open whether
\* it did.  That the claim stands was looked up before the call (see Skip).
Revoke(w, answer, done) ==
  /\ worker[w].link # NoLink /\ worker[w].answer = "none"
  /\ answer = "expired" => done
  /\ worker' = [worker EXCEPT ![w].answer = answer]
  /\ checkout' = IF done THEN checkout \ {worker[w].link} ELSE checkout
  /\ UNCHANGED <<deskVars, link, bookVars, seen, jobs, cancelling, charge, notices, faults>>

\* The outcome is recorded if the claim still stands.
Settle(w) ==
  /\ worker[w].link # NoLink /\ worker[w].answer # "none"
  /\ Fenced(w)
  /\ link' = [link EXCEPT ![worker[w].link].revocation =
                IF worker[w].answer = "expired" THEN "succeeded" ELSE "failed"]
  /\ worker' = [worker EXCEPT ![w] = Idle]
  /\ UNCHANGED <<deskVars, bookVars, seen, jobs, cancelling, providerVars, notices, faults>>

\* The claim is no longer this worker's, before or after the call.
Skip(w) ==
  /\ worker[w].link # NoLink
  /\ ~Fenced(w)
  /\ worker' = [worker EXCEPT ![w] = Idle]
  /\ UNCHANGED <<deskVars, link, bookVars, seen, jobs, cancelling, providerVars, notices, faults>>

\* The process stops, or finds the row locked and leaves it.
Abandon(w) ==
  /\ worker[w].link # NoLink
  /\ Fault
  /\ worker' = [worker EXCEPT ![w] = Idle]
  /\ UNCHANGED <<deskVars, link, bookVars, seen, jobs, cancelling, providerVars, notices>>

-----------------------------------------------------------------------------
Desk ==
  \/ \E l \in Links, answered \in BOOLEAN : CreateLink(l, answered)
  \/ \E a \in CashSteps : TakeCash(a) \/ ReturnCash(a)
  \/ CheckOut \/ CancelReservation \/ RecreateWithDates
  \/ \E l \in Links : ReadForCancel(l)
  \/ CommitCancel

Provider == \E p \in Payments : \E s \in Reports[p] : Pay(p, s)

Ingest(j, heard) ==
  \/ IgnoreNotice(j, heard) \/ LogNotice(j, heard) \/ RecordNotice(j, heard)
  \/ heard /\ FailNotice(j)

Webhooks ==
  \/ \E n \in notices, heard \in BOOLEAN : AnswerDuplicate(n, heard)
  \/ \E n \in notices : FetchPayment(n)
  \/ \E j \in jobs : LoseJob(j)
  \/ \E j \in jobs, heard \in BOOLEAN : Ingest(j, heard)

Work(w) == Settle(w) \/ Skip(w)
           \/ \E answer \in {"expired", "unconfirmed"}, done \in BOOLEAN : Revoke(w, answer, done)

Revocation ==
  \/ \E w \in Workers, l \in Links, stale \in SUBSET Links : Claim(w, l, stale)
  \/ \E stale \in SUBSET Links : ReleaseStale(stale)
  \/ \E w \in Workers : Work(w) \/ Abandon(w)

Next == Desk \/ Provider \/ Webhooks \/ Revocation

Spec == Init /\ [][Next]_vars

\* The provider notifies again until it hears an answer; a request that is not
\* interrupted ends; the task runs every five minutes and reclaims what others
\* left.  The desk and the guest owe nothing.
Fairness ==
  /\ \A n \in Notices : SF_vars(FetchPayment(n)) /\ WF_vars(AnswerDuplicate(n, TRUE))
  /\ \A j \in Jobs : WF_vars(Ingest(j, TRUE))
  /\ \A l \in Links : SF_vars(\E w \in Workers, stale \in SUBSET Links : Claim(w, l, stale))
  /\ \A w \in Workers : WF_vars(Work(w))

FairSpec == Spec /\ Fairness

-----------------------------------------------------------------------------
(* Properties.                                                               *)

\* However often and in whatever order the provider notifies, a payment has one
\* transaction if it was ever completed and none otherwise: a row of payments
\* that says completed has its transaction, one that failed or is open has none.
LedgerFollowsPayments ==
  \A p \in Payments :
    /\ booked[p] <= 1
    /\ payment[p] = "completed" => booked[p] = 1
    /\ booked[p] = 1 => payment[p] \in {"completed", "partially_refunded", "refunded"}

\* Cash at the desk, late payments and links paid twice never add up to more
\* than the reservation costs.
NeverOverpaid == ledger <= Total

\* What a link says it collected is what its completed payments are, after
\* refunds too.
LinkCollectsItsPayments ==
  \A l \in Links :
    link[l].collected = {p \in Payments : LinkOf[p] = l /\ payment[p] = "completed"}

\* Once the reservation is cancelled a link that takes no payment takes none
\* again: what guests pay late is recorded without reopening it.
LateMoneyReopensNothing ==
  [][\A l \in Links :
       resv = "cancelled" /\ link[l].status # "absent" /\ ~link[l].payable => ~link'[l].payable]_vars

\* The verdict on a revocation stays, whatever slow workers still answer, until
\* somebody cancels the link again.
RevocationVerdictStands ==
  [][\A l \in Links :
       link[l].revocation \in {"succeeded", "failed"} /\ link'[l].revocation # link[l].revocation
       => link'[l].status = "cancelled" /\ link'[l].revocation \in {"pending", "not_required"}]_vars

\* A checkout is not said to be expired while guests can still pay there.
SucceededMeansClosed ==
  \A l \in Links : link[l].revocation = "succeeded" => l \notin checkout

\* A revocation that is due ends: the checkout is expired, or there is an alert,
\* or the link is no longer cancelled.
RevocationsEnd ==
  \A l \in Links :
    link[l].status = "cancelled" /\ link[l].revocation \in {"pending", "processing"}
    ~> link[l].status # "cancelled" \/ link[l].revocation \in {"succeeded", "failed"}

\* There is room for the payment: its link takes payments or is closed, for late
\* ones are taken as well, and the link and the reservation ask for as much.
HasRoom(p) ==
  LET l == LinkOf[p] IN
  /\ link[l].payable \/ link[l].status = "cancelled" \/ resv = "cancelled"
  /\ Amount[p] <= Outstanding(l)
  /\ Amount[p] <= Balance
  /\ resv # "checked_out"

\* Money the provider tells of is in the end in the ledger, whatever is
\* cancelled, lost or repeated meanwhile, as long as there is room for it.
MoneyThatFitsIsRecorded ==
  \A p \in Payments :
    <<p, "completed">> \in notices
    ~> booked[p] > 0 \/ charge[p] # "completed" \/ ~HasRoom(p)

\* The payments of the ledger as ProviderPayments sees them.
Standing(s) ==
  CASE s = "absent" -> "unknown"
    [] s = "pending" -> "open"
    [] s = "completed" -> "captured"
    [] s = "failed" -> "failed"
    [] OTHER -> "returned"

Promised == INSTANCE ProviderPayments
              WITH standing <- [p \in Payments |-> Standing(payment[p])], entries <- booked

\* The webhooks keep the promise of ProviderPayments.
PaymentsKeepTheirStanding == Promised!Spec
=============================================================================
