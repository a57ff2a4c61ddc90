----------------------------- MODULE EventStream -----------------------------
(* The live view of one hotel: a transaction that changes the hotel inserts   *)
(* rows into domain_event_outbox; a hub in each process polls the committed   *)
(* rows and queues a frame per row for every connected browser tab; a frame   *)
(* names a domain and the tab fetches the data of that domain again.  A tab   *)
(* keeps the cursor of the last frame it took, and before it opens a stream   *)
(* asks /events/recovery what it has missed since.                            *)
(*                                                                            *)
(* This is the transport of a deployment without Redis and without a LISTEN   *)
(* connection; EventListener adds the latter.  What a tab shows is kept as    *)
(* the rows it does not show yet (stale).  Fetching data again is part of the *)
(* step that asks for it: doing so later only shows more.  A row's cursor is  *)
(* its id, for stream_cursor is never assigned.                               *)
EXTENDS Integers, Sequences, FiniteSetsExt, TLC

CONSTANTS Clients,
          Domains,       \* SUPPORTED_DOMAINS in the order of sorted()
          MaxRows,       \* bound: rows ever inserted
          Earlier,       \* rows committed before any tab is opened
          DomainOf,      \* [1 .. MaxRows -> the domain each row names]
          BatchSize, HistorySize, QueueSize, RecoverySize,
          Interleaved    \* bound: may transactions commit in another order than
                         \* the one they inserted their rows in?

Rows == 1 .. MaxRows

ASSUME RowsAssumption ==
  /\ MaxRows \in Nat /\ Earlier \in 0 .. MaxRows
  /\ Domains \in Seq(Range(Domains))
  /\ DomainOf \in [Rows -> Range(Domains)]
ASSUME SizesAssumption ==
  /\ {BatchSize, HistorySize, QueueSize, RecoverySize} \subseteq Nat \ {0}
  /\ Len(Domains) <= QueueSize
  /\ Interleaved \in BOOLEAN

VARIABLES
  last,       \* the last id the sequence gave
  open,       \* rows of transactions that have not ended
  outbox,     \* committed rows
  hub,        \* cursor, history_floor, history, and the queue of each subscriber
  listening,  \* _listener_available: do notifications replace the poll?
  polling,    \* is there a poll task?
  fetched,    \* rows the poll has read and not yet published
  tab,        \* [Clients -> "away", "recovered" or "streaming"]
  at,         \* [Clients -> the cursor in the session storage]
  stale       \* [Clients -> committed rows the tab does not show]

tables == <<last, open, outbox>>
server == <<hub, listening, polling, fetched>>
browsers == <<tab, at, stale>>
vars == <<last, open, outbox, hub, listening, polling, fetched, tab, at, stale>>

Frames == [cursor : Rows, domain : Range(Domains)]
Subscribers == DOMAIN hub.queue

\* What the hub of some subscribers may be.
Hubs(S) ==
  {h \in [cursor : 0 .. MaxRows, floor : 0 .. MaxRows,
          history : Seq(Frames), queue : [S -> Seq(Frames)]] :
     /\ h.floor <= h.cursor
     /\ Len(h.history) <= HistorySize
     /\ \A c \in S : Len(h.queue[c]) <= QueueSize}

TypeOK ==
  /\ last \in 0 .. MaxRows
  /\ open \subseteq Rows /\ outbox \subseteq Rows
  /\ hub \in Hubs({c \in Clients : tab[c] = "streaming"})
  /\ listening \in BOOLEAN /\ polling \in BOOLEAN
  /\ fetched \subseteq outbox
  /\ tab \in [Clients -> {"away", "recovered", "streaming"}]
  /\ at \in [Clients -> 0 .. MaxRows]
  /\ stale \in [Clients -> SUBSET outbox]

-----------------------------------------------------------------------------
\* No hub is kept for a hotel without subscribers.
NoHub == [cursor |-> 0, floor |-> 0, history |-> << >>, queue |-> << >>]

Init ==
  /\ last = Earlier
  /\ open = {}
  /\ outbox = 1 .. Earlier
  /\ hub = NoHub
  /\ listening = FALSE
  /\ polling = FALSE
  /\ fetched = {}
  /\ tab = [c \in Clients |-> "away"]
  /\ at = [c \in Clients |-> 0]
  /\ stale = [c \in Clients |-> {}]

\* queue_domain_change: the id is drawn when the row is inserted.
Insert ==
  /\ last < MaxRows
  /\ last' = last + 1
  /\ open' = open \cup {last + 1}
  /\ UNCHANGED <<outbox, server, browsers>>

\* The row is committed with the change it tells of, or undone with it.
Commit(i) ==
  /\ i \in open
  /\ Interleaved \/ \A k \in open : i <= k
  /\ open' = open \ {i}
  /\ outbox' = outbox \cup {i}
  /\ stale' = [c \in Clients |-> stale[c] \cup {i}]
  /\ UNCHANGED <<last, server, tab, at>>

RollBack(i) ==
  /\ i \in open
  /\ open' = open \ {i}
  /\ UNCHANGED <<last, outbox, server, browsers>>

-----------------------------------------------------------------------------
(* The hub.                                                                  *)

Newer(k) == {i \in outbox : i > k}
Latest == Max(outbox \cup {0})

\* The n smallest of S: ORDER BY cursor LIMIT n.
First(S, n) == {i \in S : Cardinality({j \in S : j <= i}) <= n}

\* _read_postgres_event_batch
Batch(k) == First(Newer(k), BatchSize)

\* The frame of each row.
Frame == [i \in Rows |-> [cursor |-> i, domain |-> DomainOf[i]]]

\* recovery_required, once per domain.
Resets(k) == [n \in 1 .. Len(Domains) |-> [cursor |-> k, domain |-> Domains[n]]]

\* MUTANT of QueueFrame: the queue has no limit.
QueueUnbounded(f, q) == Append(q, f)

\* _queue_frame: a full queue is dropped for a refetch of everything.
QueueFrame(f, q) == IF Len(q) >= QueueSize THEN Resets(f.cursor) ELSE Append(q, f)

\* Frames of the history that the subscriber has not seen, oldest first.
Replay(after) ==
  MapThenFoldSet(QueueFrame, << >>, LAMBDA n : hub.history[n], Max,
                 {n \in DOMAIN hub.history : hub.history[n].cursor > after})

\* MUTANT of Replayed: the floor of the history is not looked at.
ReplayedFromHistory(after) == IF after = 0 \/ after >= hub.cursor THEN << >> ELSE Replay(after)

\* _replay_or_reset for a subscriber that is not the first.
Replayed(after) ==
  IF after = 0 \/ after >= hub.cursor THEN << >>
  ELSE IF after < hub.floor THEN Resets(hub.cursor) ELSE Replay(after)

\* _publish_rows, for one row ...
PublishFrame(f, h) ==
  IF f.cursor <= h.cursor THEN h
  ELSE LET full == Len(h.history) = HistorySize
       IN  [cursor |-> f.cursor,
            floor |-> IF full THEN Head(h.history).cursor ELSE h.floor,
            history |-> Append(IF full THEN Tail(h.history) ELSE h.history, f),
            queue |-> [c \in DOMAIN h.queue |-> QueueFrame(f, h.queue[c])]]

\* ... and for many: the fold takes the greatest last.
Publish(h, rows) == MapThenFoldSet(PublishFrame, h, LAMBDA i : Frame[i], Max, rows)

\* The hub with one subscriber more.
Joined(c, q) ==
  [hub EXCEPT !.queue = [x \in Subscribers \cup {c} |-> IF x = c THEN q ELSE hub.queue[x]]]

\* A hub's first subscriber sets its cursor and reads one batch, unless the read
\* fails (answered); up is what the listener says of itself.
Open(c, up, answered) ==
  LET start == IF at[c] = 0 THEN Latest ELSE at[c]
      alone == [cursor |-> start, floor |-> start, history |-> << >>, queue |-> [x \in {c} |-> << >>]]
  IN
  /\ tab[c] = "recovered"
  /\ hub' = IF Subscribers # {} THEN Joined(c, Replayed(at[c]))
            ELSE IF answered THEN Publish(alone, Batch(start)) ELSE alone
  /\ listening' = up
  /\ polling' = (polling \/ ~up)
  /\ tab' = [tab EXCEPT ![c] = "streaming"]
  /\ UNCHANGED <<tables, fetched, at, stale>>

\* MUTANT of Leave: whoever leaves takes the poll along.
LeaveAndStopPolling(c) ==
  /\ tab[c] = "streaming"
  /\ tab' = [tab EXCEPT ![c] = "away"]
  /\ hub' = IF Subscribers = {c} THEN NoHub ELSE [hub EXCEPT !.queue = Restrict(@, Subscribers \ {c})]
  /\ polling' = FALSE /\ fetched' = {}
  /\ UNCHANGED <<tables, listening, at, stale>>

\* The connection is lost, closed by the server or paused by a hidden tab: what
\* is still queued is lost, and the last one out stops the poll.
Leave(c) ==
  /\ tab[c] = "streaming"
  /\ tab' = [tab EXCEPT ![c] = "away"]
  /\ IF Subscribers = {c}
     THEN hub' = NoHub /\ listening' = FALSE /\ polling' = FALSE /\ fetched' = {}
     ELSE hub' = [hub EXCEPT !.queue = Restrict(@, Subscribers \ {c})]
          /\ UNCHANGED <<listening, polling, fetched>>
  /\ UNCHANGED <<tables, at, stale>>

\* _poll: the rows are read without the lock of the hub and published under it.
PollRead ==
  /\ polling /\ ~listening
  /\ Subscribers # {}
  /\ fetched = {}
  /\ fetched' = Batch(hub.cursor)
  /\ UNCHANGED <<tables, hub, listening, polling, browsers>>

PollPublish ==
  /\ fetched # {}
  /\ hub' = Publish(hub, fetched)
  /\ fetched' = {}
  /\ UNCHANGED <<tables, listening, polling, browsers>>

-----------------------------------------------------------------------------
(* The tab.                                                                  *)

\* MUTANT of RecoveryDomains: a cut answer is taken for all there is.
PageDomains(after) == {DomainOf[i] : i \in First(Newer(after), RecoverySize)}

\* get_domain_event_recovery and what the tab makes of its answer.
RecoveryDomains(after) ==
  LET page == First(Newer(after), RecoverySize)
      reset == page # Newer(after) \/ (after > 0 /\ outbox # {} /\ after < Min(outbox))
  IN  IF reset THEN Range(Domains) ELSE {DomainOf[i] : i \in page}

Refetched(c, domains) == {i \in stale[c] : DomainOf[i] \notin domains}

\* recoverRealtime, before a stream is opened or while none can be.
Recover(c) ==
  /\ tab[c] # "streaming"
  /\ tab' = [tab EXCEPT ![c] = "recovered"]
  /\ stale' = [stale EXCEPT ![c] = Refetched(c, RecoveryDomains(at[c]))]
  /\ at' = [at EXCEPT ![c] = Max({@, Latest})]
  /\ UNCHANGED <<tables, server>>

\* runEventStream takes a frame; one that is not past the cursor is ignored.
Take(c) ==
  /\ tab[c] = "streaming"
  /\ hub.queue[c] # << >>
  /\ LET f == Head(hub.queue[c]) IN
       IF f.cursor <= at[c] THEN UNCHANGED <<at, stale>>
       ELSE /\ at' = [at EXCEPT ![c] = f.cursor]
            /\ stale' = [stale EXCEPT ![c] = Refetched(c, {f.domain})]
  /\ hub' = [hub EXCEPT !.queue[c] = Tail(@)]
  /\ UNCHANGED <<tables, listening, polling, fetched, tab>>

-----------------------------------------------------------------------------
Transactions == Insert \/ \E i \in open : Commit(i) \/ RollBack(i)
Poll == PollRead \/ PollPublish
Tab(c) == Recover(c) \/ Take(c) \/ Leave(c)

Next ==
  \/ Transactions
  \/ Poll
  \/ \E c \in Clients : Tab(c) \/ \E answered \in BOOLEAN : Open(c, FALSE, answered)

Spec == Init /\ [][Next]_vars

\* The poll runs every few seconds and a failed read is tried again; a tab
\* recovers and opens its stream again and reads what is sent to it.
Fairness ==
  /\ WF_vars(PollRead) /\ WF_vars(PollPublish)
  /\ \A c \in Clients :
       WF_vars(Recover(c)) /\ WF_vars(Take(c)) /\ WF_vars(\E answered \in BOOLEAN : Open(c, FALSE, answered))

FairSpec == Spec /\ Fairness

-----------------------------------------------------------------------------
(* Properties.                                                               *)

\* A tab's cursor never passes a change the tab does not show: what it has not
\* seen yet is still ahead of it, for the hub or the recovery to tell.
NothingMissed == \A c \in Clients : \A i \in stale[c] : i > at[c]

\* So it is for the domain the hub names first.  Of the frames of a reset, which
\* share one cursor, the tab takes the first and ignores the others.
Leading(i) == DomainOf[i] = Domains[1]
LeadingDomainMissesNothing ==
  \A c \in Clients : \A i \in stale[c] : Leading(i) => i > at[c]

\* Every committed change of that domain is shown in the end by every tab,
\* whoever connects, leaves, falls behind or reconnects meanwhile.
LeadingDomainCatchesUp ==
  \A c \in Clients, i \in Rows : Leading(i) => (i \in stale[c] ~> i \notin stale[c])
=============================================================================
