---------------------------- MODULE EventListener ----------------------------
(* EventStream with a LISTEN connection.  A trigger notifies of every row its  *)
(* transaction commits, a thread hands the notifications and the changes of    *)
(* its own connection to the event loop, and the hub polls only while it       *)
(* believes the connection to be down.  When it comes back the hub reads what  *)
(* was committed meanwhile without holding its lock (ReadCatchUp) and          *)
(* publishes it under the lock (PublishCatchUp).                               *)
EXTENDS EventStream

CONSTANT MaxSignals  \* bound: the connection changes no more while so many wait

VARIABLES
  connected,  \* what the thread says of its connection
  signals,    \* handed to the loop and not yet run: rows, "up" and "down"
  catchup,    \* "none", "due" or "read"
  caught      \* rows read to catch up and not yet published

listener == <<connected, signals, catchup, caught>>
allVars == <<vars, listener>>

ListenerInit ==
  /\ Init
  /\ connected = FALSE
  /\ signals = << >>
  /\ catchup = "none"
  /\ caught = {}

\* notify_domain_event_outbox_insert: delivered at the commit, if anyone listens.
CommitAndNotify(i) ==
  /\ Commit(i)
  /\ signals' = IF connected THEN Append(signals, [row |-> i]) ELSE signals
  /\ UNCHANGED <<connected, catchup, caught>>

\* The thread connects and loses its connection; it runs while there are streams.
Connect ==
  /\ ~connected
  /\ Subscribers # {}
  /\ Len(signals) < MaxSignals
  /\ connected' = TRUE
  /\ signals' = Append(signals, [up |-> TRUE])
  /\ UNCHANGED <<vars, catchup, caught>>

Disconnect ==
  /\ connected
  /\ Len(signals) < MaxSignals
  /\ connected' = FALSE
  /\ signals' = Append(signals, [up |-> FALSE])
  /\ UNCHANGED <<vars, catchup, caught>>

Due(field) == signals # << >> /\ field \in DOMAIN Head(signals)

\* publish_notification
PublishNotification ==
  /\ Due("row")
  /\ hub' = IF Subscribers = {} THEN hub ELSE Publish(hub, {Head(signals).row})
  /\ signals' = Tail(signals)
  /\ UNCHANGED <<tables, listening, polling, fetched, browsers, connected, catchup, caught>>

\* set_listener_available: nothing to do for a hub that knows already.
SetListenerAvailable ==
  LET up == Head(signals).up
      serving == Subscribers # {}
  IN
  /\ Due("up")
  /\ signals' = Tail(signals)
  /\ listening' = up
  /\ IF up = listening THEN UNCHANGED <<polling, fetched, catchup>>
     ELSE IF up THEN polling' = FALSE /\ fetched' = {} /\ catchup' = (IF serving THEN "due" ELSE "none")
     ELSE polling' = (polling \/ serving) /\ UNCHANGED <<fetched, catchup>>
  /\ UNCHANGED <<tables, hub, browsers, connected, caught>>

\* One batch; a failed read is only logged.
ReadCatchUp(answered) ==
  /\ catchup = "due"
  /\ catchup' = IF answered THEN "read" ELSE "none"
  /\ caught' = IF answered THEN Batch(hub.cursor) ELSE {}
  /\ UNCHANGED <<vars, connected, signals>>

PublishCatchUp ==
  /\ catchup = "read"
  /\ hub' = IF listening /\ Subscribers # {} THEN Publish(hub, caught) ELSE hub
  /\ catchup' = "none"
  /\ caught' = {}
  /\ UNCHANGED <<tables, listening, polling, fetched, browsers, connected, signals>>

\* The poll finds that it is not needed any more.
PollEnd ==
  /\ polling /\ listening
  /\ fetched = {}
  /\ polling' = FALSE
  /\ UNCHANGED <<tables, hub, listening, fetched, browsers, listener>>

\* The last one out stops the thread too.
LeaveListener(c) ==
  /\ Leave(c)
  /\ IF Subscribers = {c}
     THEN connected' = FALSE /\ signals' = << >> /\ catchup' = "none" /\ caught' = {}
     ELSE UNCHANGED listener

-----------------------------------------------------------------------------
Quiet ==
  \/ Insert
  \/ \E i \in open : RollBack(i)
  \/ Poll
  \/ \E c \in Clients : Recover(c) \/ Take(c)
  \/ \E c \in Clients, answered \in BOOLEAN : Open(c, connected, answered)

ListenerNext ==
  \/ Quiet /\ UNCHANGED listener
  \/ \E i \in open : CommitAndNotify(i)
  \/ \E c \in Clients : LeaveListener(c)
  \/ Connect \/ Disconnect \/ PublishNotification \/ SetListenerAvailable
  \/ \E answered \in BOOLEAN : ReadCatchUp(answered)
  \/ PublishCatchUp \/ PollEnd

ListenerSpec == ListenerInit /\ [][ListenerNext]_allVars
=============================================================================
