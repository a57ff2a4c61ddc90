-------------------------- MODULE FrontDeskProofs --------------------------
(* What FrontDesk keeps for any reservations, rooms, dates and parties: its  *)
(* types, the stays of arrived parties and the approved cancellations; where *)
(* the analytics no-show task is not run, the lifecycle of a stay and who    *)
(* shares a room; and in a calm hotel the board of its rooms.                *)
EXTENDS FrontDesk, TLAPS

-----------------------------------------------------------------------------
(* Type correctness.                                                         *)

\* The types hold at first.
LEMMA InitTypes == Init => TypeOK
  BY DatesAssumption, RoomsAssumption
     DEF Init, TypeOK, Statuses, Upcoming, RoomStatuses, Decisions

\* A step of a reservation before or after its stay changes its status, or its room.
LEMMA BookingTypes ==
  ASSUME TypeOK, NEW r \in Reservations,
         \/ PreCheckIn(r) \/ Cancel(r) \/ MarkNoShow(r) \/ WriteNoShow(r)
         \/ \E q \in Rooms : AssignRoom(r, q) \/ OtaModify(r, q)
  PROVE  TypeOK'
  <1>1. status' \in [Reservations -> Statuses]
    BY DEF TypeOK, SetStatus, Statuses, Upcoming, PreCheckIn, Cancel, MarkNoShow, WriteNoShow,
           AssignRoom, OtaModify
  <1>2. room' \in [Reservations -> Rooms \cup {NoRoom}]
    BY DEF TypeOK, PreCheckIn, Cancel, MarkNoShow, WriteNoShow, AssignRoom, OtaModify
  <1>3. UNCHANGED <<arrivals, roomStatus, housekeeping, checklist, today, review>>
    BY DEF roomVars, PreCheckIn, Cancel, MarkNoShow, WriteNoShow, AssignRoom, OtaModify
  <1>4. candidates' \subseteq Reservations /\ raced' \subseteq Reservations
    BY DEF TypeOK, PreCheckIn, Cancel, MarkNoShow, WriteNoShow, AssignRoom, OtaModify
  <1> QED
    BY <1>1, <1>2, <1>3, <1>4 DEF TypeOK

\* An arrival registers one guest of a party that was not complete.
LEMMA ArrivalTypes ==
  ASSUME TypeOK, NEW r \in Reservations, NEW p, FirstArrival(r, p) \/ LaterArrival(r, p)
  PROVE  TypeOK'
  <1>1. Party[r] \in Nat \ {0} /\ arrivals[r] \in Nat
    BY DatesAssumption DEF TypeOK
  <1>2. /\ arrivals' = [arrivals EXCEPT ![r] = arrivals[r] + 1]
        /\ arrivals[r] + 1 <= Party[r]
    BY <1>1 DEF FirstArrival, LaterArrival, Awaited
  <1>3. /\ arrivals' \in [Reservations -> Nat]
        /\ \A x \in Reservations : arrivals'[x] <= Party[x]
    BY <1>1, <1>2 DEF TypeOK
  <1>4. status' \in [Reservations -> Statuses]
    BY DEF TypeOK, SetStatus, Statuses, InHouse, FirstArrival, LaterArrival
  <1>5. roomStatus' \in [Rooms -> RoomStatuses]
    BY DEF TypeOK, RoomStatuses, roomVars, FirstArrival, LaterArrival
  <1>6. UNCHANGED <<room, housekeeping, checklist, today, candidates, raced, review>>
    BY DEF roomVars, FirstArrival, LaterArrival
  <1> QED
    BY <1>3, <1>4, <1>5, <1>6 DEF TypeOK

\* A review is opened or decided, with the status its decision gives the stay.
LEMMA ReviewTypes ==
  ASSUME TypeOK, NEW r \in Reservations,
         RequestReview(r) \/ \E d \in Decisions : DecideReview(r, d)
  PROVE  TypeOK'
  <1>1. review' \in [Reservations -> {"none", "pending"} \cup Decisions]
    BY DEF TypeOK, RequestReview, DecideReview
  <1>2. status' \in [Reservations -> Statuses]
    BY DEF TypeOK, SetStatus, Statuses, stayVars, RequestReview, DecideReview
  <1>3. UNCHANGED <<room, arrivals, roomStatus, housekeeping, checklist, today, candidates, raced>>
    BY DEF stayVars, roomVars, RequestReview, DecideReview
  <1> QED
    BY <1>1, <1>2, <1>3 DEF TypeOK

\* Every step keeps the types.
LEMMA TypeStep == TypeOK /\ [Next]_vars => TypeOK'
  <1> SUFFICES ASSUME TypeOK, [Next]_vars PROVE TypeOK'
    OBVIOUS
  <1>1. ASSUME NEW r \in Reservations, CheckOut(r) PROVE TypeOK'
    <2>1. UNCHANGED <<room, arrivals, today, candidates, raced, review>>
      BY <1>1 DEF CheckOut
    <2>2. status' \in [Reservations -> Statuses]
      BY <1>1 DEF TypeOK, CheckOut, SetStatus, Statuses
    <2>3. /\ roomStatus' \in [Rooms -> RoomStatuses]
          /\ housekeeping' \in [Rooms -> {"CLEAN", "DIRTY"}]
          /\ checklist' \in [Rooms -> Reservations \cup {NoChecklist}]
      BY <1>1 DEF TypeOK, CheckOut, RoomStatuses
    <2> QED
      BY <2>1, <2>2, <2>3 DEF TypeOK
  <1>2. ASSUME NEW r \in Reservations, NEW q \in Rooms,
               NEW d \in {"cleaning", "available", "maintenance"}, MoveInHouse(r, q, d)
        PROVE  TypeOK'
    <2>1. UNCHANGED <<status, arrivals, checklist, today, candidates, raced, review>>
      BY <1>2 DEF MoveInHouse
    <2>2. room' \in [Reservations -> Rooms \cup {NoRoom}]
      BY <1>2 DEF TypeOK, MoveInHouse
    <2>3. SyncRoomsAfterMove(r, room[r], q, d)
      BY <1>2 DEF MoveInHouse
    <2>4. OriginAfter(d) \in RoomStatuses
      BY <1>2 DEF OriginAfter, RoomStatuses
    <2>5. roomStatus' \in [Rooms -> RoomStatuses]
      BY <2>3, <2>4 DEF TypeOK, SyncRoomsAfterMove, RoomStatuses
    <2>6. housekeeping' \in [Rooms -> {"CLEAN", "DIRTY"}]
      BY <2>3 DEF TypeOK, SyncRoomsAfterMove
    <2> QED
      BY <2>1, <2>2, <2>5, <2>6 DEF TypeOK
  <1>3. ASSUME NEW q \in Rooms,
               \/ CompleteItem(q) \/ CompleteChecklist(q)
               \/ \E s \in RoomStatuses : SetRoomStatus(q, s)
               \/ \E h \in {"CLEAN", "DIRTY"} : SetHousekeeping(q, h)
        PROVE  TypeOK'
    <2>1. UNCHANGED <<status, room, arrivals, today, candidates, raced, review>>
      BY <1>3 DEF stayVars, CompleteItem, CompleteChecklist, SetRoomStatus, SetHousekeeping
    <2>2. roomStatus' \in [Rooms -> RoomStatuses]
      BY <1>3 DEF TypeOK, RoomStatuses, CompleteItem, CompleteChecklist, SetRoomStatus,
                  SetHousekeeping
    <2>3. housekeeping' \in [Rooms -> {"CLEAN", "DIRTY"}]
      BY <1>3 DEF TypeOK, CompleteItem, CompleteChecklist, SetRoomStatus, SetHousekeeping
    <2>4. checklist' \in [Rooms -> Reservations \cup {NoChecklist}]
      BY <1>3 DEF TypeOK, CompleteItem, CompleteChecklist, SetRoomStatus, SetHousekeeping
    <2> QED
      BY <2>1, <2>2, <2>3, <2>4 DEF TypeOK
  <1>4. CASE ReadNoShows \/ NextDay \/ UNCHANGED vars
    <2>1. UNCHANGED <<status, room, arrivals, roomStatus, housekeeping, checklist, raced, review>>
      BY <1>4 DEF ReadNoShows, NextDay, vars, stayVars, roomVars
    <2>2. today' \in 1 .. LastDay
      BY <1>4, DatesAssumption DEF TypeOK, ReadNoShows, NextDay, vars
    <2>3. candidates' \subseteq Reservations
      BY <1>4 DEF TypeOK, ReadNoShows, NextDay, vars
    <2> QED
      BY <2>1, <2>2, <2>3 DEF TypeOK
  <1> QED
    BY <1>1, <1>2, <1>3, <1>4, BookingTypes, ArrivalTypes, ReviewTypes DEF Next

\* Statuses, rooms, guests and checklists keep their types, and no party ever
\* registers more guests than it has, along every behaviour.
THEOREM TypeCorrectness == Spec => []TypeOK
  BY InitTypes, TypeStep, PTL DEF Spec

-----------------------------------------------------------------------------
(* The status of a stay.                                                     *)

\* The no-show task has candidates and has written stays only if it is run.
SweepsLeaveTraces == Sweeps \/ (candidates = {} /\ raced = {})

\* It does not begin to run.
LEMMA TracesStep == SweepsLeaveTraces /\ [Next]_vars => SweepsLeaveTraces'
  BY DEF SweepsLeaveTraces, Next, vars, PreCheckIn, CheckOut, Cancel, MarkNoShow, WriteNoShow,
         FirstArrival, LaterArrival, AssignRoom, OtaModify, MoveInHouse, CompleteItem,
         CompleteChecklist, SetRoomStatus, SetHousekeeping, ReadNoShows, NextDay,
         RequestReview, DecideReview

\* What a step may do to the status of r.
StatusMoves(r) ==
  \/ status'[r] = status[r]
  \/ status[r] \in Upcoming /\ status'[r] \in Statuses \ {"CHECKED_OUT"}
  \/ status[r] \in InHouse /\ status'[r] \in InHouse \cup {"CHECKED_OUT"}
  \/ r \in OtaReservations /\ status[r] = "NO_SHOW" /\ status'[r] = "BOOKED"
  \/ Sweeps /\ r \in raced' /\ status'[r] = "NO_SHOW"

\* No step does anything else.
LEMMA StatusStep ==
  ASSUME TypeOK, SweepsLeaveTraces, [Next]_vars, NEW x \in Reservations
  PROVE  StatusMoves(x)
  <1>1. ASSUME NEW r \in Reservations,
               \/ PreCheckIn(r) \/ CheckOut(r) \/ Cancel(r) \/ MarkNoShow(r) \/ WriteNoShow(r)
               \/ \E q \in Rooms : OtaModify(r, q)
               \/ \E d \in Decisions : DecideReview(r, d)
        PROVE  StatusMoves(x)
    BY <1>1 DEF TypeOK, SweepsLeaveTraces, StatusMoves, SetStatus, Upcoming, InHouse, Statuses,
                PreCheckIn, CheckOut, Cancel, MarkNoShow, WriteNoShow, OtaModify, DecideReview
  <1>2. ASSUME NEW r \in Reservations, NEW p, FirstArrival(r, p) PROVE StatusMoves(x)
    BY <1>2 DEF TypeOK, StatusMoves, SetStatus, Upcoming, InHouse, Statuses, FirstArrival
  <1>3. ASSUME NEW r \in Reservations, NEW p, LaterArrival(r, p) PROVE StatusMoves(x)
    BY <1>3 DEF TypeOK, StatusMoves, SetStatus, Upcoming, InHouse, Statuses, LaterArrival
  <1>4. ASSUME UNCHANGED status PROVE StatusMoves(x)
    BY <1>4 DEF StatusMoves
  <1> QED
    BY <1>1, <1>2, <1>3, <1>4
       DEF Next, vars, stayVars, AssignRoom, MoveInHouse, CompleteItem, CompleteChecklist,
           SetRoomStatus, SetHousekeeping, ReadNoShows, NextDay,
           RequestReview, DecideReview

\* No guest arrives but for a party that is in the house after the step.
LEMMA ArrivalStep ==
  ASSUME TypeOK, [Next]_vars, NEW x \in Reservations, arrivals'[x] # arrivals[x]
  PROVE  status'[x] \in InHouse
  <1>1. ASSUME NEW r \in Reservations, NEW p, FirstArrival(r, p) PROVE status'[x] \in InHouse
    BY <1>1 DEF TypeOK, SetStatus, InHouse, FirstArrival
  <1>2. ASSUME NEW r \in Reservations, NEW p, LaterArrival(r, p) PROVE status'[x] \in InHouse
    BY <1>2 DEF TypeOK, SetStatus, InHouse, LaterArrival
  <1> QED
    BY <1>1, <1>2
       DEF Next, vars, stayVars, PreCheckIn, CheckOut, Cancel, MarkNoShow, WriteNoShow,
           AssignRoom, OtaModify, MoveInHouse, CompleteItem, CompleteChecklist, SetRoomStatus,
           SetHousekeeping, ReadNoShows, NextDay,
           RequestReview, DecideReview

\* What the no-show task wrote stays marked.
LEMMA RacedStep == [Next]_vars => raced \subseteq raced'
  BY DEF Next, vars, PreCheckIn, CheckOut, Cancel, MarkNoShow, WriteNoShow, FirstArrival,
         LaterArrival, AssignRoom, OtaModify, MoveInHouse, CompleteItem, CompleteChecklist,
         SetRoomStatus, SetHousekeeping, ReadNoShows, NextDay,
         RequestReview, DecideReview

\* The state of stays and of the no-show task, as far as arrivals go.
ArrivalsInv == TypeOK /\ SweepsLeaveTraces /\ ArrivalsAreKept

\* A stay somebody has arrived for is not dropped by a step.
LEMMA ArrivalsStep == ArrivalsInv /\ [Next]_vars => ArrivalsInv'
  <1> SUFFICES ASSUME ArrivalsInv, [Next]_vars PROVE ArrivalsAreKept'
    BY TypeStep, TracesStep DEF ArrivalsInv
  <1> SUFFICES ASSUME NEW x \in Reservations, x \notin raced', arrivals'[x] > 0
               PROVE  status'[x] \in InHouse \cup {"CHECKED_OUT"}
    BY DEF ArrivalsAreKept
  <1>1. TypeOK /\ SweepsLeaveTraces /\ x \notin raced
    BY RacedStep DEF ArrivalsInv
  <1>2. CASE arrivals'[x] # arrivals[x]
    BY <1>1, <1>2, ArrivalStep
  <1>3. CASE arrivals'[x] = arrivals[x]
    <2>1. status[x] \in InHouse \cup {"CHECKED_OUT"}
      BY <1>1, <1>3 DEF ArrivalsInv, ArrivalsAreKept
    <2>2. StatusMoves(x)
      BY <1>1, StatusStep
    <2> QED
      BY <2>1, <2>2 DEF StatusMoves, InHouse, Upcoming
  <1> QED
    BY <1>2, <1>3

\* It holds at first.
LEMMA InitArrivals == Init => ArrivalsInv
  BY InitTypes DEF Init, ArrivalsInv, SweepsLeaveTraces, ArrivalsAreKept

\* Cancellations, releases, channels and the locked no-show paths never drop a
\* stay one of whose guests was registered; only the unlocked task can.
THEOREM ArrivedPartiesAreKept == Spec => []ArrivalsAreKept
  BY InitArrivals, ArrivalsStep, PTL DEF Spec, ArrivalsInv

\* A review is approved in the step that cancels its stay.
LEMMA ApprovalStep ==
  ASSUME TypeOK, [Next]_vars, NEW x \in Reservations,
         review'[x] = "approved", review[x] # "approved"
  PROVE  status'[x] = "CANCELLED"
  <1>1. ASSUME NEW r \in Reservations, NEW d \in Decisions, DecideReview(r, d)
        PROVE  status'[x] = "CANCELLED"
    BY <1>1 DEF TypeOK, DecideReview, SetStatus
  <1>2. ASSUME NEW r \in Reservations, RequestReview(r) PROVE FALSE
    BY <1>2 DEF TypeOK, RequestReview
  <1> QED
    BY <1>1, <1>2
       DEF Next, vars, PreCheckIn, CheckOut, Cancel, MarkNoShow, WriteNoShow, FirstArrival,
           LaterArrival, AssignRoom, OtaModify, MoveInHouse, CompleteItem, CompleteChecklist,
           SetRoomStatus, SetHousekeeping, ReadNoShows, NextDay

\* What a manager approved is cancelled for good, whoever else decides and whatever
\* channels send; only the unlocked task can write another status.
THEOREM ApprovalsStand == Spec => []ApprovedStaysCancelled
  <1> DEFINE Inv == TypeOK /\ SweepsLeaveTraces /\ ApprovedStaysCancelled
  <1>1. Init => Inv
    BY InitTypes DEF Init, SweepsLeaveTraces, ApprovedStaysCancelled
  <1>2. Inv /\ [Next]_vars => Inv'
    <2> SUFFICES ASSUME Inv, [Next]_vars, NEW x \in Reservations, x \notin raced',
                        review'[x] = "approved"
                 PROVE  status'[x] = "CANCELLED"
      BY TypeStep, TracesStep DEF ApprovedStaysCancelled
    <2>1. CASE review[x] # "approved"
      BY <2>1, ApprovalStep
    <2>2. CASE review[x] = "approved"
      <3>1. status[x] = "CANCELLED"
        BY <2>2, RacedStep DEF ApprovedStaysCancelled
      <3>2. StatusMoves(x)
        BY StatusStep
      <3> QED
        BY <3>1, <3>2 DEF StatusMoves, Upcoming, InHouse
    <2> QED
      BY <2>1, <2>2
  <1> QED
    BY <1>1, <1>2, PTL DEF Spec

-----------------------------------------------------------------------------
(* Implementation of StayLifecycle.                                          *)

\* A status maps to a phase of the lifecycle, and apart from another's.
LEMMA PhaseOfStatus ==
  /\ \A s \in Upcoming : PhaseOf(s) = "upcoming"
  /\ \A s \in InHouse : PhaseOf(s) = "in_house"
  /\ PhaseOf("CHECKED_OUT") = "departed"
  /\ PhaseOf("CANCELLED") = "dropped" /\ PhaseOf("NO_SHOW") = "dropped"
  BY DEF PhaseOf, Upcoming, InHouse

\* The status of one reservation, at most, changes in a step.
LEMMA OneStatusChanges ==
  ASSUME TypeOK, [Next]_vars
  PROVE  status' = status \/ \E r \in Reservations :
           status' = [x \in Reservations |-> IF x = r THEN status'[r] ELSE status[x]]
  <1>1. ASSUME NEW r \in Reservations, NEW s, SetStatus(r, s)
        PROVE  status' = [x \in Reservations |-> IF x = r THEN status'[r] ELSE status[x]]
    BY <1>1 DEF TypeOK, SetStatus
  <1>2. status' = status \/ \E r \in Reservations : \E s : SetStatus(r, s)
    BY DEF Next, vars, stayVars, PreCheckIn, CheckOut, Cancel, MarkNoShow, WriteNoShow,
           FirstArrival, LaterArrival, AssignRoom, OtaModify, MoveInHouse, CompleteItem,
           CompleteChecklist, SetRoomStatus, SetHousekeeping, ReadNoShows, NextDay,
           RequestReview, DecideReview
  <1> QED
    BY <1>1, <1>2

\* Without channel modifications and the no-show task, a step of the front desk
\* is a step of the lifecycle or none.
LEMMA LifecycleStep ==
  ASSUME ~Sweeps, OtaReservations = {}, TypeOK, SweepsLeaveTraces, [Next]_vars
  PROVE  [Lifecycle!Next]_PhaseMap
  <1>1. CASE status' = status
    BY <1>1 DEF PhaseMap
  <1>2. ASSUME NEW r \in Reservations,
               status' = [x \in Reservations |-> IF x = r THEN status'[r] ELSE status[x]]
        PROVE  [Lifecycle!Next]_PhaseMap
    <2>1. PhaseMap' = [PhaseMap EXCEPT ![r] = PhaseOf(status'[r])]
      BY <1>2 DEF PhaseMap
    <2>2. PhaseMap[r] = PhaseOf(status[r])
      BY DEF PhaseMap
    <2>3. StatusMoves(r)
      BY StatusStep
    <2>4. CASE status'[r] = status[r]
      <3>1. PhaseMap' = PhaseMap
        BY <2>4, <1>2 DEF PhaseMap, TypeOK
      <3> QED
        BY <3>1
    <2>5. CASE status[r] \in Upcoming /\ status'[r] \in Upcoming
      <3>1. PhaseMap' = PhaseMap
        BY <2>5, <2>1, <2>2, PhaseOfStatus DEF PhaseMap
      <3> QED
        BY <3>1
    <2>6. CASE status[r] \in Upcoming /\ status'[r] \in InHouse
      <3>1. Lifecycle!Arrive(r)
        BY <2>6, <2>1, <2>2, PhaseOfStatus DEF Lifecycle!Arrive
      <3> QED
        BY <3>1 DEF Lifecycle!Next
    <2>7. CASE status[r] \in Upcoming /\ status'[r] \in {"CANCELLED", "NO_SHOW"}
      <3>1. Lifecycle!Drop(r)
        BY <2>7, <2>1, <2>2, PhaseOfStatus DEF Lifecycle!Drop
      <3> QED
        BY <3>1 DEF Lifecycle!Next
    <2>8. CASE status[r] \in InHouse /\ status'[r] \in InHouse
      <3>1. PhaseMap' = PhaseMap
        BY <2>8, <2>1, <2>2, PhaseOfStatus DEF PhaseMap
      <3> QED
        BY <3>1
    <2>9. CASE status[r] \in InHouse /\ status'[r] = "CHECKED_OUT"
      <3>1. Lifecycle!Depart(r)
        BY <2>9, <2>1, <2>2, PhaseOfStatus DEF Lifecycle!Depart
      <3> QED
        BY <3>1 DEF Lifecycle!Next
    <2> QED
      BY <2>3, <2>4, <2>5, <2>6, <2>7, <2>8, <2>9 DEF StatusMoves, Statuses
  <1> QED
    BY <1>1, <1>2, OneStatusChanges

\* The reservations of a front desk without channels and without the unlocked
\* task follow StayLifecycle: arrival once, then departure, or dropped before
\* arrival, both for good.
THEOREM FrontDeskFollowsLifecycle ==
  ASSUME ~Sweeps, OtaReservations = {}
  PROVE  Spec => FollowsLifecycle
  <1>1. Init => Lifecycle!Init
    BY PhaseOfStatus DEF Init, Lifecycle!Init, PhaseMap, Upcoming
  <1>2. Init => TypeOK /\ SweepsLeaveTraces
    BY InitTypes DEF Init, SweepsLeaveTraces
  <1>3. TypeOK /\ SweepsLeaveTraces /\ [Next]_vars => (TypeOK /\ SweepsLeaveTraces)'
    BY TypeStep, TracesStep
  <1>4. TypeOK /\ SweepsLeaveTraces /\ [Next]_vars => [Lifecycle!Next]_PhaseMap
    BY LifecycleStep
  <1> QED
    BY <1>1, <1>2, <1>3, <1>4, PTL DEF Spec, FollowsLifecycle, Lifecycle!Spec

\* A no-show is final in a hotel without channel reservations, even with the
\* unlocked task: of all handlers only a channel's modification reopens one.
THEOREM OnlyChannelsReopenNoShows ==
  ASSUME OtaReservations = {}
  PROVE  Spec => NoShowIsFinal
  <1>1. Init => TypeOK /\ SweepsLeaveTraces
    BY InitTypes DEF Init, SweepsLeaveTraces
  <1>2. TypeOK /\ SweepsLeaveTraces /\ [Next]_vars => (TypeOK /\ SweepsLeaveTraces)'
    BY TypeStep, TracesStep
  <1>3. TypeOK /\ SweepsLeaveTraces /\ [Next]_vars =>
          [\A r \in Reservations : status[r] = "NO_SHOW" => status'[r] = "NO_SHOW"]_vars
    BY StatusStep DEF StatusMoves, Upcoming, InHouse
  <1> QED
    BY <1>1, <1>2, <1>3, PTL DEF Spec, NoShowIsFinal

-----------------------------------------------------------------------------
(* Parties that share a room.                                                *)

\* Stays that hold one room share no night.
RoomsApart ==
  \A a, b \in Reservations :
    a # b /\ status[a] \in Holding /\ status[b] \in Holding
          /\ room[a] = room[b] /\ room[a] # NoRoom
      => ~SameNights(a, b)

\* A lodged party has reached its arrival day.
Begun == \A r \in Reservations : status[r] \in InHouse => Arrival[r] <= today

\* What the argument keeps: a party that arrives is one of which nobody had
\* arrived (so it is shown its window), and rooms are given where no night is held.
SharingInv == ArrivalsInv /\ RoomsApart /\ Begun

\* Unless the no-show task has written, a step gives one stay a room that is free
\* for its nights, or gives no room and takes up no claim that did not count.
LEMMA ApartStep ==
  ASSUME ArrivalsInv, RoomsApart, raced' = {}, [Next]_vars
  PROVE  RoomsApart'
  <1>1. TypeOK /\ SweepsLeaveTraces
    BY DEF ArrivalsInv
  <1>2. ASSUME UNCHANGED room,
               \A x \in Reservations : status'[x] \in Holding => status[x] \in Holding
        PROVE  RoomsApart'
    BY <1>2 DEF RoomsApart, SameNights
  <1>3. ASSUME NEW r \in Reservations, NEW q \in Rooms, Available(q, r),
               room' = [room EXCEPT ![r] = q],
               \A x \in Reservations \ {r} : status'[x] = status[x]
        PROVE  RoomsApart'
    <2>1. /\ room'[r] = q
          /\ \A x \in Reservations \ {r} : room'[x] = room[x]
      BY <1>1, <1>3 DEF TypeOK
    <2>2. \A x \in Reservations \ {r} :
            status'[x] \in Holding /\ room'[x] = q => ~SameNights(x, r) /\ ~SameNights(r, x)
      BY <2>1, <1>3 DEF Available, SameNights
    <2> QED
      BY <2>1, <2>2, <1>3 DEF RoomsApart, SameNights
  <1>4. ASSUME NEW r \in Reservations, NEW q \in Rooms,
               \/ AssignRoom(r, q) \/ OtaModify(r, q)
               \/ \E d \in {"cleaning", "available", "maintenance"} : MoveInHouse(r, q, d)
        PROVE  RoomsApart'
    <2>1. Available(q, r) /\ room' = [room EXCEPT ![r] = q]
      BY <1>4 DEF AssignRoom, OtaModify, MoveInHouse
    <2>2. \A x \in Reservations \ {r} : status'[x] = status[x]
      BY <1>1, <1>4 DEF AssignRoom, OtaModify, MoveInHouse, SetStatus, TypeOK
    <2> QED
      BY <2>1, <2>2, <1>3
  <1>5. \A x \in Reservations : StatusMoves(x) /\ x \notin raced'
    BY <1>1, StatusStep
  <1>6. ASSUME UNCHANGED room PROVE RoomsApart'
    <2>1. \A x \in Reservations : status'[x] \in Holding => status[x] \in Holding
      BY <1>1, <1>5 DEF StatusMoves, Holding, Statuses, Upcoming, InHouse, TypeOK
    <2> QED
      BY <2>1, <1>2, <1>6
  <1>7. UNCHANGED room \/ \E r \in Reservations, q \in Rooms :
          \/ AssignRoom(r, q) \/ OtaModify(r, q)
          \/ \E d \in {"cleaning", "available", "maintenance"} : MoveInHouse(r, q, d)
    BY DEF Next, vars, stayVars, PreCheckIn, CheckOut, Cancel, MarkNoShow, WriteNoShow,
           FirstArrival, LaterArrival, CompleteItem, CompleteChecklist, SetRoomStatus,
           SetHousekeeping, ReadNoShows, NextDay,
           RequestReview, DecideReview
  <1> QED
    BY <1>4, <1>6, <1>7

\* Who is lodged after a step was lodged before it, or arrives in its window.
LEMMA BegunStep == ~Sweeps /\ SharingInv /\ [Next]_vars => Begun'
  <1> SUFFICES ASSUME ~Sweeps, SharingInv, [Next]_vars,
                      NEW x \in Reservations, status'[x] \in InHouse
               PROVE  Arrival[x] <= today'
    BY DEF Begun
  <1>1. TypeOK /\ SweepsLeaveTraces /\ ArrivalsAreKept
    BY DEF SharingInv, ArrivalsInv
  <1>2. today \in Int /\ today' \in Int /\ today <= today' /\ Arrival[x] \in Int
    BY <1>1, DatesAssumption
       DEF TypeOK, Next, vars, PreCheckIn, CheckOut, Cancel, MarkNoShow, WriteNoShow,
           FirstArrival, LaterArrival, AssignRoom, OtaModify, MoveInHouse, CompleteItem,
           CompleteChecklist, SetRoomStatus, SetHousekeeping, ReadNoShows, NextDay,
           RequestReview, DecideReview
  <1>3. CASE status[x] \in InHouse
    BY <1>2, <1>3 DEF SharingInv, Begun
  <1>4. CASE status[x] \notin InHouse
    <2>1. ASSUME NEW r \in Reservations, NEW p, LaterArrival(r, p) PROVE FALSE
      <3>1. status[r] \in InHouse
        BY <1>1, <2>1, DatesAssumption
           DEF LaterArrival, Awaited, ArrivalsAreKept, SweepsLeaveTraces, Upcoming, InHouse, TypeOK
      <3>2. x = r
        BY <1>1, <1>4, <2>1 DEF LaterArrival, SetStatus, TypeOK
      <3> QED
        BY <3>1, <3>2, <1>4
    <2>2. ASSUME NEW r \in Reservations, NEW p, FirstArrival(r, p) PROVE Arrival[x] <= today'
      <3>1. x = r
        BY <1>1, <1>4, <2>2 DEF FirstArrival, SetStatus, TypeOK
      <3> QED
        BY <3>1, <2>2, <1>2 DEF FirstArrival, InWindow
    <2>3. \E r \in Reservations : \E p : FirstArrival(r, p) \/ LaterArrival(r, p)
      BY <1>1, <1>4
         DEF TypeOK, InHouse, SetStatus, Next, vars, stayVars, PreCheckIn, CheckOut, Cancel,
             MarkNoShow, WriteNoShow, AssignRoom, OtaModify, MoveInHouse, CompleteItem,
             CompleteChecklist, SetRoomStatus, SetHousekeeping, ReadNoShows, NextDay,
             RequestReview, DecideReview
    <2> QED
      BY <2>1, <2>2, <2>3
  <1> QED
    BY <1>3, <1>4

\* Where the no-show task is not run, whatever the hotel's policies, managers and
\* channels do, two parties share a room only after one has outstayed its departure.
THEOREM SharedRoomsAreOverstays ==
  ASSUME ~Sweeps
  PROVE  Spec => []SharedRoomMeansOverstay
  <1>1. Init => SharingInv
    BY InitArrivals DEF Init, SharingInv, RoomsApart, Begun, InHouse
  <1>2. SharingInv /\ [Next]_vars => SharingInv'
    <2> SUFFICES ASSUME SharingInv, [Next]_vars PROVE SharingInv'
      OBVIOUS
    <2>1. ArrivalsInv'
      BY ArrivalsStep DEF SharingInv
    <2>2. raced' = {}
      BY <2>1 DEF ArrivalsInv, SweepsLeaveTraces
    <2> QED
      BY <2>1, <2>2, ApartStep, BegunStep DEF SharingInv
  <1>3. SharingInv => SharedRoomMeansOverstay
    <2> SUFFICES ASSUME SharingInv, NEW q \in Rooms, NEW a \in HousedIn(q), NEW b \in HousedIn(q),
                        a # b
                 PROVE  ~SameNights(a, b) /\ (Departure[a] <= today \/ Departure[b] <= today)
      BY DEF SharedRoomMeansOverstay
    <2>1. /\ a \in Reservations /\ status[a] \in InHouse /\ room[a] = q
          /\ b \in Reservations /\ status[b] \in InHouse /\ room[b] = q /\ q # NoRoom
      BY RoomsAssumption DEF HousedIn
    <2>2. ~SameNights(a, b)
      BY <2>1 DEF SharingInv, RoomsApart, Holding, Statuses, InHouse
    <2>3. /\ Arrival[a] \in Int /\ Arrival[b] \in Int /\ Departure[a] \in Int
          /\ Departure[b] \in Int /\ today \in Int
      BY <2>1, DatesAssumption DEF SharingInv, ArrivalsInv, TypeOK
    <2>4. Arrival[a] <= today /\ Arrival[b] <= today
      BY <2>1 DEF SharingInv, Begun
    <2> QED
      BY <2>2, <2>3, <2>4 DEF SameNights
  <1> QED
    BY <1>1, <1>2, <1>3, PTL DEF Spec

-----------------------------------------------------------------------------
(* The board of a calm hotel.                                                *)

\* Every party is CHECKED_IN from its first guest, leaves on its day, and has its
\* room left alone by managers.
CalmHotel ==
  Policies \subseteq {"checked_in_on_first_guest"} /\ ~Overstays /\ ~HandSetOccupied

\* A lodged party has a room and is within its nights, none is lodged in part.
Settled ==
  \A r \in Reservations : status[r] \in InHouse =>
    status[r] = "CHECKED_IN" /\ room[r] \in Rooms /\ InWindow(r)

\* The three properties of rooms, without regard to the no-show task.
Board == \A q \in Rooms : roomStatus[q] = "OCCUPIED" <=> HousedIn(q) # {}
OneParty == \A q \in Rooms : \A a, b \in HousedIn(q) : a = b
Unoffered == \A q \in Rooms : ~Clear(q) => roomStatus[q] # "AVAILABLE"

\* A move lets go of its origin only if nobody has a claim on it, and is let into
\* its destination only if nobody is lodged there: RoomsApart and Settled.
Calm == RoomsApart /\ Settled /\ Board /\ OneParty /\ Unoffered
CalmInv == ArrivalsInv /\ (raced = {} => Calm)

\* A step that neither lodges nor moves anybody leaves each room its guests.
LEMMA SameGuests ==
  ASSUME TypeOK,
         \A x \in Reservations : status'[x] \in InHouse <=> status[x] \in InHouse,
         \A x \in Reservations : status[x] \in InHouse => room'[x] = room[x]
  PROVE  \A q : HousedIn(q)' = HousedIn(q)
  BY DEF HousedIn

\* A step that concerns one room has only that room to get right.
LEMMA BoardButOne ==
  ASSUME Board, OneParty, NEW q \in Rooms,
         roomStatus'[q] = "OCCUPIED" <=> HousedIn(q)' # {},
         \A a, b \in HousedIn(q)' : a = b,
         \A p \in Rooms \ {q} : HousedIn(p)' = HousedIn(p),
         \A p \in Rooms \ {q} : roomStatus'[p] = roomStatus[p]
  PROVE  Board' /\ OneParty'
  <1>1. Board'
    <2> SUFFICES ASSUME NEW p \in Rooms PROVE roomStatus'[p] = "OCCUPIED" <=> HousedIn(p)' # {}
      BY DEF Board
    <2> QED
      BY DEF Board
  <1>2. OneParty'
    <2> SUFFICES ASSUME NEW p \in Rooms, NEW a \in HousedIn(p)', NEW b \in HousedIn(p)'
                 PROVE  a = b
      BY DEF OneParty
    <2> QED
      BY DEF OneParty
  <1> QED
    BY <1>1, <1>2

\* Reservations that nobody has arrived for change without touching the board.
LEMMA BookingKeepsBoard ==
  ASSUME TypeOK, Calm, NEW r \in Reservations,
         \/ PreCheckIn(r) \/ Cancel(r) \/ MarkNoShow(r)
         \/ RequestReview(r) \/ \E d \in Decisions : DecideReview(r, d)
         \/ \E q \in Rooms : AssignRoom(r, q) \/ OtaModify(r, q)
  PROVE  Settled' /\ Board' /\ OneParty' /\ Unoffered'
  <1>1. UNCHANGED <<roomStatus, checklist, today>>
    BY DEF roomVars, PreCheckIn, Cancel, MarkNoShow, AssignRoom, OtaModify, RequestReview,
           DecideReview
  <1>2. status[r] \notin InHouse /\ status'[r] \notin InHouse
    BY DEF PreCheckIn, Cancel, MarkNoShow, AssignRoom, OtaModify, SetStatus, Upcoming, InHouse,
           TypeOK, RequestReview, DecideReview, stayVars
  <1>3. \A x \in Reservations \ {r} : status'[x] = status[x] /\ room'[x] = room[x]
    BY DEF PreCheckIn, Cancel, MarkNoShow, AssignRoom, OtaModify, SetStatus, TypeOK,
           RequestReview, DecideReview, stayVars
  <1>4. \A q : HousedIn(q)' = HousedIn(q)
    BY <1>2, <1>3, SameGuests
  <1>5. Settled'
    BY <1>1, <1>2, <1>3 DEF Calm, Settled, InWindow
  <1>6. Board' /\ OneParty' /\ Unoffered'
    BY <1>1, <1>4 DEF Calm, Board, OneParty, Unoffered, Clear
  <1> QED
    BY <1>5, <1>6

\* The first guest takes a room that shows as available, where nobody is.
LEMMA FirstArrivalKeepsBoard ==
  ASSUME TypeOK, Calm, NEW r \in Reservations,
         FirstArrival(r, "checked_in_on_first_guest")
  PROVE  Settled' /\ Board' /\ OneParty' /\ Unoffered'
  <1> PICK q \in Rooms : q = room[r]
    BY DEF FirstArrival, TypeOK
  <1>1. /\ q \in Rooms /\ InWindow(r) /\ status[r] \notin InHouse
        /\ Clear(q) /\ roomStatus[q] = "AVAILABLE"
    BY DEF FirstArrival, TypeOK, Upcoming, InHouse
  <1>2. UNCHANGED <<room, checklist, today>>
    BY DEF FirstArrival
  <1>3. status' = [status EXCEPT ![r] = "CHECKED_IN"]
    BY DEF FirstArrival, SetStatus
  <1>4. roomStatus' = [roomStatus EXCEPT ![q] = "OCCUPIED"]
    BY DEF FirstArrival
  <1>5. HousedIn(q) = {}
    BY <1>1 DEF Calm, Board
  <1>6. HousedIn(q)' = {r}
    BY <1>1, <1>2, <1>3, <1>5 DEF HousedIn, TypeOK, InHouse
  <1>7. \A p \in Rooms \ {q} : HousedIn(p)' = HousedIn(p)
    BY <1>1, <1>2, <1>3 DEF HousedIn, TypeOK, InHouse
  <1>8. Settled'
    BY <1>1, <1>2, <1>3 DEF Calm, Settled, InWindow, TypeOK
  <1>9. roomStatus'[q] = "OCCUPIED" /\ \A p \in Rooms \ {q} : roomStatus'[p] = roomStatus[p]
    BY <1>1, <1>4 DEF TypeOK
  <1>10. Board' /\ OneParty'
    BY <1>1, <1>6, <1>7, <1>9, BoardButOne DEF Calm
  <1>11. Unoffered'
    BY <1>1, <1>2, <1>4 DEF Calm, Unoffered, Clear, TypeOK
  <1> QED
    BY <1>8, <1>10, <1>11

\* A companion finds the party CHECKED_IN and leaves it so.
LEMMA LaterArrivalKeepsBoard ==
  ASSUME ArrivalsInv, raced = {}, Calm, NEW r \in Reservations,
         LaterArrival(r, "checked_in_on_first_guest")
  PROVE  Settled' /\ Board' /\ OneParty' /\ Unoffered'
  <1>1. UNCHANGED <<room, roomStatus, checklist, today>>
    BY DEF LaterArrival, roomVars
  <1>2. arrivals[r] \in Nat /\ arrivals[r] > 0 /\ status[r] \notin {"CHECKED_OUT"}
    BY DatesAssumption DEF LaterArrival, Awaited, ArrivalsInv, TypeOK, Upcoming, InHouse
  <1>3. status[r] \in InHouse
    BY <1>2 DEF ArrivalsInv, ArrivalsAreKept
  <1>4. status' = status
    BY <1>3 DEF LaterArrival, SetStatus, Upcoming, InHouse, ArrivalsInv, TypeOK
  <1>5. \A q : HousedIn(q)' = HousedIn(q)
    BY <1>1, <1>4 DEF HousedIn
  <1> QED
    BY <1>1, <1>4, <1>5 DEF Calm, Settled, InWindow, Board, OneParty, Unoffered, Clear

\* Whoever leaves was alone in the room, which goes to cleaning with a checklist.
LEMMA CheckOutKeepsBoard ==
  ASSUME TypeOK, Calm, NEW r \in Reservations, CheckOut(r)
  PROVE  Settled' /\ Board' /\ OneParty' /\ Unoffered'
  <1> PICK q \in Rooms : q = room[r]
    BY DEF CheckOut, TypeOK
  <1>1. q \in Rooms /\ status[r] \in InHouse /\ r \in HousedIn(q)
    BY DEF CheckOut, HousedIn, TypeOK
  <1>2. HousedIn(q) = {r} /\ roomStatus[q] = "OCCUPIED"
    BY <1>1 DEF Calm, OneParty, Board
  <1>3. UNCHANGED <<room, today>>
    BY DEF CheckOut
  <1>4. status' = [status EXCEPT ![r] = "CHECKED_OUT"]
    BY DEF CheckOut, SetStatus
  <1>5. /\ roomStatus' = [roomStatus EXCEPT ![q] = "CLEANING"]
        /\ checklist' = [checklist EXCEPT ![q] = r]
    BY <1>2 DEF CheckOut
  <1>6. HousedIn(q)' = {}
    BY <1>2, <1>3, <1>4 DEF HousedIn, TypeOK, InHouse
  <1>7. \A p \in Rooms \ {q} : HousedIn(p)' = HousedIn(p)
    BY <1>3, <1>4 DEF HousedIn, TypeOK, InHouse
  <1>8. Settled'
    BY <1>3, <1>4 DEF Calm, Settled, InWindow, TypeOK, InHouse
  <1>9. roomStatus'[q] = "CLEANING" /\ \A p \in Rooms \ {q} : roomStatus'[p] = roomStatus[p]
    BY <1>1, <1>5 DEF TypeOK
  <1>10. Board' /\ OneParty'
    BY <1>1, <1>6, <1>7, <1>9, BoardButOne DEF Calm
  <1>11. Unoffered'
    BY <1>1, <1>5 DEF Calm, Unoffered, Clear, TypeOK
  <1> QED
    BY <1>8, <1>10, <1>11

\* A party that is moved finds its destination empty, and whether it has left its
\* origin is what the room's claims say.
LEMMA MoveKeepsBoard ==
  ASSUME TypeOK, Calm, NEW r \in Reservations, NEW q \in Rooms,
         NEW d \in {"cleaning", "available", "maintenance"}, MoveInHouse(r, q, d)
  PROVE  Settled' /\ Board' /\ OneParty' /\ Unoffered'
  <1> PICK from \in Rooms : from = room[r]
    BY DEF MoveInHouse, TypeOK
  <1>1. /\ status[r] = "CHECKED_IN" /\ status[r] \in InHouse /\ from \in Rooms
        /\ r \in HousedIn(from) /\ Available(q, r)
    BY DEF MoveInHouse, Calm, Settled, HousedIn
  <1>2. UNCHANGED <<status, checklist, today>> /\ room' = [room EXCEPT ![r] = q]
    BY DEF MoveInHouse
  <1>3. SyncRoomsAfterMove(r, from, q, d)
    BY DEF MoveInHouse
  <1>4. \A x, y \in Reservations :
          status[x] \in InHouse /\ status[y] \in InHouse => SameNights(x, y)
    <2> SUFFICES ASSUME NEW x \in Reservations, NEW y \in Reservations,
                        status[x] \in InHouse, status[y] \in InHouse
                 PROVE  SameNights(x, y)
      OBVIOUS
    <2>1. InWindow(x) /\ InWindow(y)
      BY DEF Calm, Settled
    <2>2. /\ Arrival[x] \in Int /\ Arrival[y] \in Int /\ Departure[x] \in Int
          /\ Departure[y] \in Int /\ today \in Int
      BY DatesAssumption DEF TypeOK
    <2> QED
      BY <2>1, <2>2 DEF InWindow, SameNights
  <1>5. HousedIn(q) \subseteq {r}
    <2> SUFFICES ASSUME NEW x \in Reservations, x # r, status[x] \in InHouse, room[x] = q
                 PROVE  FALSE
      BY DEF HousedIn
    <2> QED
      BY <1>1, <1>4 DEF Available, Holding, Statuses, InHouse
  <1>6. HousedIn(q)' = {r}
    BY <1>1, <1>2, <1>5 DEF HousedIn, TypeOK
  <1>7. HousedIn(from) = {r}
    BY <1>1 DEF Calm, OneParty
  <1>8. \A p \in Rooms \ {q, from} : HousedIn(p)' = HousedIn(p)
    BY <1>2 DEF HousedIn, TypeOK
  <1>9. Settled'
    BY <1>1, <1>2 DEF Calm, Settled, InWindow, TypeOK
  <1>10. CASE q = from
    <2>1. /\ roomStatus' = [p \in Rooms |-> IF p = q THEN "OCCUPIED" ELSE roomStatus[p]]
      BY <1>1, <1>3, <1>10 DEF SyncRoomsAfterMove
    <2>2. Board' /\ OneParty'
      BY <2>1, <1>6, <1>8, <1>10, BoardButOne DEF Calm
    <2>3. Unoffered'
      BY <2>1, <1>2 DEF Calm, Unoffered, Clear
    <2> QED
      BY <1>9, <2>2, <2>3
  <1>11. CASE q # from
    <2>1. Available(from, r)
      <3>1. roomStatus[from] \in Reservable
        BY <1>1 DEF Calm, Board, Reservable
      <3>2. SameNights(r, r)
        BY <1>1, <1>4
      <3> QED
        BY <1>1, <3>1, RoomsAssumption
           DEF Calm, RoomsApart, Available, Holding, Statuses, InHouse
    <2>2. OriginAfter(d) # "OCCUPIED" /\ (OriginAfter(d) = "AVAILABLE" => d = "available")
      BY DEF OriginAfter
    <2>3. /\ MayLeave(from, d)
          /\ roomStatus' = [p \in Rooms |-> IF p = q THEN "OCCUPIED"
                                            ELSE IF p = from THEN OriginAfter(d)
                                            ELSE roomStatus[p]]
      BY <1>1, <1>3, <1>11, <2>1 DEF SyncRoomsAfterMove
    <2>4. HousedIn(from)' = {}
      BY <1>2, <1>7, <1>11 DEF HousedIn, TypeOK
    <2>5. Board'
      <3> SUFFICES ASSUME NEW p \in Rooms PROVE roomStatus'[p] = "OCCUPIED" <=> HousedIn(p)' # {}
        BY DEF Board
      <3>1. CASE p = q
        BY <3>1, <2>3, <1>6
      <3>2. CASE p = from
        BY <3>2, <2>2, <2>3, <2>4, <1>11
      <3>3. CASE p \notin {q, from}
        BY <3>3, <2>3, <1>8 DEF Calm, Board
      <3> QED
        BY <3>1, <3>2, <3>3
    <2>6. OneParty'
      <3> SUFFICES ASSUME NEW p \in Rooms, NEW a \in HousedIn(p)', NEW b \in HousedIn(p)'
                   PROVE  a = b
        BY DEF OneParty
      <3>1. CASE p \in {q, from}
        BY <3>1, <1>6, <2>4
      <3>2. CASE p \notin {q, from}
        BY <3>2, <1>8 DEF Calm, OneParty
      <3> QED
        BY <3>1, <3>2
    <2>7. Unoffered'
      <3> SUFFICES ASSUME NEW p \in Rooms, ~Clear(p)', roomStatus'[p] = "AVAILABLE" PROVE FALSE
        BY DEF Unoffered
      <3>1. ~Clear(p)
        BY <1>2 DEF Clear
      <3>2. CASE p = from
        BY <3>1, <3>2, <2>2, <2>3 DEF MayLeave
      <3>3. CASE p # from
        BY <3>1, <3>3, <2>3 DEF Calm, Unoffered
      <3> QED
        BY <3>2, <3>3
    <2> QED
      BY <1>9, <2>5, <2>6, <2>7
  <1> QED
    BY <1>10, <1>11

\* Housekeeping and managers neither lodge anybody nor release an uncleaned room.
LEMMA HousekeepingKeepsBoard ==
  ASSUME ~HandSetOccupied, TypeOK, Calm, NEW q \in Rooms,
         \/ CompleteItem(q) \/ CompleteChecklist(q)
         \/ \E s \in RoomStatuses : SetRoomStatus(q, s)
         \/ \E h \in {"CLEAN", "DIRTY"} : SetHousekeeping(q, h)
  PROVE  Settled' /\ Board' /\ OneParty' /\ Unoffered'
  <1>1. UNCHANGED <<status, room, today>>
    BY DEF stayVars, CompleteItem, CompleteChecklist, SetRoomStatus, SetHousekeeping
  <1>2. \A p : HousedIn(p)' = HousedIn(p)
    BY <1>1 DEF HousedIn
  <1>3. Settled' /\ OneParty'
    BY <1>1, <1>2 DEF Calm, Settled, InWindow, OneParty
  <1>4. CASE CompleteItem(q) \/ \E h \in {"CLEAN", "DIRTY"} : SetHousekeeping(q, h)
    <2>1. UNCHANGED <<roomStatus, checklist>>
      BY <1>4 DEF CompleteItem, SetHousekeeping
    <2> QED
      BY <1>2, <1>3, <2>1 DEF Calm, Board, Unoffered, Clear
  <1>5. CASE CompleteChecklist(q)
    <2>1. /\ roomStatus[q] # "OCCUPIED" /\ roomStatus'[q] # "OCCUPIED"
          /\ Clear(q)'
          /\ \A p \in Rooms \ {q} : roomStatus'[p] = roomStatus[p] /\ checklist'[p] = checklist[p]
      BY <1>5 DEF CompleteChecklist, Clear, TypeOK
    <2> QED
      BY <1>2, <1>3, <2>1 DEF Calm, Board, Unoffered, Clear
  <1>6. ASSUME NEW s \in RoomStatuses, SetRoomStatus(q, s)
        PROVE  Settled' /\ Board' /\ OneParty' /\ Unoffered'
    <2>1. /\ HousedIn(q) = {} /\ s # "OCCUPIED" /\ (s = "AVAILABLE" => Clear(q))
          /\ roomStatus'[q] = s /\ checklist' = checklist
          /\ \A p \in Rooms \ {q} : roomStatus'[p] = roomStatus[p]
      BY <1>6 DEF SetRoomStatus, TypeOK
    <2> QED
      BY <1>2, <1>3, <2>1 DEF Calm, Board, Unoffered, Clear
  <1> QED
    BY <1>4, <1>5, <1>6

\* Unless the no-show task writes, a step of a calm hotel keeps it so.
LEMMA CalmStep ==
  ASSUME CalmHotel, ArrivalsInv, raced = {}, raced' = {}, Calm, [Next]_vars
  PROVE  Calm'
  <1>1. TypeOK
    BY DEF ArrivalsInv
  <1>2. RoomsApart'
    BY ApartStep DEF Calm
  <1>3. ASSUME NEW r \in Reservations, NEW p \in Policies, FirstArrival(r, p) \/ LaterArrival(r, p)
        PROVE  Settled' /\ Board' /\ OneParty' /\ Unoffered'
    BY <1>1, <1>3, FirstArrivalKeepsBoard, LaterArrivalKeepsBoard DEF CalmHotel
  <1>4. ASSUME NEW r \in Reservations, WriteNoShow(r) PROVE FALSE
    BY <1>4 DEF WriteNoShow
  <1>5. CASE ReadNoShows \/ NextDay \/ UNCHANGED vars
    <2>1. UNCHANGED <<status, room, roomStatus, checklist>>
      BY <1>5 DEF ReadNoShows, NextDay, vars, stayVars, roomVars
    <2>2. \A q : HousedIn(q)' = HousedIn(q)
      BY <2>1 DEF HousedIn
    <2>3. Settled'
      <3>1. CASE today' = today
        BY <2>1, <3>1 DEF Calm, Settled, InWindow
      <3>2. CASE NextDay
        <4> SUFFICES ASSUME NEW r \in Reservations, status'[r] \in InHouse
                     PROVE  status'[r] = "CHECKED_IN" /\ room'[r] \in Rooms /\ InWindow(r)'
          BY DEF Settled
        <4>1. status[r] = "CHECKED_IN" /\ room[r] \in Rooms /\ InWindow(r)
          BY <2>1 DEF Calm, Settled
        <4>2. today' = today + 1 /\ today + 1 < Departure[r]
          BY <2>1, <3>2 DEF NextDay, CalmHotel
        <4>3. today \in Int /\ Arrival[r] \in Int
          BY <1>1, DatesAssumption DEF TypeOK
        <4> QED
          BY <2>1, <4>1, <4>2, <4>3 DEF InWindow
      <3> QED
        BY <1>5, <3>1, <3>2 DEF ReadNoShows, vars
    <2> QED
      BY <1>2, <2>1, <2>2, <2>3 DEF Calm, Board, OneParty, Unoffered, Clear
  <1>6. CalmHotel => ~HandSetOccupied
    BY DEF CalmHotel
  <1> QED
    BY <1>1, <1>2, <1>3, <1>4, <1>5, <1>6, BookingKeepsBoard, CheckOutKeepsBoard,
       MoveKeepsBoard, HousekeepingKeepsBoard
       DEF Next, Calm

\* It is so along every behaviour until the task has written a stay.
LEMMA CalmKept == ASSUME CalmHotel PROVE Spec => []CalmInv
  <1>1. Init => CalmInv
    <2> SUFFICES ASSUME Init PROVE Calm
      BY InitArrivals DEF CalmInv
    <2>1. \A r \in Reservations : status[r] \notin InHouse /\ room[r] = NoRoom
      BY DEF Init, InHouse
    <2>2. \A q \in Rooms : HousedIn(q) = {}
      BY <2>1 DEF HousedIn
    <2>3. \A q \in Rooms : roomStatus[q] = "AVAILABLE" /\ Clear(q)
      BY DEF Init, Clear
    <2> QED
      BY <2>1, <2>2, <2>3 DEF Calm, RoomsApart, Settled, Board, OneParty, Unoffered
  <1>2. CalmInv /\ [Next]_vars => CalmInv'
    BY ArrivalsStep, CalmStep, RacedStep DEF CalmInv
  <1> QED
    BY <1>1, <1>2, PTL DEF Spec

\* The board shows a room as occupied exactly while a party is lodged in it, in
\* any calm hotel, until the no-show task has written a stay.
THEOREM BoardsMatchGuests ==
  ASSUME CalmHotel
  PROVE  Spec => []RoomBoardMatchesGuests
  <1>1. CalmInv => RoomBoardMatchesGuests
    BY DEF CalmInv, Calm, Board, RoomBoardMatchesGuests
  <1> QED
    BY <1>1, CalmKept, PTL

\* There two parties never lodge in one room.
THEOREM PartiesAreAlone ==
  ASSUME CalmHotel
  PROVE  Spec => []OnePartyPerRoom
  <1>1. CalmInv => OnePartyPerRoom
    BY DEF CalmInv, Calm, OneParty, OnePartyPerRoom
  <1> QED
    BY <1>1, CalmKept, PTL

\* There a room with an open checkout checklist is never shown as available.
THEOREM UncleanedAreNotOffered ==
  ASSUME CalmHotel
  PROVE  Spec => []UncleanedRoomsAreNotOffered
  <1>1. CalmInv => UncleanedRoomsAreNotOffered
    BY DEF CalmInv, Calm, Unoffered, UncleanedRoomsAreNotOffered
  <1> QED
    BY <1>1, CalmKept, PTL
=============================================================================
