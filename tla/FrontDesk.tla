----------------------------- MODULE FrontDesk -----------------------------
(* Arrivals, departures, in-house moves and housekeeping: how the status of  *)
(* a reservation, the status of its room and the cleaning checklist of the   *)
(* room follow one another.                                                  *)
(*                                                                           *)
(* Each handler locks the reservation, the room, or both, and is one action. *)
(* BOOKED stands for PENDING, DEPOSIT_PAID and FULLY_PAID, which no handler  *)
(* here tells apart; MAINTENANCE for maintenance and blocked; CLEAN for      *)
(* clean and inspected, DIRTY for dirty and in progress.  Dates are fixed,   *)
(* nights are [arrival, departure), and dated blocks of rooms are left to    *)
(* RoomInventory.                                                            *)
EXTENDS Integers

CONSTANTS Reservations, Rooms, NoRoom, NoChecklist,
          Arrival, Departure,   \* [Reservations -> days]
          Party,                \* guests expected, [Reservations -> Nat \ {0}]
          LastDay,              \* the last day explored
          Policies,             \* the check-in status policies the hotel may have
          OtaReservations,      \* reservations whose channel sends modifications
          Reviewed,             \* those whose cancellation takes a manager's decision
          Sweeps,               \* is the analytics no-show task run?
          Overstays,            \* may a party stay past its departure?
          HandSetOccupied       \* may a manager set the status of a room with guests?

ASSUME DatesAssumption ==
  /\ LastDay \in Nat \ {0}
  /\ Arrival \in [Reservations -> Nat]
  /\ Departure \in [Reservations -> Nat]
  /\ Party \in [Reservations -> Nat \ {0}]
ASSUME RoomsAssumption == NoRoom \notin Rooms /\ NoChecklist \notin Reservations
ASSUME SwitchesAssumption ==
  /\ Policies \subseteq {"partial_checkin", "checked_in_on_first_guest"}
  /\ OtaReservations \subseteq Reservations
  /\ Reviewed \subseteq Reservations
  /\ Sweeps \in BOOLEAN /\ Overstays \in BOOLEAN /\ HandSetOccupied \in BOOLEAN

VARIABLES status,        \* [Reservations -> Statuses]
          room,          \* [Reservations -> Rooms \cup {NoRoom}]
          arrivals,      \* guests of the party registered so far
          roomStatus,    \* [Rooms -> RoomStatuses]
          housekeeping,  \* [Rooms -> {"CLEAN", "DIRTY"}]
          checklist,     \* [Rooms -> the stay whose checkout checklist is open, or NoChecklist]
          today,
          candidates,    \* what the no-show task has read and not yet written
          raced,         \* history: stays the no-show task wrote
          review         \* [Reservations -> the status of its cancellation review, or "none"]

stayVars == <<status, room, arrivals>>
roomVars == <<roomStatus, housekeeping, checklist>>
vars == <<status, room, arrivals, roomStatus, housekeeping, checklist, today, candidates, raced, review>>

Upcoming == {"BOOKED", "PRE_CHECK_IN"}
InHouse == {"PARTIAL_CHECK_IN", "CHECKED_IN"}
Statuses == Upcoming \cup InHouse \cup {"CHECKED_OUT", "CANCELLED", "NO_SHOW"}
Holding == Statuses \ {"CHECKED_OUT", "CANCELLED"}

RoomStatuses == {"AVAILABLE", "OCCUPIED", "CLEANING", "MAINTENANCE"}
Decisions == {"approved", "rejected"}
Reservable == {"AVAILABLE", "OCCUPIED", "CLEANING"}

TypeOK ==
  /\ status \in [Reservations -> Statuses]
  /\ room \in [Reservations -> Rooms \cup {NoRoom}]
  /\ arrivals \in [Reservations -> Nat]
  /\ \A r \in Reservations : arrivals[r] <= Party[r]
  /\ roomStatus \in [Rooms -> RoomStatuses]
  /\ housekeeping \in [Rooms -> {"CLEAN", "DIRTY"}]
  /\ checklist \in [Rooms -> Reservations \cup {NoChecklist}]
  /\ today \in 1 .. LastDay
  /\ candidates \subseteq Reservations
  /\ raced \subseteq Reservations
  /\ review \in [Reservations -> {"none", "pending"} \cup Decisions]

-----------------------------------------------------------------------------
Init ==
  /\ status = [r \in Reservations |-> "BOOKED"]
  /\ room = [r \in Reservations |-> NoRoom]
  /\ arrivals = [r \in Reservations |-> 0]
  /\ roomStatus = [q \in Rooms |-> "AVAILABLE"]
  /\ housekeeping = [q \in Rooms |-> "CLEAN"]
  /\ checklist = [q \in Rooms |-> NoChecklist]
  /\ today = 1
  /\ candidates = {}
  /\ raced = {}
  /\ review = [r \in Reservations |-> "none"]

SameNights(a, b) == Arrival[a] < Departure[b] /\ Arrival[b] < Departure[a]

\* MUTANT of Available: guests in the house are not counted.
AvailableBesideGuests(q, r) ==
  /\ roomStatus[q] \in Reservable
  /\ \A x \in Reservations \ {r} :
       status[x] \in Holding \ InHouse /\ room[x] = q => ~SameNights(x, r)

\* check_room_availability for r's own nights, r excluded.
Available(q, r) ==
  /\ roomStatus[q] \in Reservable
  /\ \A x \in Reservations \ {r} :
       status[x] \in Holding /\ room[x] = q => ~SameNights(x, r)

HousedIn(q) == {r \in Reservations : status[r] \in InHouse /\ room[r] = q}

\* mutate_room_state refuses to release or occupy a room, or to call it clean,
\* while its checklist is open.
Clear(q) == checklist[q] = NoChecklist

\* hotel_today is within the nights of the stay.
InWindow(r) == Arrival[r] <= today /\ today < Departure[r]

SetStatus(r, s) == status' = [status EXCEPT ![r] = s]

\* A reservation before arrival gets a room or another one.
AssignRoom(r, q) ==
  /\ status[r] \in Upcoming
  /\ q # room[r]
  /\ Available(q, r)
  /\ room' = [room EXCEPT ![r] = q]
  /\ UNCHANGED <<status, arrivals, roomVars, today, candidates, raced, review>>

\* perform_partial_checkin: documents loaded, nobody in the room.
PreCheckIn(r) ==
  /\ status[r] = "BOOKED"
  /\ InWindow(r)
  /\ SetStatus(r, "PRE_CHECK_IN")
  /\ UNCHANGED <<room, arrivals, roomVars, today, candidates, raced, review>>

\* perform_guest_checkin for the first guest: the only arrival that is shown the
\* window, the room's readiness and the policy of the hotel.
FirstArrival(r, policy) ==
  LET q == room[r] IN
  /\ status[r] \in Upcoming
  /\ arrivals[r] = 0
  /\ InWindow(r)
  /\ q # NoRoom
  /\ Clear(q) /\ roomStatus[q] = "AVAILABLE" /\ housekeeping[q] = "CLEAN"
  /\ arrivals' = [arrivals EXCEPT ![r] = 1]
  /\ roomStatus' = [roomStatus EXCEPT ![q] = "OCCUPIED"]
  /\ SetStatus(r, IF policy = "checked_in_on_first_guest" \/ Party[r] = 1
                  THEN "CHECKED_IN" ELSE "PARTIAL_CHECK_IN")
  /\ UNCHANGED <<room, housekeeping, checklist, today, candidates, raced, review>>

\* MUTANT of Awaited: one guest too many.
AwaitedOneMore(r) == arrivals[r] \in 1 .. Party[r]

\* Some of the party are in, and not all.
Awaited(r) == arrivals[r] \in 1 .. Party[r] - 1

\* perform_guest_checkin for a companion: the room must show as occupied.  The
\* party is complete with its last guest.
LaterArrival(r, policy) ==
  LET complete == arrivals[r] + 1 = Party[r] IN
  /\ status[r] \in Upcoming \cup InHouse
  /\ Awaited(r)
  /\ room[r] # NoRoom
  /\ roomStatus[room[r]] = "OCCUPIED"
  /\ arrivals' = [arrivals EXCEPT ![r] = @ + 1]
  /\ SetStatus(r, IF complete /\ policy = "partial_checkin" THEN "CHECKED_IN"
                  ELSE IF status[r] \in Upcoming THEN "PARTIAL_CHECK_IN"
                  ELSE status[r])
  /\ UNCHANGED <<room, roomVars, today, candidates, raced, review>>

\* perform_checkout: the checklist is created in the same transaction, and one
\* room has at most one open checklist (a unique index).
CheckOut(r) ==
  LET q == room[r] IN
  /\ status[r] \in InHouse
  /\ q # NoRoom
  /\ Clear(q)
  /\ SetStatus(r, "CHECKED_OUT")
  /\ checklist' = [checklist EXCEPT ![q] = r]
  /\ roomStatus' = [roomStatus EXCEPT ![q] = IF @ = "OCCUPIED" THEN "CLEANING" ELSE @]
  /\ housekeeping' = [housekeeping EXCEPT ![q] = "DIRTY"]
  /\ UNCHANGED <<room, arrivals, today, candidates, raced, review>>

\* MUTANT of Cancel: a stay that has begun can be cancelled.
CancelBegun(r) ==
  /\ status[r] \in Upcoming \cup InHouse
  /\ SetStatus(r, "CANCELLED")
  /\ UNCHANGED <<room, arrivals, roomVars, today, candidates, raced, review>>

\* request_reservation_cancellation in the free window, release_no_guarantee, or an
\* OTA cancellation; the last two do not look for a review.
Cancel(r) ==
  /\ status[r] \in Upcoming
  /\ SetStatus(r, "CANCELLED")
  /\ UNCHANGED <<room, arrivals, roomVars, today, candidates, raced, review>>

\* request_reservation_cancellation outside the free window.  A request made again
\* after a rejection would open another review; one for each stay is explored.
RequestReview(r) ==
  /\ r \in Reviewed
  /\ status[r] \in Upcoming
  /\ review[r] = "none"
  /\ review' = [review EXCEPT ![r] = "pending"]
  /\ UNCHANGED <<stayVars, roomVars, today, candidates, raced>>

\* MUTANT of DecideReview: a stay under review is not looked at again.
DecideUnseen(r, decision) ==
  /\ review[r] # "none"
  /\ review' = [review EXCEPT ![r] = decision]
  /\ IF decision = "approved" /\ status[r] \in Upcoming THEN SetStatus(r, "CANCELLED") ELSE UNCHANGED status
  /\ UNCHANGED <<room, arrivals, roomVars, today, candidates, raced>>

\* resolve_cancellation_review.  The endpoint loads the review before the lock, and
\* the lock does not load it again: whoever loaded it while it was pending decides,
\* whatever was decided meanwhile.  The reservation is loaded again.
DecideReview(r, decision) ==
  /\ review[r] # "none"
  /\ status[r] \in Upcoming
  /\ review' = [review EXCEPT ![r] = decision]
  /\ IF decision = "approved" THEN SetStatus(r, "CANCELLED") ELSE UNCHANGED status
  /\ UNCHANGED <<room, arrivals, roomVars, today, candidates, raced>>

\* MUTANT of MarkNoShow: a party that is not complete counts as absent.
MarkPartialNoShow(r) ==
  /\ status[r] \in Upcoming \cup {"PARTIAL_CHECK_IN"}
  /\ SetStatus(r, "NO_SHOW")
  /\ UNCHANGED <<room, arrivals, roomVars, today, candidates, raced, review>>

\* mark_reservation_no_show, by hand or from the locked sweep.
MarkNoShow(r) ==
  /\ status[r] \in Upcoming
  /\ SetStatus(r, "NO_SHOW")
  /\ UNCHANGED <<room, arrivals, roomVars, today, candidates, raced, review>>

-----------------------------------------------------------------------------
(* In-house moves.                                                           *)

\* The room left behind after a move, as reception decided; it is only touched
\* when nobody else has a claim on it for the nights of the stay.
OriginAfter(disposition) ==
  CASE disposition = "cleaning" -> "CLEANING"
    [] disposition = "available" -> "AVAILABLE"
    [] disposition = "maintenance" -> "MAINTENANCE"

\* MUTANT of MayLeave: the checklist of the origin is not looked for.
MayLeaveUncleaned(q, disposition) == TRUE

\* Making the origin available while its checklist is open fails the whole move.
MayLeave(q, disposition) == disposition = "available" => Clear(q)

\* sync_room_statuses_after_move, which does nothing unless the stay is CHECKED_IN.
\* Occupying a room with an open checklist needs the override the move carries.
SyncRoomsAfterMove(r, from, to, disposition) ==
  IF status[r] # "CHECKED_IN"
  THEN UNCHANGED <<roomStatus, housekeeping>>
  ELSE LET left == from # to /\ Available(from, r) IN
       /\ left => MayLeave(from, disposition)
       /\ roomStatus' = [q \in Rooms |->
                           IF q = to THEN "OCCUPIED"
                           ELSE IF q = from /\ left THEN OriginAfter(disposition)
                           ELSE roomStatus[q]]
       /\ housekeeping' = [q \in Rooms |->
                             IF q = from /\ left /\ disposition = "cleaning" THEN "DIRTY"
                             ELSE housekeeping[q]]

\* move_reservation_room for a lodged party, with the permission to move into a
\* room whose checklist is open.  Reverting the grouped move of a party that is
\* PARTIAL_CHECK_IN is such a step too.
MoveInHouse(r, to, disposition) ==
  /\ status[r] \in InHouse
  /\ room[r] # NoRoom
  /\ Available(to, r)
  /\ room' = [room EXCEPT ![r] = to]
  /\ SyncRoomsAfterMove(r, room[r], to, disposition)
  /\ UNCHANGED <<status, arrivals, checklist, today, candidates, raced, review>>

-----------------------------------------------------------------------------
(* Housekeeping and the room board.                                          *)

\* complete_checklist_item, when other items are still open.
CompleteItem(q) ==
  /\ ~Clear(q)
  /\ roomStatus[q] # "OCCUPIED"
  /\ housekeeping' = [housekeeping EXCEPT ![q] = "DIRTY"]
  /\ UNCHANGED <<stayVars, roomStatus, checklist, today, candidates, raced, review>>

\* MUTANT of CompleteChecklist: every cleaned room is released.
CompleteAndRelease(q) ==
  /\ ~Clear(q)
  /\ checklist' = [checklist EXCEPT ![q] = NoChecklist]
  /\ housekeeping' = [housekeeping EXCEPT ![q] = "CLEAN"]
  /\ roomStatus' = [roomStatus EXCEPT ![q] = "AVAILABLE"]
  /\ UNCHANGED <<stayVars, today, candidates, raced, review>>

\* complete_checklist_item, for the last item: the checklist closes and a room
\* that was being cleaned is released.
CompleteChecklist(q) ==
  /\ ~Clear(q)
  /\ roomStatus[q] # "OCCUPIED"
  /\ checklist' = [checklist EXCEPT ![q] = NoChecklist]
  /\ housekeeping' = [housekeeping EXCEPT ![q] = "CLEAN"]
  /\ roomStatus' = [roomStatus EXCEPT ![q] = IF @ = "CLEANING" THEN "AVAILABLE" ELSE @]
  /\ UNCHANGED <<stayVars, today, candidates, raced, review>>

\* update_room_status: nothing relates the new status to the guests inside.
SetRoomStatus(q, s) ==
  /\ HandSetOccupied \/ (HousedIn(q) = {} /\ s # "OCCUPIED")
  /\ s \in {"AVAILABLE", "OCCUPIED"} => Clear(q)
  /\ roomStatus' = [roomStatus EXCEPT ![q] = s]
  /\ housekeeping' = [housekeeping EXCEPT ![q] = IF s = "CLEANING" THEN "DIRTY" ELSE @]
  /\ UNCHANGED <<stayVars, checklist, today, candidates, raced, review>>

\* update_room_cleaning_status
SetHousekeeping(q, h) ==
  /\ h = "CLEAN" => Clear(q)
  /\ housekeeping' = [housekeeping EXCEPT ![q] = h]
  /\ UNCHANGED <<stayVars, roomStatus, checklist, today, candidates, raced, review>>

-----------------------------------------------------------------------------
(* Channels, the no-show task and the calendar.                              *)

\* _update_existing_reservation_from_normalized for unchanged dates: only an
\* in-house, checked-out or cancelled reservation keeps its status.
OtaModify(r, q) ==
  /\ r \in OtaReservations
  /\ status[r] \in Upcoming \cup {"NO_SHOW"}
  /\ Available(q, r)
  /\ (room[r] # NoRoom /\ Available(room[r], r)) => q = room[r]
  /\ SetStatus(r, "BOOKED")
  /\ room' = [room EXCEPT ![r] = q]
  /\ UNCHANGED <<arrivals, roomVars, today, candidates, raced, review>>

\* detect_no_shows reads its candidates without a lock ...
ReadNoShows ==
  /\ Sweeps
  /\ candidates = {}
  /\ candidates' = {r \in Reservations : status[r] = "BOOKED" /\ Arrival[r] < today}
  /\ candidates' # {}
  /\ UNCHANGED <<stayVars, roomVars, today, raced, review>>

\* ... and writes each one later, whatever its status has become.
WriteNoShow(r) ==
  /\ r \in candidates
  /\ SetStatus(r, "NO_SHOW")
  /\ candidates' = candidates \ {r}
  /\ raced' = raced \cup {r}
  /\ UNCHANGED <<room, arrivals, roomVars, today, review>>

NextDay ==
  /\ today < LastDay
  /\ Overstays \/ \A r \in Reservations : status[r] \in InHouse => today + 1 < Departure[r]
  /\ today' = today + 1
  /\ UNCHANGED <<stayVars, roomVars, candidates, raced, review>>

-----------------------------------------------------------------------------
Next ==
  \/ \E r \in Reservations :
       \/ PreCheckIn(r) \/ CheckOut(r) \/ Cancel(r) \/ MarkNoShow(r) \/ WriteNoShow(r)
       \/ RequestReview(r) \/ \E d \in Decisions : DecideReview(r, d)
       \/ \E p \in Policies : FirstArrival(r, p) \/ LaterArrival(r, p)
       \/ \E q \in Rooms : AssignRoom(r, q) \/ OtaModify(r, q)
       \/ \E q \in Rooms, d \in {"cleaning", "available", "maintenance"} : MoveInHouse(r, q, d)
  \/ \E q \in Rooms :
       \/ CompleteItem(q) \/ CompleteChecklist(q)
       \/ \E s \in RoomStatuses : SetRoomStatus(q, s)
       \/ \E h \in {"CLEAN", "DIRTY"} : SetHousekeeping(q, h)
  \/ ReadNoShows
  \/ NextDay

Spec == Init /\ [][Next]_vars
-----------------------------------------------------------------------------
(* Properties.                                                               *)

\* A room is shown as occupied exactly while a party is lodged in it, through
\* arrivals, departures, moves and cleaning, until the no-show task has written
\* a stay.  It needs parties that are CHECKED_IN from their first guest and
\* managers who leave the rooms of guests alone.
RoomBoardMatchesGuests ==
  raced = {} => \A q \in Rooms : roomStatus[q] = "OCCUPIED" <=> HousedIn(q) # {}

\* Two parties never lodge in one room, although no arrival looks for another
\* party: the room's status stands in for that.
OnePartyPerRoom ==
  raced = {} => \A q \in Rooms : \A a, b \in HousedIn(q) : a = b

\* A room whose checkout checklist is open is not offered as available, whatever
\* moves, releases and hand-set statuses come between the checkout and the cleaning.
UncleanedRoomsAreNotOffered ==
  raced = {} => \A q \in Rooms : ~Clear(q) => roomStatus[q] # "AVAILABLE"

\* A stay somebody has arrived for is in the house or over: no cancellation,
\* channel message or no-show reaches it, but the unlocked task's.
ArrivalsAreKept ==
  \A r \in Reservations \ raced :
    arrivals[r] > 0 => status[r] \in InHouse \cup {"CHECKED_OUT"}

\* What a manager approved is cancelled and stays so, through arrivals, channels and
\* other managers who decide from what they loaded before: no later step gives the
\* stay back, but the unlocked task's.
ApprovedStaysCancelled ==
  \A r \in Reservations \ raced : review[r] = "approved" => status[r] = "CANCELLED"

\* Whatever managers set by hand and however parties arrive and move, two parties
\* share a room only after one of them has outstayed its departure.
SharedRoomMeansOverstay ==
  \A q \in Rooms : \A a, b \in HousedIn(q) :
    a # b => ~SameNights(a, b) /\ (Departure[a] <= today \/ Departure[b] <= today)

\* The lifecycle a stay follows, hiding rooms, guests and housekeeping.
PhaseOf(s) ==
  CASE s \in Upcoming -> "upcoming"
    [] s \in InHouse -> "in_house"
    [] s = "CHECKED_OUT" -> "departed"
    [] s \in {"CANCELLED", "NO_SHOW"} -> "dropped"

PhaseMap == [r \in Reservations |-> PhaseOf(status[r])]

Lifecycle == INSTANCE StayLifecycle WITH phase <- PhaseMap

\* Without channel modifications and without the analytics task, every handler
\* steps as StayLifecycle allows or leaves the lifecycle alone.
FollowsLifecycle == Lifecycle!Spec

\* "Si llegan primero 2 personas de una reserva de 4, se cargan esos huespedes y
\* luego se pueden agregar huespedes posteriores a la misma reserva"
\* (docs/business-requirements-master-v72.md): while guests of a lodged party
\* are missing, its room is one that LaterArrival accepts.
LaterGuestsCanArrive ==
  \A r \in Reservations :
    status[r] = "PARTIAL_CHECK_IN" /\ room[r] # NoRoom =>
      roomStatus[room[r]] = "OCCUPIED"

\* A lodged party can leave, early included (Q153 of the same document): the room
\* it is in can take the checklist its checkout opens.
LodgedPartiesCanLeave ==
  \A r \in Reservations : status[r] \in InHouse => room[r] # NoRoom /\ Clear(room[r])

\* "Reservation model - the core entity with a strict state machine"
\* (app/models/reservation.py), in which NO_SHOW has no successor.
NoShowIsFinal ==
  [][\A r \in Reservations : status[r] = "NO_SHOW" => status'[r] = "NO_SHOW"]_vars
=============================================================================
