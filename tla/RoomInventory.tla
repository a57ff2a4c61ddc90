--------------------------- MODULE RoomInventory ---------------------------
(* Which reservation holds which room on which nights.                       *)
(*                                                                           *)
(* Every operation of the reservation, block, extension, allocation and OTA  *)
(* services that can change the pair (room, dates) of a reservation, its     *)
(* claim on them, or a block of the room.  A transaction that locks the room *)
(* row it checks is one atomic action: the check is repeated under the lock  *)
(* and the lock is held to the commit.  Two paths do not lock what they      *)
(* check, and each is two actions here: a change of dates alone              *)
(* (CheckDates, CommitDates) and the analytics no-show task (ReadNoShows,    *)
(* WriteNoShow).                                                             *)
(*                                                                           *)
(* Statuses are folded into phases: "unpaid" and "paid" stand for PENDING,   *)
(* DEPOSIT_PAID, FULLY_PAID and PRE_CHECK_IN with and without any payment,   *)
(* "in_house" for PARTIAL_CHECK_IN and CHECKED_IN.  Rooms are of one         *)
(* category.                                                                 *)
EXTENDS Integers, FiniteSets

CONSTANTS Reservations, Rooms,
          Nights,     \* the calendar is 1..Nights+1; a stay covers [from, to)
          Sweepable,  \* reservations whose no-show cutoff has passed
          NoRoom, NoStay

VARIABLES phase,      \* [Reservations -> Phases]
          room,       \* [Reservations -> Rooms \cup {NoRoom}]
          stay,       \* [Reservations -> Stays]
          edit,       \* the dates a transaction has checked and not yet committed
          grouped,    \* the newest grouped move of the reservation not yet reverted, or NoRoom
          block,      \* [Rooms -> the unresolved block, or NoStay]
          inService,  \* the rooms whose status may be reserved
          candidates, \* what the no-show task has read and not yet written
          raced       \* history: claims last written by a path that locks no room

vars == <<phase, room, stay, edit, grouped, block, inService, candidates, raced>>

Phases == {"absent", "unpaid", "paid", "in_house", "checked_out", "cancelled", "no_show"}
Upcoming == {"unpaid", "paid"}
Present == Phases \ {"absent"}

\* The claims check_room_availability counts: every status but CANCELLED and
\* CHECKED_OUT, NO_SHOW among them.
Holding == {"unpaid", "paid", "in_house", "no_show"}

Days == 1 .. Nights + 1
Stays == {s \in [from : Days, to : Days] : s.from < s.to}
Moves == [from : Rooms, to : Rooms]

ASSUME NightsAssumption == Nights \in Nat \ {0}
ASSUME SweepableAssumption == Sweepable \subseteq Reservations
ASSUME NoRoomAssumption == NoRoom \notin Rooms \cup Moves
ASSUME NoStayAssumption == NoStay \notin Stays

TypeOK ==
  /\ phase \in [Reservations -> Phases]
  /\ room \in [Reservations -> Rooms \cup {NoRoom}]
  /\ stay \in [Reservations -> Stays]
  /\ edit \in [Reservations -> Stays \cup {NoStay}]
  /\ grouped \in [Reservations -> Moves \cup {NoRoom}]
  /\ block \in [Rooms -> Stays \cup {NoStay}]
  /\ inService \subseteq Rooms
  /\ candidates \subseteq Reservations
  /\ raced \subseteq Reservations

-----------------------------------------------------------------------------
(* Availability.                                                             *)

\* Half-open intervals: a departure and an arrival on one day do not overlap.
Overlap(s, t) == s.from < t.to /\ t.from < s.to

Blocked(q, s) == block[q] # NoStay /\ Overlap(block[q], s)

\* r's claim on room q during s.
Claims(r, q, s) == phase[r] \in Holding /\ room[r] = q /\ Overlap(stay[r], s)

\* check_room_availability(q, s, exclude_reservation_id = r)
Free(q, s, r) ==
  /\ q \in inService
  /\ ~Blocked(q, s)
  /\ \A x \in Reservations \ {r} : ~Claims(x, q, s)

\* The row lock a transaction on r needs is not held by a pending date change.
Unlocked(r) == edit[r] = NoStay

-----------------------------------------------------------------------------
Init ==
  /\ phase = [r \in Reservations |-> "absent"]
  /\ room = [r \in Reservations |-> NoRoom]
  /\ stay = [r \in Reservations |-> [from |-> 1, to |-> 2]]
  /\ edit = [r \in Reservations |-> NoStay]
  /\ grouped = [r \in Reservations |-> NoRoom]
  /\ block = [q \in Rooms |-> NoStay]
  /\ inService = Rooms
  /\ candidates = {}
  /\ raced = {}

\* r's claim becomes (q, s) by a path that holds the room's lock.
Assign(r, q, s) ==
  /\ room' = [room EXCEPT ![r] = q]
  /\ stay' = [stay EXCEPT ![r] = s]
  /\ raced' = raced \ {r}

SetPhase(r, p) == phase' = [phase EXCEPT ![r] = p]

\* create_reservation: a room asked for, or the first free one, under its lock;
\* none for a wait-listed or overbooked reservation.
CreateReservation(r, q, s) ==
  /\ phase[r] = "absent"
  /\ q # NoRoom => Free(q, s, r)
  /\ SetPhase(r, "unpaid")
  /\ Assign(r, q, s)
  /\ UNCHANGED <<edit, grouped, block, inService, candidates>>

\* process_payment: a first completed payment or deposit.
RegisterPayment(r) ==
  /\ Unlocked(r)
  /\ phase[r] = "unpaid"
  /\ SetPhase(r, "paid")
  /\ UNCHANGED <<room, stay, edit, grouped, block, inService, candidates, raced>>

\* perform_guest_checkin, first arrival, as far as the inventory goes.
CheckIn(r) ==
  /\ Unlocked(r)
  /\ phase[r] \in Upcoming
  /\ room[r] \in inService
  /\ ~Blocked(room[r], stay[r])
  /\ SetPhase(r, "in_house")
  /\ UNCHANGED <<room, stay, edit, grouped, block, inService, candidates, raced>>

\* perform_checkout
CheckOut(r) ==
  /\ Unlocked(r)
  /\ phase[r] = "in_house"
  /\ room[r] # NoRoom
  /\ SetPhase(r, "checked_out")
  /\ UNCHANGED <<room, stay, edit, grouped, block, inService, candidates, raced>>

\* request_reservation_cancellation, release_no_guarantee, an OTA cancellation.
Cancel(r) ==
  /\ Unlocked(r)
  /\ phase[r] \in Upcoming
  /\ SetPhase(r, "cancelled")
  /\ UNCHANGED <<room, stay, edit, grouped, block, inService, candidates, raced>>

\* mark_reservation_no_show: the room stays assigned.
MarkNoShow(r) ==
  /\ Unlocked(r)
  /\ phase[r] \in Upcoming
  /\ SetPhase(r, "no_show")
  /\ UNCHANGED <<room, stay, edit, grouped, block, inService, candidates, raced>>

-----------------------------------------------------------------------------
(* Edits of one reservation.                                                 *)

\* update_reservation_fields with a room, and with or without new dates: the
\* room is locked and checked against the dates the row will have.
EditRoom(r, q, s) ==
  /\ Unlocked(r)
  /\ phase[r] \in Upcoming
  /\ Free(q, s, r)
  /\ Assign(r, q, s)
  /\ UNCHANGED <<phase, edit, grouped, block, inService, candidates>>

\* update_reservation_fields with new dates alone: the room the reservation
\* already has is checked, and not locked ...
CheckDates(r, s) ==
  /\ Unlocked(r)
  /\ phase[r] \in Upcoming
  /\ s # stay[r]
  /\ room[r] # NoRoom => Free(room[r], s, r)
  /\ edit' = [edit EXCEPT ![r] = s]
  /\ UNCHANGED <<phase, room, stay, grouped, block, inService, candidates, raced>>

\* MUTANT of CommitDates: a repeated commit, nothing left to write.
CommitDatesAgain(r) ==
  /\ stay' = [stay EXCEPT ![r] = edit[r]]
  /\ edit' = [edit EXCEPT ![r] = NoStay]
  /\ raced' = raced \cup {r}
  /\ UNCHANGED <<phase, room, grouped, block, inService, candidates>>

\* ... so the write that follows relies on an answer that may be out of date.
CommitDates(r) ==
  /\ edit[r] # NoStay
  /\ stay' = [stay EXCEPT ![r] = edit[r]]
  /\ edit' = [edit EXCEPT ![r] = NoStay]
  /\ raced' = raced \cup {r}
  /\ UNCHANGED <<phase, room, grouped, block, inService, candidates>>

\* change_reservation_dates without payments: cancelled, and created again as n
\* in the room it had or the one asked for; a reservation that had none gets the
\* first free one, or none when the hotel accepts overbooking.
RecreateWithDates(r, n, q, s) ==
  /\ Unlocked(r)
  /\ phase[r] = "unpaid" /\ phase[n] = "absent"
  /\ IF q = NoRoom
       THEN room[r] = NoRoom /\ \A x \in Rooms : ~Free(x, s, r)
       ELSE Free(q, s, r)
  /\ phase' = [phase EXCEPT ![r] = "cancelled", ![n] = "unpaid"]
  /\ Assign(n, q, s)
  /\ UNCHANGED <<edit, grouped, block, inService, candidates>>

\* move_reservation_room: no status is excluded.
MoveRoom(r, q) ==
  /\ Unlocked(r)
  /\ phase[r] \in Present
  /\ Free(q, stay[r], r)
  /\ Assign(r, q, stay[r])
  /\ UNCHANGED <<phase, edit, grouped, block, inService, candidates>>

\* revert_group, for one reservation of the group: its room is still the one the
\* group gave it.  The group stays open for another attempt when another of its
\* reservations could not go back.
RevertMove(r) ==
  LET back == grouped[r].from IN
  /\ Unlocked(r)
  /\ grouped[r] # NoRoom /\ room[r] = grouped[r].to
  /\ phase[r] \in Upcoming \cup {"in_house"}
  /\ Free(back, stay[r], r)
  /\ Assign(r, back, stay[r])
  /\ grouped' \in {grouped, [grouped EXCEPT ![r] = NoRoom]}
  /\ UNCHANGED <<phase, edit, block, inService, candidates>>

\* _update_existing_reservation_from_normalized: a NO_SHOW reservation is not
\* excluded, and the financial snapshot gives it an open status again.
OtaModify(r, q, s) ==
  /\ Unlocked(r)
  /\ phase[r] \in Upcoming \cup {"no_show"}
  /\ Free(q, s, r)
  /\ Free(room[r], s, r) => q = room[r]
  /\ \E p \in Upcoming : SetPhase(r, p)
  /\ Assign(r, q, s)
  /\ UNCHANGED <<edit, grouped, block, inService, candidates>>

-----------------------------------------------------------------------------
(* Steps that move several reservations.                                     *)

\* s with another last day, and the nights this adds to s.
Until(s, d) == [from |-> s.from, to |-> d]
Added(s, d) == [from |-> s.to, to |-> d]

\* A grouped move puts each member of DOMAIN moves into its room; NoRoom
\* releases the assignment.
MoveAll(moves) ==
  LET M == DOMAIN moves IN
  /\ room' = [r \in Reservations |-> IF r \in M THEN moves[r] ELSE room[r]]
  /\ grouped' = [r \in Reservations |->
                   IF r \in M /\ NoRoom \notin {room[r], moves[r]}
                     THEN [from |-> room[r], to |-> moves[r]] ELSE grouped[r]]

\* MUTANT of Disjoint: members are compared with the other reservations only.
DisjointFromOthers(moves) == TRUE

\* Members of a plan do not share a room on a night.
Disjoint(moves) ==
  \A a, b \in DOMAIN moves :
    a # b /\ moves[a] = moves[b] /\ moves[a] # NoRoom => ~Overlap(stay[a], stay[b])

\* MUTANT of InTheWay: the night after the old departure is overlooked.
InTheWayLater(r, d) ==
  {x \in Reservations \ {r} : Claims(x, room[r], [from |-> stay[r].to + 1, to |-> d])}

\* The reservations in the nights by which r's stay is extended to day d.
InTheWay(r, d) ==
  {x \in Reservations \ {r} : Claims(x, room[r], Added(stay[r], d))}

\* MUTANT of MayGiveWay: a deposit is not looked for.
PaidMayGiveWay(x) == phase[x] \in Upcoming /\ Unlocked(x)

\* MUTANT of MayGiveWay: a guest in the house is not looked for.
GuestMayGiveWay(x) == phase[x] # "no_show" /\ Unlocked(x)

\* Nobody in the house, no no-show and no payment or deposit.
MayGiveWay(x) == phase[x] = "unpaid" /\ Unlocked(x)

\* resolve_extension_conflict: each reservation in the way gets a free room that
\* is not the extended one, or loses its room when there is none.
GiveWay(r, moves) ==
  /\ Disjoint(moves)
  /\ \A x \in DOMAIN moves :
       LET rooms == {q \in Rooms \ {room[r]} :
                       /\ Free(q, stay[x], x)
                       /\ \A y \in DOMAIN moves \ {x} :
                            moves[y] = q => ~Overlap(stay[x], stay[y])}
       IN IF rooms = {} THEN moves[x] = NoRoom ELSE moves[x] \in rooms

\* A stay without a room displaces nobody.
Displaced(r, d) == IF room[r] = NoRoom THEN {} ELSE InTheWay(r, d)

\* extend_reservation_stay: the room is locked; a stay without a room is only
\* given a later departure.
ExtendStay(r, d) ==
  /\ Unlocked(r)
  /\ phase[r] \in {"paid", "in_house"}
  /\ d > stay[r].to
  /\ room[r] # NoRoom => room[r] \in inService /\ ~Blocked(room[r], Added(stay[r], d))
  /\ \A x \in Displaced(r, d) : MayGiveWay(x)
  /\ \E moves \in [Displaced(r, d) -> Rooms \cup {NoRoom}] :
       GiveWay(r, moves) /\ MoveAll(moves)
  /\ raced' = raced \ Displaced(r, d)
  /\ stay' = [stay EXCEPT ![r] = Until(@, d)]
  /\ UNCHANGED <<phase, edit, block, inService, candidates>>

\* MUTANT of PlanFits: blocks made since the proposal are not looked for.
PlanFitsUnblocked(moves) ==
  /\ Disjoint(moves)
  /\ \A r \in DOMAIN moves :
       /\ moves[r] \in inService
       /\ \A x \in Reservations \ DOMAIN moves : ~Claims(x, moves[r], stay[r])

\* The check accept_allocation_run makes of the final state of a plan.
PlanFits(moves) ==
  /\ Disjoint(moves)
  /\ \A r \in DOMAIN moves :
       /\ moves[r] \in inService
       /\ ~Blocked(moves[r], stay[r])
       /\ \A x \in Reservations \ DOMAIN moves : ~Claims(x, moves[r], stay[r])

\* What the solver may propose: rooms for some reservations.
Plans == UNION {[M -> Rooms] : M \in SUBSET Reservations}

\* An upcoming reservation may be given another room by an accepted plan.
Reassignable(moves) ==
  \A r \in DOMAIN moves :
    Unlocked(r) /\ phase[r] \in Upcoming /\ moves[r] # room[r]

\* accept_allocation_run: the plan is validated again as it is accepted, so any
\* plan that passes stands for every proposal, fresh or stale.
AcceptAllocation(moves) ==
  /\ DOMAIN moves # {}
  /\ Reassignable(moves)
  /\ PlanFits(moves)
  /\ MoveAll(moves)
  /\ raced' = raced \ DOMAIN moves
  /\ UNCHANGED <<phase, stay, edit, block, inService, candidates>>

\* run_persisted_allocation applying first assignments at once: the status is
\* compared with the in-house ones only.
AutoAssign(r, q) ==
  /\ Unlocked(r)
  /\ phase[r] \in Upcoming \cup {"no_show", "cancelled"}
  /\ room[r] = NoRoom
  /\ Free(q, stay[r], r)
  /\ Assign(r, q, stay[r])
  /\ UNCHANGED <<phase, edit, grouped, block, inService, candidates>>

-----------------------------------------------------------------------------
(* Blocks and the service state of rooms.                                    *)

\* MUTANT of CreateBlock: a no-show is taken to have left its room.
CreateBlockOverNoShow(q, s) ==
  /\ block[q] = NoStay
  /\ \A r \in Reservations : phase[r] # "no_show" => ~Claims(r, q, s)
  /\ block' = [block EXCEPT ![q] = s]
  /\ UNCHANGED <<phase, room, stay, edit, grouped, inService, candidates, raced>>

\* create_block: no claim and no other block in the window, re-checked under the
\* room's lock.  Here a room has one unresolved block at a time.
CreateBlock(q, s) ==
  /\ block[q] = NoStay
  /\ \A r \in Reservations : ~Claims(r, q, s)
  /\ block' = [block EXCEPT ![q] = s]
  /\ UNCHANGED <<phase, room, stay, edit, grouped, inService, candidates, raced>>

\* extend_block_with_allocation_plan: the claims in the added nights move out in
\* the same transaction, or there are none.
ExtendBlock(q, d) ==
  LET added == Added(block[q], d) IN
  /\ block[q] # NoStay
  /\ d > block[q].to
  /\ \E moves \in Plans :
       /\ {r \in Reservations : Claims(r, q, added)} \subseteq DOMAIN moves
       /\ \A r \in DOMAIN moves : moves[r] = q => ~Overlap(stay[r], added)
       /\ Reassignable(moves)
       /\ PlanFits(moves)
       /\ MoveAll(moves)
       /\ raced' = raced \ DOMAIN moves
  /\ block' = [block EXCEPT ![q] = Until(@, d)]
  /\ UNCHANGED <<phase, stay, edit, inService, candidates>>

\* resolve_block: a room with an affected upcoming or current stay is not released.
\* The code asks for an AVAILABLE room, inService is the nearest the model has.
ResolveBlock(q) ==
  /\ block[q] # NoStay
  /\ q \in inService
  /\ \A r \in Reservations : phase[r] # "no_show" => ~Claims(r, q, block[q])
  /\ block' = [block EXCEPT ![q] = NoStay]
  /\ UNCHANGED <<phase, room, stay, edit, grouped, inService, candidates, raced>>

\* A room's status leaves or enters AVAILABLE, OCCUPIED, CLEANING.
ToggleService(q) ==
  /\ inService' = IF q \in inService THEN inService \ {q} ELSE inService \cup {q}
  /\ UNCHANGED <<phase, room, stay, edit, grouped, block, candidates, raced>>

-----------------------------------------------------------------------------
(* detect_no_shows: candidates are read without a lock, then written one by  *)
(* one, whatever happened to them since.                                     *)

ReadNoShows ==
  /\ candidates = {}
  /\ candidates' = {r \in Sweepable : phase[r] \in Upcoming}
  /\ candidates' # {}
  /\ UNCHANGED <<phase, room, stay, edit, grouped, block, inService, raced>>

WriteNoShow(r) ==
  /\ r \in candidates
  /\ Unlocked(r)
  /\ SetPhase(r, "no_show")
  /\ candidates' = candidates \ {r}
  /\ raced' = raced \cup {r}
  /\ UNCHANGED <<room, stay, edit, grouped, block, inService>>

-----------------------------------------------------------------------------
Next ==
  \/ \E r \in Reservations :
       \/ RegisterPayment(r) \/ CheckIn(r) \/ CheckOut(r) \/ Cancel(r) \/ MarkNoShow(r)
       \/ CommitDates(r) \/ RevertMove(r) \/ WriteNoShow(r)
       \/ \E q \in Rooms : MoveRoom(r, q) \/ AutoAssign(r, q)
       \/ \E s \in Stays : CheckDates(r, s)
       \/ \E q \in Rooms, s \in Stays : EditRoom(r, q, s) \/ OtaModify(r, q, s)
       \/ \E q \in Rooms \cup {NoRoom}, s \in Stays :
            \/ CreateReservation(r, q, s)
            \/ \E n \in Reservations : RecreateWithDates(r, n, q, s)
       \/ \E d \in Days : ExtendStay(r, d)
  \/ \E moves \in Plans : AcceptAllocation(moves)
  \/ \E q \in Rooms :
       \/ ResolveBlock(q) \/ ToggleService(q)
       \/ \E s \in Stays : CreateBlock(q, s)
       \/ \E d \in Days : ExtendBlock(q, d)
  \/ ReadNoShows

Spec == Init /\ [][Next]_vars

-----------------------------------------------------------------------------
(* Properties.                                                               *)

Clash(a, b) ==
  /\ a # b /\ phase[a] \in Holding /\ phase[b] \in Holding
  /\ room[a] = room[b] /\ room[a] # NoRoom
  /\ Overlap(stay[a], stay[b])

\* Two claims on one room never share a night: "Uses pessimistic locking to
\* prevent race conditions (overbooking)", reservation_service.py:4.
NoDoubleBooking == \A a, b \in Reservations : ~Clash(a, b)

\* Every double booking has a member whose claim was last written by a path that
\* does not lock the room: all the other paths, in any interleaving, keep claims
\* disjoint, whatever they move and however many rooms they touch.
DoubleBookingNeedsARace == \A a, b \in Reservations \ raced : ~Clash(a, b)

\* Only those two paths add a clash, and only for the reservation they write:
\* while others clash already, no extension, plan, move or creation adds to it.
LockedPathsAddNoClash ==
  [][\A a, b \in Reservations :
       Clash(a, b)' => Clash(a, b) \/ \E r \in {a, b} : CommitDates(r) \/ WriteNoShow(r)]_vars

\* No claim lies under an unresolved block, with the same exception: blocks and
\* assignments check each other under the room's lock.
BlockedNightsAreClear ==
  \A r \in Reservations \ raced :
    phase[r] \in Holding /\ room[r] # NoRoom => ~Blocked(room[r], stay[r])

\* A guest in the house has a room, whatever extensions release and whatever the
\* solver moves.
HousedGuestsHaveARoom ==
  \A r \in Reservations : phase[r] = "in_house" => room[r] # NoRoom

\* No operation takes the room of a reservation that paid, or of a guest in the
\* house, away without giving another: extensions displace unpaid ones only.
PaidStaysKeepARoom ==
  [][\A r \in Reservations :
       phase[r] \in {"paid", "in_house"} /\ room[r] # NoRoom => room'[r] # NoRoom]_vars
=============================================================================
