------------------------ MODULE RoomInventoryProofs ------------------------
(* What RoomInventory keeps for any reservations, rooms and calendar.        *)
(*                                                                           *)
(* An action either leaves the claims that count where they are, gives one   *)
(* reservation a room that is free for it, or moves several at once: for     *)
(* clashes StillClaimsAddNoClash, AssignedAddsNoClash and one lemma for each *)
(* of the last, for blocks ClaimsStay, ClaimAssigned and likewise.           *)
EXTENDS RoomInventory, TLAPS

-----------------------------------------------------------------------------
(* Stays are intervals of days.                                              *)

\* Both ends of a stay are integers, in order.
LEMMA StayEnds ==
  ASSUME NEW s \in Stays
  PROVE  s.from \in Days /\ s.to \in Days /\ s.from \in Int /\ s.to \in Int /\ s.from < s.to
  BY NightsAssumption DEF Stays, Days

\* Two nights are shared or not whichever stay is named first.
LEMMA OverlapCommutes ==
  ASSUME NEW s, NEW t
  PROVE  Overlap(s, t) <=> Overlap(t, s)
  BY DEF Overlap

\* A stay that meets neither the old nights nor the added ones does not meet
\* the extended stay.
LEMMA ExtensionAddsNights ==
  ASSUME NEW s \in Stays, NEW t \in Stays, NEW d \in Days, d > s.to,
         ~Overlap(s, t), ~Overlap(Added(s, d), t)
  PROVE  ~Overlap(Until(s, d), t)
  <1>1. /\ s.from \in Int /\ s.to \in Int /\ s.from < s.to
        /\ t.from \in Int /\ t.to \in Int /\ t.from < t.to
    BY StayEnds
  <1>2. d \in Int
    BY NightsAssumption DEF Days
  <1> QED
    BY <1>1, <1>2 DEF Overlap, Until, Added

\* A later departure makes a stay of a stay.
LEMMA ExtendedStay ==
  ASSUME NEW s \in Stays, NEW d \in Days, d > s.to
  PROVE  Until(s, d) \in Stays
  <1>1. s.from \in Days /\ s.to \in Int /\ s.from \in Int /\ s.from < s.to
    BY StayEnds
  <1>2. d \in Int
    BY NightsAssumption DEF Days
  <1> QED
    BY <1>1, <1>2 DEF Stays, Until

-----------------------------------------------------------------------------
(* Plans.                                                                    *)

\* What an extension may propose: rooms, or none, for some reservations.
Releases == UNION {[M -> Rooms \cup {NoRoom}] : M \in SUBSET Reservations}

\* A plan gives rooms to some reservations; a release may also give none.
LEMMA PlanShape ==
  /\ \A moves \in Plans : DOMAIN moves \subseteq Reservations
                          /\ \A r \in DOMAIN moves : moves[r] \in Rooms
  /\ \A moves \in Releases : DOMAIN moves \subseteq Reservations
                             /\ \A r \in DOMAIN moves : moves[r] \in Rooms \cup {NoRoom}
  BY DEF Plans, Releases

\* The moves an extension makes.
LEMMA ExtensionMoves ==
  ASSUME NEW r \in Reservations, NEW d \in Days, ExtendStay(r, d)
  PROVE  \E moves \in Releases :
           /\ DOMAIN moves = Displaced(r, d)
           /\ \A x \in DOMAIN moves : MayGiveWay(x)
           /\ GiveWay(r, moves)
           /\ MoveAll(moves)
           /\ raced' = raced \ DOMAIN moves
  <1>1. Displaced(r, d) \subseteq Reservations
    BY DEF Displaced, InTheWay
  <1>2. PICK moves \in [Displaced(r, d) -> Rooms \cup {NoRoom}] :
          GiveWay(r, moves) /\ MoveAll(moves)
    BY DEF ExtendStay
  <1>3. moves \in Releases /\ DOMAIN moves = Displaced(r, d)
    BY <1>1 DEF Releases
  <1> QED
    BY <1>2, <1>3 DEF ExtendStay

-----------------------------------------------------------------------------
(* Type correctness.                                                         *)

\* A reservation given another room and other nights.
LEMMA AssignTypes ==
  ASSUME TypeOK, NEW r \in Reservations, NEW q \in Rooms \cup {NoRoom}, NEW s \in Stays,
         Assign(r, q, s)
  PROVE  /\ room' \in [Reservations -> Rooms \cup {NoRoom}]
         /\ stay' \in [Reservations -> Stays]
         /\ raced' \subseteq Reservations
  BY DEF TypeOK, Assign

\* A grouped move gives rooms to reservations.
LEMMA MoveAllTypes ==
  ASSUME TypeOK, NEW moves, DOMAIN moves \subseteq Reservations,
         \A r \in DOMAIN moves : moves[r] \in Rooms \cup {NoRoom},
         MoveAll(moves)
  PROVE  /\ room' \in [Reservations -> Rooms \cup {NoRoom}]
         /\ grouped' \in [Reservations -> Moves \cup {NoRoom}]
  <1>1. \A x \in Reservations :
          NoRoom \notin {room[x], moves[x]} /\ x \in DOMAIN moves =>
            room[x] \in Rooms /\ moves[x] \in Rooms
    BY DEF TypeOK
  <1> QED
    BY <1>1 DEF TypeOK, MoveAll, Moves

\* Every step keeps the types.
LEMMA TypeStep == TypeOK /\ [Next]_vars => TypeOK'
  <1> SUFFICES ASSUME TypeOK, [Next]_vars PROVE TypeOK'
    OBVIOUS
  <1>1. ASSUME NEW r \in Reservations,
               RegisterPayment(r) \/ CheckIn(r) \/ CheckOut(r) \/ Cancel(r) \/ MarkNoShow(r)
        PROVE  TypeOK'
    BY <1>1 DEF TypeOK, Phases, SetPhase, RegisterPayment, CheckIn, CheckOut, Cancel, MarkNoShow
  <1>2. ASSUME NEW r \in Reservations, CommitDates(r) PROVE TypeOK'
    BY <1>2 DEF TypeOK, CommitDates
  <1>3. ASSUME NEW r \in Reservations, WriteNoShow(r) PROVE TypeOK'
    BY <1>3 DEF TypeOK, Phases, SetPhase, WriteNoShow
  <1>4. ASSUME NEW r \in Reservations, RevertMove(r) PROVE TypeOK'
    <2>1. grouped[r] \in Moves /\ stay[r] \in Stays
      BY <1>4 DEF TypeOK, RevertMove
    <2>2. grouped[r].from \in Rooms \cup {NoRoom}
      BY <2>1 DEF Moves
    <2>3. Assign(r, grouped[r].from, stay[r])
      BY <1>4 DEF RevertMove
    <2>4. grouped' \in [Reservations -> Moves \cup {NoRoom}]
      BY <1>4 DEF TypeOK, RevertMove
    <2> QED
      BY <1>4, <2>1, <2>2, <2>3, <2>4, AssignTypes DEF TypeOK, RevertMove
  <1>5. ASSUME NEW r \in Reservations, NEW q \in Rooms, MoveRoom(r, q) \/ AutoAssign(r, q)
        PROVE  TypeOK'
    <2>1. stay[r] \in Stays
      BY DEF TypeOK
    <2>2. Assign(r, q, stay[r])
      BY <1>5 DEF MoveRoom, AutoAssign
    <2> QED
      BY <1>5, <2>1, <2>2, AssignTypes DEF TypeOK, MoveRoom, AutoAssign
  <1>6. ASSUME NEW r \in Reservations, NEW s \in Stays, CheckDates(r, s) PROVE TypeOK'
    BY <1>6 DEF TypeOK, CheckDates
  <1>7. ASSUME NEW r \in Reservations, NEW q \in Rooms, NEW s \in Stays, EditRoom(r, q, s)
        PROVE  TypeOK'
    BY <1>7, AssignTypes DEF TypeOK, EditRoom
  <1>8. ASSUME NEW r \in Reservations, NEW q \in Rooms, NEW s \in Stays, OtaModify(r, q, s)
        PROVE  TypeOK'
    <2>1. Assign(r, q, s)
      BY <1>8 DEF OtaModify
    <2>2. phase' \in [Reservations -> Phases]
      BY <1>8 DEF OtaModify, TypeOK, SetPhase, Upcoming, Phases
    <2> QED
      BY <1>8, <2>1, <2>2, AssignTypes DEF TypeOK, OtaModify
  <1>9. ASSUME NEW r \in Reservations, NEW q \in Rooms \cup {NoRoom}, NEW s \in Stays,
               CreateReservation(r, q, s)
        PROVE  TypeOK'
    BY <1>9, AssignTypes DEF TypeOK, CreateReservation, SetPhase, Phases
  <1>10. ASSUME NEW r \in Reservations, NEW q \in Rooms \cup {NoRoom}, NEW s \in Stays,
                NEW n \in Reservations, RecreateWithDates(r, n, q, s)
         PROVE  TypeOK'
    BY <1>10, AssignTypes DEF TypeOK, RecreateWithDates, Phases
  <1>11. ASSUME NEW r \in Reservations, NEW d \in Days, ExtendStay(r, d) PROVE TypeOK'
    <2>1. PICK moves \in Releases : MoveAll(moves) /\ raced' = raced \ DOMAIN moves
      BY <1>11, ExtensionMoves
    <2>2. Until(stay[r], d) \in Stays
      BY <1>11, ExtendedStay DEF ExtendStay, TypeOK
    <2>3. stay' \in [Reservations -> Stays]
      BY <1>11, <2>2 DEF ExtendStay, TypeOK
    <2> QED
      BY <1>11, <2>1, <2>3, PlanShape, MoveAllTypes DEF TypeOK, ExtendStay
  <1>12. ASSUME NEW moves \in Plans, AcceptAllocation(moves) PROVE TypeOK'
    BY <1>12, PlanShape, MoveAllTypes DEF TypeOK, AcceptAllocation
  <1>13. ASSUME NEW q \in Rooms, NEW d \in Days, ExtendBlock(q, d) PROVE TypeOK'
    <2>1. Until(block[q], d) \in Stays
      BY <1>13, ExtendedStay DEF ExtendBlock, TypeOK
    <2>2. block' \in [Rooms -> Stays \cup {NoStay}]
      BY <1>13, <2>1 DEF ExtendBlock, TypeOK
    <2> QED
      BY <1>13, <2>2, PlanShape, MoveAllTypes DEF TypeOK, ExtendBlock
  <1>14. ASSUME NEW q \in Rooms, ResolveBlock(q) \/ ToggleService(q) PROVE TypeOK'
    BY <1>14 DEF TypeOK, ResolveBlock, ToggleService
  <1>15. ASSUME NEW q \in Rooms, NEW s \in Stays, CreateBlock(q, s) PROVE TypeOK'
    BY <1>15 DEF TypeOK, CreateBlock
  <1>16. CASE ReadNoShows
    BY <1>16, SweepableAssumption DEF TypeOK, ReadNoShows
  <1>17. CASE UNCHANGED vars
    BY <1>17 DEF TypeOK, vars
  <1> QED
    BY <1>1, <1>2, <1>3, <1>4, <1>5, <1>6, <1>7, <1>8, <1>9, <1>10, <1>11, <1>12, <1>13,
       <1>14, <1>15, <1>16, <1>17 DEF Next

\* The types hold at first.
LEMMA InitTypes == Init => TypeOK
  <1>1. [from |-> 1, to |-> 2] \in Stays
    BY NightsAssumption DEF Stays, Days
  <1> QED
    BY <1>1 DEF Init, TypeOK, Phases

\* Reservations, rooms, dates, blocks and pending edits keep their types along
\* every behaviour of the services.
THEOREM TypeCorrectness == Spec => []TypeOK
  BY InitTypes, TypeStep, PTL DEF Spec

-----------------------------------------------------------------------------
(* Clashes.                                                                  *)

\* A free room has no block and no claim of another reservation in the nights
\* it is free for, and is a room.
LEMMA FreeRoom ==
  ASSUME TypeOK, NEW r, NEW q, NEW s, Free(q, s, r)
  PROVE  /\ q \in Rooms /\ q # NoRoom /\ ~Blocked(q, s)
         /\ \A x \in Reservations \ {r} : ~Claims(x, q, s)
  BY NoRoomAssumption DEF Free, TypeOK

\* A step that adds no clash, and leaves the members of M without any.
AddsNoClash(M) ==
  \A a, b \in Reservations : Clash(a, b)' => Clash(a, b) /\ a \notin M /\ b \notin M

\* Two claims clash whichever is named first, before a step and after it.
LEMMA ClashCommutes ==
  ASSUME NEW a, NEW b
  PROVE  (Clash(a, b) <=> Clash(b, a)) /\ (Clash(a, b)' <=> Clash(b, a)')
  BY DEF Clash, Overlap

\* A step that moves no claim and revives none.
LEMMA StillClaimsAddNoClash ==
  ASSUME \A x \in Reservations :
           /\ room'[x] = room[x] /\ stay'[x] = stay[x]
           /\ phase'[x] \in Holding => phase[x] \in Holding
  PROVE  AddsNoClash({})
  BY DEF AddsNoClash, Clash, Overlap

\* A step that gives r the room q during s, when no claim that is left by then
\* lies there.
LEMMA AssignedAddsNoClash ==
  ASSUME TypeOK, NEW r \in Reservations, NEW q, NEW s, Assign(r, q, s),
         q # NoRoom => \A x \in Reservations \ {r} : phase'[x] \in Holding => ~Claims(x, q, s),
         \A x \in Reservations \ {r} : phase'[x] \in Holding => phase[x] \in Holding
  PROVE  AddsNoClash({r})
  <1>1. /\ room'[r] = q /\ stay'[r] = s
        /\ \A x \in Reservations \ {r} : room'[x] = room[x] /\ stay'[x] = stay[x]
    BY DEF TypeOK, Assign
  <1>2. ASSUME NEW x \in Reservations \ {r} PROVE ~Clash(r, x)' /\ ~Clash(x, r)'
    BY <1>1, <1>2 DEF Clash, Claims, Overlap
  <1>3. ASSUME NEW a \in Reservations \ {r}, NEW b \in Reservations \ {r}, Clash(a, b)'
        PROVE  Clash(a, b)
    BY <1>1, <1>3 DEF Clash, Overlap
  <1>4. ~Clash(r, r)'
    BY DEF Clash
  <1> QED
    BY <1>2, <1>3, <1>4 DEF AddsNoClash

\* A plan that fits: its members are apart from the others and from each other.
LEMMA PlanAddsNoClash ==
  ASSUME TypeOK, NEW moves \in Plans, PlanFits(moves), MoveAll(moves), phase' = phase, stay' = stay
  PROVE  AddsNoClash(DOMAIN moves)
  <1> DEFINE M == DOMAIN moves
  <1>1. /\ M \subseteq Reservations
        /\ \A x \in M : room'[x] = moves[x] /\ moves[x] # NoRoom
        /\ \A x \in Reservations \ M : room'[x] = room[x]
    BY PlanShape, NoRoomAssumption DEF MoveAll
  <1>2. ASSUME NEW x \in M, NEW y \in Reservations PROVE ~Clash(x, y)'
    <2>1. CASE y \in M
      BY <2>1, <1>1 DEF PlanFits, Disjoint, Clash, Overlap
    <2>2. CASE y \notin M
      BY <2>2, <1>1 DEF PlanFits, Claims, Clash, Overlap
    <2> QED
      BY <2>1, <2>2
  <1>3. ASSUME NEW a \in Reservations, NEW b \in Reservations, Clash(a, b)'
        PROVE  Clash(a, b) /\ a \notin M /\ b \notin M
    <2>1. a \notin M /\ b \notin M
      BY <1>2, <1>3, ClashCommutes
    <2> QED
      BY <2>1, <1>1, <1>3 DEF Clash, Overlap
  <1> QED
    BY <1>3 DEF AddsNoClash

\* extend_reservation_stay: what was in the way has moved to free rooms or has
\* none, and the added nights are clear.
LEMMA ExtendStayAddsNoClash ==
  ASSUME TypeOK, NEW r \in Reservations, NEW d \in Days, ExtendStay(r, d)
  PROVE  AddsNoClash(Displaced(r, d))
  <1>0. PICK moves \in Releases :
          /\ DOMAIN moves = Displaced(r, d)
          /\ GiveWay(r, moves) /\ MoveAll(moves)
          /\ raced' = raced \ DOMAIN moves
    BY ExtensionMoves
  <1> DEFINE M == DOMAIN moves
  <1>1. /\ M \subseteq Reservations
        /\ phase' = phase /\ block' = block /\ raced' = raced \ M
        /\ \A x \in M : room'[x] = moves[x]
        /\ \A x \in Reservations \ M : room'[x] = room[x]
        /\ stay'[r] = Until(stay[r], d)
        /\ \A x \in Reservations \ {r} : stay'[x] = stay[x]
    BY <1>0, PlanShape DEF ExtendStay, MoveAll, TypeOK
  <1>2. r \notin M
    BY <1>0 DEF Displaced, InTheWay
  <1>3. \A x \in M : moves[x] # NoRoom =>
          moves[x] # room[r] /\ Free(moves[x], stay[x], x) /\ room[r] # NoRoom
    BY <1>0 DEF Displaced, GiveWay
  <1>4. ASSUME NEW x \in M, NEW y \in Reservations PROVE ~Clash(x, y)'
    <2>1. CASE moves[x] = NoRoom
      BY <2>1, <1>1 DEF Clash
    <2>2. CASE moves[x] # NoRoom /\ y = r
      BY <2>2, <1>1, <1>2, <1>3 DEF Clash
    <2>3. CASE moves[x] # NoRoom /\ y \in M
      <3>1. Disjoint(moves)
        BY <1>0 DEF GiveWay
      <3> QED
        BY <3>1, <2>3, <1>1, <1>2 DEF Disjoint, Clash, Overlap
    <2>4. CASE moves[x] # NoRoom /\ y # r /\ y \notin M
      <3>1. y # x /\ ~Claims(y, moves[x], stay[x])
        BY <2>4, <1>3, FreeRoom
      <3> QED
        BY <3>1, <2>4, <1>1, <1>2 DEF Claims, Clash, Overlap
    <2> QED
      BY <2>1, <2>2, <2>3, <2>4
  <1>5. ASSUME NEW y \in Reservations \ M, y # r, ~Clash(r, y)
        PROVE  ~Clash(r, y)'
    <2> SUFFICES ASSUME phase[r] \in Holding, phase[y] \in Holding, room[y] = room[r], room[r] # NoRoom
                 PROVE  ~Overlap(Until(stay[r], d), stay[y])
      BY <1>1, <1>2, <1>5 DEF Clash, Overlap
    <2>1. ~Overlap(stay[r], stay[y])
      BY <1>5 DEF Clash
    <2>2. ~Overlap(Added(stay[r], d), stay[y])
      BY <1>0, <1>5 DEF Displaced, InTheWay, Claims, Overlap
    <2>3. stay[r] \in Stays /\ stay[y] \in Stays /\ d > stay[r].to
      BY <1>5 DEF TypeOK, ExtendStay
    <2> QED
      BY <2>1, <2>2, <2>3, ExtensionAddsNights
  <1>6. ASSUME NEW x \in Reservations, NEW y \in Reservations, Clash(x, y)'
        PROVE  Clash(x, y) /\ x \notin M /\ y \notin M
    <2>1. x \notin M /\ y \notin M
      BY <1>4, <1>6, ClashCommutes
    <2>2. CASE x # r /\ y # r
      BY <2>1, <2>2, <1>1, <1>6 DEF Clash, Overlap
    <2>3. CASE x = r /\ y # r
      BY <2>1, <2>3, <1>5, <1>6
    <2>4. CASE x # r /\ y = r
      BY <2>1, <2>4, <1>5, <1>6, ClashCommutes
    <2>5. CASE x = y
      BY <2>5, <1>6 DEF Clash
    <2> QED
      BY <2>1, <2>2, <2>3, <2>4, <2>5
  <1> QED
    BY <1>0, <1>6 DEF AddsNoClash

\* Each step names the reservations it moves, and adds no clash unless it is one
\* of the two that write without a lock on the room.
LEMMA ClashStep ==
  ASSUME TypeOK, [Next]_vars,
         ~ \E r \in Reservations : CommitDates(r) \/ WriteNoShow(r)
  PROVE  \E M \in SUBSET Reservations : AddsNoClash(M) /\ raced' = raced \ M
  <1> DEFINE Clear == \E M \in SUBSET Reservations : AddsNoClash(M) /\ raced' = raced \ M
  <1>1. ASSUME NEW r \in Reservations,
               RegisterPayment(r) \/ CheckIn(r) \/ CheckOut(r) \/ Cancel(r) \/ MarkNoShow(r)
        PROVE  Clear
    <2>1. \A x \in Reservations : phase'[x] \in Holding => phase[x] \in Holding
      BY <1>1 DEF TypeOK, SetPhase, Upcoming, Holding,
                  RegisterPayment, CheckIn, CheckOut, Cancel, MarkNoShow
    <2>2. UNCHANGED <<room, stay, raced>>
      BY <1>1 DEF RegisterPayment, CheckIn, CheckOut, Cancel, MarkNoShow
    <2> QED
      BY <2>1, <2>2, StillClaimsAddNoClash
  <1>2. ASSUME NEW r \in Reservations, NEW q, NEW s, Assign(r, q, s),
               q # NoRoom => \A x \in Reservations \ {r} : phase'[x] \in Holding => ~Claims(x, q, s),
               \A x \in Reservations \ {r} : phase'[x] \in Holding => phase[x] \in Holding
        PROVE  Clear
    <2>1. AddsNoClash({r}) /\ {r} \in SUBSET Reservations /\ raced' = raced \ {r}
      BY <1>2, AssignedAddsNoClash DEF Assign
    <2> QED
      BY <2>1
  <1>3. ASSUME NEW r \in Reservations, NEW q, NEW s, Free(q, s, r), Assign(r, q, s),
               \A x \in Reservations \ {r} : phase'[x] = phase[x]
        PROVE  Clear
    BY <1>2, <1>3, FreeRoom
  <1>4. ASSUME NEW r \in Reservations,
               \/ RevertMove(r)
               \/ \E q \in Rooms : MoveRoom(r, q) \/ AutoAssign(r, q)
               \/ \E q \in Rooms, s \in Stays : EditRoom(r, q, s)
        PROVE  Clear
    <2>1. \E q, s : Free(q, s, r) /\ Assign(r, q, s)
      BY <1>4 DEF RevertMove, MoveRoom, AutoAssign, EditRoom
    <2>2. phase' = phase
      BY <1>4 DEF RevertMove, MoveRoom, AutoAssign, EditRoom
    <2> QED
      BY <2>1, <2>2, <1>3
  <1>5. ASSUME NEW r \in Reservations, NEW q \in Rooms, NEW s \in Stays, OtaModify(r, q, s)
        PROVE  Clear
    <2>1. \A x \in Reservations \ {r} : phase'[x] = phase[x]
      BY <1>5 DEF OtaModify, SetPhase, TypeOK
    <2> QED
      BY <2>1, <1>3, <1>5 DEF OtaModify
  <1>6. ASSUME NEW r \in Reservations, NEW q \in Rooms \cup {NoRoom}, NEW s \in Stays,
               CreateReservation(r, q, s)
        PROVE  Clear
    <2>1. \A x \in Reservations \ {r} : phase'[x] = phase[x]
      BY <1>6 DEF CreateReservation, SetPhase, TypeOK
    <2>2. (q # NoRoom => Free(q, s, r)) /\ Assign(r, q, s)
      BY <1>6 DEF CreateReservation
    <2> QED
      BY <2>1, <2>2, <1>2, FreeRoom
  <1>7. ASSUME NEW r \in Reservations, NEW q \in Rooms \cup {NoRoom}, NEW s \in Stays,
               NEW n \in Reservations, RecreateWithDates(r, n, q, s)
        PROVE  Clear
    <2>1. /\ n # r /\ phase'[r] = "cancelled"
          /\ \A x \in Reservations \ {r, n} : phase'[x] = phase[x]
      BY <1>7 DEF RecreateWithDates, TypeOK
    <2>2. (q # NoRoom => Free(q, s, r)) /\ Assign(n, q, s)
      BY <1>7 DEF RecreateWithDates
    <2>3. q # NoRoom => \A x \in Reservations \ {r} : ~Claims(x, q, s)
      BY <2>2, FreeRoom
    <2>4. \A x \in Reservations \ {n} : phase'[x] \in Holding => x # r /\ phase[x] \in Holding
      BY <2>1 DEF Holding
    <2> QED
      BY <2>2, <2>3, <2>4, <1>2
  <1>8. ASSUME NEW r \in Reservations, NEW d \in Days, ExtendStay(r, d) PROVE Clear
    <2>1. Displaced(r, d) \in SUBSET Reservations
      BY DEF Displaced, InTheWay
    <2>2. raced' = raced \ Displaced(r, d)
      BY <1>8 DEF ExtendStay
    <2> QED
      BY <2>1, <2>2, <1>8, ExtendStayAddsNoClash
  <1>9. ASSUME \/ \E moves \in Plans : AcceptAllocation(moves)
               \/ \E q \in Rooms, d \in Days : ExtendBlock(q, d)
        PROVE  Clear
    <2>1. PICK moves \in Plans : /\ PlanFits(moves) /\ MoveAll(moves)
                                 /\ raced' = raced \ DOMAIN moves
      BY <1>9 DEF AcceptAllocation, ExtendBlock
    <2>2. phase' = phase /\ stay' = stay
      BY <1>9 DEF AcceptAllocation, ExtendBlock
    <2>3. AddsNoClash(DOMAIN moves)
      BY <2>1, <2>2, PlanAddsNoClash
    <2> QED
      BY <2>1, <2>3, PlanShape
  <1>10. ASSUME \/ ReadNoShows \/ UNCHANGED vars
                \/ \E r \in Reservations, s \in Stays : CheckDates(r, s)
                \/ \E q \in Rooms : \/ ResolveBlock(q) \/ ToggleService(q)
                                    \/ \E s \in Stays : CreateBlock(q, s)
         PROVE  Clear
    <2>1. UNCHANGED <<phase, room, stay, raced>>
      BY <1>10 DEF ReadNoShows, CheckDates, ResolveBlock, ToggleService, CreateBlock, vars
    <2> QED
      BY <2>1, StillClaimsAddNoClash
  <1> QED
    BY <1>1, <1>4, <1>5, <1>6, <1>7, <1>8, <1>9, <1>10 DEF Next

\* Overbooking needs a step that adds a clash of claims that are not raced.
LEMMA OverbookingStep == TypeOK /\ DoubleBookingNeedsARace /\ [Next]_vars => DoubleBookingNeedsARace'
  <1> SUFFICES ASSUME TypeOK, DoubleBookingNeedsARace, [Next]_vars,
                      NEW a \in Reservations \ raced', NEW b \in Reservations \ raced', Clash(a, b)'
               PROVE  FALSE
    BY DEF DoubleBookingNeedsARace, Clash
  <1>1. ASSUME NEW r \in Reservations, CommitDates(r) PROVE FALSE
    <2>1. a # r /\ b # r /\ a \notin raced /\ b \notin raced
      BY <1>1 DEF CommitDates
    <2>2. Clash(a, b)
      BY <1>1, <2>1 DEF Clash, Overlap, CommitDates, TypeOK
    <2> QED
      BY <2>1, <2>2 DEF DoubleBookingNeedsARace
  <1>2. ASSUME NEW r \in Reservations, WriteNoShow(r) PROVE FALSE
    <2>1. a # r /\ b # r /\ a \notin raced /\ b \notin raced
      BY <1>2 DEF WriteNoShow
    <2>2. Clash(a, b)
      BY <1>2, <2>1 DEF Clash, Overlap, WriteNoShow, SetPhase, TypeOK
    <2> QED
      BY <2>1, <2>2 DEF DoubleBookingNeedsARace
  <1>3. CASE ~ \E r \in Reservations : CommitDates(r) \/ WriteNoShow(r)
    <2>1. PICK M \in SUBSET Reservations : AddsNoClash(M) /\ raced' = raced \ M
      BY <1>3, ClashStep
    <2>2. Clash(a, b) /\ a \notin M /\ b \notin M
      BY <2>1 DEF AddsNoClash
    <2> QED
      BY <2>1, <2>2 DEF DoubleBookingNeedsARace
  <1> QED
    BY <1>1, <1>2, <1>3

\* Overbooking needs a path that does not lock the room: of two claims on one
\* room and night, one was last written by a change of dates alone or by the
\* analytics no-show task.  Creation, edits of the room, moves and their
\* reversal, extensions, blocks and accepted plans cannot do it in any order.
THEOREM OverbookingNeedsARace == Spec => []DoubleBookingNeedsARace
  <1>1. Init => DoubleBookingNeedsARace
    BY DEF Init, DoubleBookingNeedsARace, Clash, Holding
  <1> QED
    BY <1>1, OverbookingStep, TypeCorrectness, PTL DEF Spec

\* A step of those two paths adds clashes of the reservation it writes only.
LEMMA RacesClashThemselves ==
  ASSUME TypeOK, [Next]_vars, NEW a \in Reservations, NEW b \in Reservations, Clash(a, b)'
  PROVE  Clash(a, b) \/ \E r \in {a, b} : CommitDates(r) \/ WriteNoShow(r)
  <1>1. ASSUME NEW r \in Reservations, CommitDates(r) \/ WriteNoShow(r), r \notin {a, b}
        PROVE  Clash(a, b)
    BY <1>1 DEF Clash, Overlap, CommitDates, WriteNoShow, SetPhase, TypeOK
  <1>2. CASE ~ \E r \in Reservations : CommitDates(r) \/ WriteNoShow(r)
    BY <1>2, ClashStep DEF AddsNoClash
  <1> QED
    BY <1>1, <1>2

\* No locked path adds a clash, whatever clashes already: extending, moving or
\* planning around an overbooked room leaves it no worse.
THEOREM LockedPathsAreSafe == Spec => LockedPathsAddNoClash
  <1>1. TypeOK /\ [Next]_vars =>
          [\A a, b \in Reservations :
             Clash(a, b)' => Clash(a, b) \/ \E r \in {a, b} : CommitDates(r) \/ WriteNoShow(r)]_vars
    BY RacesClashThemselves
  <1> QED
    BY <1>1, TypeCorrectness, PTL DEF Spec, LockedPathsAddNoClash

-----------------------------------------------------------------------------
(* Blocks.                                                                   *)

\* A step that adds no claim that counts, and extends no block.
LEMMA ClaimsStay ==
  ASSUME BlockedNightsAreClear,
         \A x \in Reservations \ raced' :
           /\ x \notin raced /\ room'[x] = room[x] /\ stay'[x] = stay[x]
           /\ phase'[x] \in Holding => phase[x] \in Holding,
         \A q : block'[q] = block[q]
  PROVE  BlockedNightsAreClear'
  BY DEF BlockedNightsAreClear, Blocked, Overlap

\* A step that gives r the room q during s, when no block lies there.
LEMMA ClaimAssigned ==
  ASSUME TypeOK, BlockedNightsAreClear,
         NEW r \in Reservations, NEW q, NEW s, Assign(r, q, s),
         q # NoRoom => ~Blocked(q, s),
         \A x \in Reservations \ {r} : phase'[x] \in Holding => phase[x] \in Holding,
         UNCHANGED block
  PROVE  BlockedNightsAreClear'
  <1>1. /\ room'[r] = q /\ stay'[r] = s
        /\ \A x \in Reservations \ {r} : room'[x] = room[x] /\ stay'[x] = stay[x]
        /\ \A x \in Reservations \ {r} : x \notin raced' => x \notin raced
    BY DEF TypeOK, Assign
  <1>2. ASSUME NEW x \in Reservations \ raced', phase'[x] \in Holding, room'[x] # NoRoom
        PROVE  ~Blocked(room[x], stay[x])'
    <2>1. CASE x = r
      BY <2>1, <1>1, <1>2 DEF Blocked, Overlap
    <2>2. CASE x # r
      BY <2>2, <1>1, <1>2 DEF BlockedNightsAreClear, Blocked, Overlap
    <2> QED
      BY <2>1, <2>2
  <1> QED
    BY <1>2 DEF BlockedNightsAreClear

\* extend_reservation_stay: the nights it adds are not blocked, nor are those of
\* the rooms the displaced get.
LEMMA ExtendStayMeetsNoBlock ==
  ASSUME TypeOK, BlockedNightsAreClear, NEW r \in Reservations, NEW d \in Days, ExtendStay(r, d)
  PROVE  BlockedNightsAreClear'
  <1>0. PICK moves \in Releases :
          /\ DOMAIN moves = Displaced(r, d)
          /\ GiveWay(r, moves) /\ MoveAll(moves)
          /\ raced' = raced \ DOMAIN moves
    BY ExtensionMoves
  <1> DEFINE M == DOMAIN moves
  <1>1. /\ M \subseteq Reservations
        /\ phase' = phase /\ block' = block /\ raced' = raced \ M
        /\ \A x \in M : room'[x] = moves[x]
        /\ \A x \in Reservations \ M : room'[x] = room[x]
        /\ stay'[r] = Until(stay[r], d)
        /\ \A x \in Reservations \ {r} : stay'[x] = stay[x]
    BY <1>0, PlanShape DEF ExtendStay, MoveAll, TypeOK
  <1>2. r \notin M
    BY <1>0 DEF Displaced, InTheWay
  <1>3. \A x \in M : moves[x] # NoRoom =>
          moves[x] # room[r] /\ Free(moves[x], stay[x], x) /\ room[r] # NoRoom
    BY <1>0 DEF Displaced, GiveWay
  <1>4. ASSUME NEW x \in Reservations \ raced', phase'[x] \in Holding, room'[x] # NoRoom
        PROVE  ~Blocked(room[x], stay[x])'
    <2>1. CASE x \in M
      <3>1. ~Blocked(moves[x], stay[x])
        BY <2>1, <1>1, <1>3, <1>4, FreeRoom
      <3> QED
        BY <3>1, <2>1, <1>1, <1>2 DEF Blocked, Overlap
    <2>2. CASE x = r
      <3>1. room[r] \in Rooms /\ room'[r] = room[r]
        BY <2>2, <1>1, <1>2, <1>4 DEF TypeOK
      <3>2. ~Blocked(room[r], stay[r]) /\ ~Blocked(room[r], Added(stay[r], d))
        BY <3>1, <2>2, <1>1, <1>2, <1>4
           DEF BlockedNightsAreClear, ExtendStay
      <3>3. block[room[r]] # NoStay => ~Overlap(Until(stay[r], d), block[room[r]])
        <4>1. ASSUME block[room[r]] # NoStay
              PROVE  ~Overlap(Until(stay[r], d), block[room[r]])
          <5>1. /\ stay[r] \in Stays /\ block[room[r]] \in Stays /\ d > stay[r].to
                /\ ~Overlap(stay[r], block[room[r]])
                /\ ~Overlap(Added(stay[r], d), block[room[r]])
            BY <3>1, <3>2, <4>1, OverlapCommutes DEF TypeOK, ExtendStay, Blocked
          <5> QED
            BY <5>1, ExtensionAddsNights
        <4> QED
          BY <4>1
      <3> QED
        BY <3>1, <3>3, <2>2, <1>1, OverlapCommutes DEF Blocked
    <2>3. CASE x \notin M /\ x # r
      BY <2>3, <1>1, <1>4 DEF BlockedNightsAreClear, Blocked, Overlap
    <2> QED
      BY <2>1, <2>2, <2>3
  <1> QED
    BY <1>4 DEF BlockedNightsAreClear

\* Whatever a plan that fits gives or leaves a room is off the blocks there are.
LEMMA PlanMeetsNoBlock ==
  ASSUME TypeOK, BlockedNightsAreClear, NEW moves \in Plans, PlanFits(moves), MoveAll(moves),
         phase' = phase, raced' = raced \ DOMAIN moves,
         NEW r \in Reservations \ raced', phase'[r] \in Holding, room'[r] # NoRoom
  PROVE  ~Blocked(room'[r], stay[r])
  <1>1. /\ \A x \in DOMAIN moves : room'[x] = moves[x]
        /\ \A x \in Reservations \ DOMAIN moves : room'[x] = room[x]
    BY PlanShape DEF MoveAll
  <1> QED
    BY <1>1 DEF PlanFits, BlockedNightsAreClear

\* extend_block_with_allocation_plan leaves no claim under the longer block.
LEMMA ExtendBlockClearsNights ==
  ASSUME TypeOK, BlockedNightsAreClear, NEW q \in Rooms, NEW d \in Days, ExtendBlock(q, d)
  PROVE  BlockedNightsAreClear'
  <1>0. PICK moves \in Plans :
          /\ {r \in Reservations : Claims(r, q, Added(block[q], d))} \subseteq DOMAIN moves
          /\ \A r \in DOMAIN moves : moves[r] = q => ~Overlap(stay[r], Added(block[q], d))
          /\ PlanFits(moves) /\ MoveAll(moves)
          /\ raced' = raced \ DOMAIN moves
    BY DEF ExtendBlock
  <1> DEFINE M == DOMAIN moves
  <1>1. \A r \in Reservations \ raced' :
          phase'[r] \in Holding /\ room'[r] # NoRoom => ~Blocked(room'[r], stay[r])
    BY <1>0, PlanMeetsNoBlock DEF ExtendBlock
  <1>2. /\ phase' = phase /\ stay' = stay
        /\ block'[q] = Until(block[q], d)
        /\ \A x \in Rooms \ {q} : block'[x] = block[x]
    BY DEF ExtendBlock, TypeOK
  <1>3. /\ \A x \in M : x \in Reservations /\ room'[x] = moves[x]
        /\ \A x \in Reservations \ M : room'[x] = room[x]
    BY <1>0, PlanShape DEF MoveAll
  <1>4. ASSUME NEW r \in Reservations \ raced', phase'[r] \in Holding, room'[r] # NoRoom
        PROVE  ~Blocked(room[r], stay[r])'
    <2>1. CASE room'[r] # q
      <3>1. room'[r] \in Rooms
        BY <1>4, <1>3, PlanShape DEF TypeOK
      <3> QED
        BY <3>1, <2>1, <1>1, <1>2, <1>4 DEF Blocked, Overlap
    <2>2. CASE room'[r] = q
      <3>1. /\ block[q] \in Stays /\ d > block[q].to /\ stay[r] \in Stays
            /\ ~Overlap(block[q], stay[r])
        BY <2>2, <1>1, <1>4 DEF ExtendBlock, TypeOK, Blocked
      <3>2. ~Overlap(Added(block[q], d), stay[r])
        <4>1. CASE r \in M
          BY <4>1, <2>2, <1>0, <1>3, OverlapCommutes
        <4>2. CASE r \notin M
          <5>1. ~Claims(r, q, Added(block[q], d))
            BY <4>2, <1>0
          <5> QED
            BY <5>1, <4>2, <2>2, <1>2, <1>3, <1>4, OverlapCommutes DEF Claims
        <4> QED
          BY <4>1, <4>2
      <3>3. ~Overlap(Until(block[q], d), stay[r])
        BY <3>1, <3>2, ExtensionAddsNights
      <3> QED
        BY <3>3, <2>2, <1>2 DEF Blocked, Overlap
    <2> QED
      BY <2>1, <2>2
  <1> QED
    BY <1>4 DEF BlockedNightsAreClear

\* Every step keeps claims and blocks off each other.
LEMMA BlocksStep == TypeOK /\ BlockedNightsAreClear /\ [Next]_vars => BlockedNightsAreClear'
  <1> SUFFICES ASSUME TypeOK, BlockedNightsAreClear, [Next]_vars PROVE BlockedNightsAreClear'
    OBVIOUS
  <1>1. ASSUME NEW r \in Reservations,
               RegisterPayment(r) \/ CheckIn(r) \/ CheckOut(r) \/ Cancel(r) \/ MarkNoShow(r)
        PROVE  BlockedNightsAreClear'
    <2>1. \A x \in Reservations : phase'[x] \in Holding => phase[x] \in Holding
      BY <1>1 DEF TypeOK, SetPhase, Upcoming, Holding,
                  RegisterPayment, CheckIn, CheckOut, Cancel, MarkNoShow
    <2>2. UNCHANGED <<room, stay, block, raced>>
      BY <1>1 DEF RegisterPayment, CheckIn, CheckOut, Cancel, MarkNoShow
    <2> QED
      BY <2>1, <2>2, ClaimsStay
  <1>2. ASSUME NEW r \in Reservations, CommitDates(r) PROVE BlockedNightsAreClear'
    <2>1. \A x \in Reservations \ raced' : x \notin raced /\ stay'[x] = stay[x]
      BY <1>2 DEF TypeOK, CommitDates
    <2>2. UNCHANGED <<phase, room, block>>
      BY <1>2 DEF CommitDates
    <2> QED
      BY <2>1, <2>2, ClaimsStay
  <1>3. ASSUME NEW r \in Reservations, WriteNoShow(r) PROVE BlockedNightsAreClear'
    <2>1. \A x \in Reservations \ raced' : x \notin raced /\ phase'[x] = phase[x]
      BY <1>3 DEF TypeOK, SetPhase, WriteNoShow
    <2>2. UNCHANGED <<room, stay, block>>
      BY <1>3 DEF WriteNoShow
    <2> QED
      BY <2>1, <2>2, ClaimsStay
  <1>4. ASSUME NEW r \in Reservations, RevertMove(r) PROVE BlockedNightsAreClear'
    BY <1>4, FreeRoom, ClaimAssigned DEF RevertMove
  <1>5. ASSUME NEW r \in Reservations, NEW q \in Rooms, MoveRoom(r, q) \/ AutoAssign(r, q)
        PROVE  BlockedNightsAreClear'
    <2>1. /\ Free(q, stay[r], r) /\ Assign(r, q, stay[r])
          /\ UNCHANGED phase /\ UNCHANGED block
      BY <1>5 DEF MoveRoom, AutoAssign
    <2> QED
      BY <2>1, FreeRoom, ClaimAssigned
  <1>6. ASSUME NEW r \in Reservations, NEW s \in Stays, CheckDates(r, s) PROVE BlockedNightsAreClear'
    BY <1>6, ClaimsStay DEF CheckDates
  <1>7. ASSUME NEW r \in Reservations, NEW q \in Rooms, NEW s \in Stays, EditRoom(r, q, s)
        PROVE  BlockedNightsAreClear'
    BY <1>7, FreeRoom, ClaimAssigned DEF EditRoom
  <1>8. ASSUME NEW r \in Reservations, NEW q \in Rooms, NEW s \in Stays, OtaModify(r, q, s)
        PROVE  BlockedNightsAreClear'
    <2>1. \A x \in Reservations \ {r} : phase'[x] = phase[x]
      BY <1>8 DEF OtaModify, SetPhase, TypeOK
    <2>2. Free(q, s, r) /\ Assign(r, q, s) /\ UNCHANGED block
      BY <1>8 DEF OtaModify
    <2> QED
      BY <2>1, <2>2, FreeRoom, ClaimAssigned
  <1>9. ASSUME NEW r \in Reservations, NEW q \in Rooms \cup {NoRoom}, NEW s \in Stays,
               CreateReservation(r, q, s)
        PROVE  BlockedNightsAreClear'
    <2>1. \A x \in Reservations \ {r} : phase'[x] = phase[x]
      BY <1>9 DEF CreateReservation, SetPhase, TypeOK
    <2>2. (q # NoRoom => Free(q, s, r)) /\ Assign(r, q, s) /\ UNCHANGED block
      BY <1>9 DEF CreateReservation
    <2> QED
      BY <2>1, <2>2, FreeRoom, ClaimAssigned
  <1>10. ASSUME NEW r \in Reservations, NEW q \in Rooms \cup {NoRoom}, NEW s \in Stays,
                NEW n \in Reservations, RecreateWithDates(r, n, q, s)
         PROVE  BlockedNightsAreClear'
    <2>1. /\ n # r /\ phase'[r] = "cancelled"
          /\ \A x \in Reservations \ {r, n} : phase'[x] = phase[x]
      BY <1>10 DEF RecreateWithDates, TypeOK
    <2>2. (q # NoRoom => Free(q, s, r)) /\ Assign(n, q, s) /\ UNCHANGED block
      BY <1>10 DEF RecreateWithDates
    <2>3. q # NoRoom => ~Blocked(q, s)
      BY <2>2, FreeRoom
    <2>4. \A x \in Reservations \ {n} : phase'[x] \in Holding => phase[x] \in Holding
      BY <2>1 DEF Holding
    <2> QED
      BY <2>2, <2>3, <2>4, ClaimAssigned
  <1>11. ASSUME NEW r \in Reservations, NEW d \in Days, ExtendStay(r, d) PROVE BlockedNightsAreClear'
    BY <1>11, ExtendStayMeetsNoBlock
  <1>12. ASSUME NEW moves \in Plans, AcceptAllocation(moves) PROVE BlockedNightsAreClear'
    <2>1. \A r \in Reservations \ raced' :
            phase'[r] \in Holding /\ room'[r] # NoRoom => ~Blocked(room'[r], stay[r])
      BY <1>12, PlanMeetsNoBlock DEF AcceptAllocation
    <2>2. UNCHANGED <<stay, block>>
      BY <1>12 DEF AcceptAllocation
    <2> QED
      BY <2>1, <2>2 DEF BlockedNightsAreClear, Blocked, Overlap
  <1>13. ASSUME NEW q \in Rooms, NEW d \in Days, ExtendBlock(q, d) PROVE BlockedNightsAreClear'
    BY <1>13, ExtendBlockClearsNights
  <1>14. ASSUME NEW q \in Rooms, ResolveBlock(q) PROVE BlockedNightsAreClear'
    <2>1. UNCHANGED <<phase, room, stay, raced>>
      BY <1>14 DEF ResolveBlock
    <2>2. \A x \in Rooms : block'[x] = block[x] \/ block'[x] = NoStay
      BY <1>14 DEF ResolveBlock, TypeOK
    <2>3. ASSUME NEW x \in Reservations \ raced', phase'[x] \in Holding, room'[x] # NoRoom
          PROVE  ~Blocked(room[x], stay[x])'
      BY <2>1, <2>2, <2>3
         DEF TypeOK, BlockedNightsAreClear, Blocked, Overlap
    <2> QED
      BY <2>1, <2>3
         DEF BlockedNightsAreClear
  <1>15. ASSUME NEW q \in Rooms, NEW s \in Stays, CreateBlock(q, s) PROVE BlockedNightsAreClear'
    <2>1. UNCHANGED <<phase, room, stay, raced>>
      BY <1>15 DEF CreateBlock
    <2>2. block'[q] = s /\ \A x \in Rooms \ {q} : block'[x] = block[x]
      BY <1>15 DEF CreateBlock, TypeOK
    <2>3. ASSUME NEW x \in Reservations \ raced', phase'[x] \in Holding, room'[x] # NoRoom
          PROVE  ~Blocked(room[x], stay[x])'
      <3>1. CASE room[x] = q
        <4>1. ~Claims(x, q, s)
          BY <1>15 DEF CreateBlock
        <4> QED
          BY <4>1, <3>1, <2>1, <2>2, <2>3 DEF Claims, Blocked, Overlap
      <3>2. CASE room[x] # q
        BY <3>2, <2>1, <2>2, <2>3
           DEF TypeOK, BlockedNightsAreClear, Blocked, Overlap
      <3> QED
        BY <3>1, <3>2
    <2> QED
      BY <2>1, <2>3
         DEF BlockedNightsAreClear
  <1>16. ASSUME ReadNoShows \/ (\E q \in Rooms : ToggleService(q)) \/ UNCHANGED vars
         PROVE  BlockedNightsAreClear'
    <2>1. UNCHANGED <<phase, room, stay, block, raced>>
      BY <1>16 DEF ReadNoShows, ToggleService, vars
    <2> QED
      BY <2>1, ClaimsStay
  <1> QED
    BY <1>1, <1>2, <1>3, <1>4, <1>5, <1>6, <1>7, <1>8, <1>9, <1>10, <1>11, <1>12, <1>13,
       <1>14, <1>15, <1>16 DEF Next

\* No claim lies under an unresolved block, with the same exception: blocks and
\* claims check each other under the room's lock.
THEOREM BlocksAreRespected == Spec => []BlockedNightsAreClear
  <1>1. Init => BlockedNightsAreClear
    BY DEF Init, BlockedNightsAreClear, Holding
  <1> QED
    BY <1>1, BlocksStep, TypeCorrectness, PTL DEF Spec

-----------------------------------------------------------------------------
(* Rooms are not lost.                                                       *)

\* A grouped move of extend_reservation_stay takes rooms from unpaid reservations only.
LEMMA OnlyUnpaidGiveWay ==
  ASSUME TypeOK, NEW r \in Reservations, NEW d \in Days, ExtendStay(r, d)
  PROVE  \A x \in Reservations : phase[x] # "unpaid" => room'[x] = room[x]
  <1>1. PICK moves \in Releases : MoveAll(moves) /\ \A x \in DOMAIN moves : MayGiveWay(x)
    BY ExtensionMoves
  <1> QED
    BY <1>1 DEF MayGiveWay, MoveAll

\* A plan gives a room to whatever it moves.
LEMMA PlansGiveRooms ==
  ASSUME TypeOK, NEW moves \in Plans, MoveAll(moves)
  PROVE  \A x \in Reservations : room[x] # NoRoom => room'[x] # NoRoom
  BY PlanShape, NoRoomAssumption DEF MoveAll

\* No step takes its room from a reservation that paid or from a lodged guest.
LEMMA RoomsKeptStep ==
  ASSUME TypeOK, [Next]_vars, NEW x \in Reservations,
         phase[x] \in {"paid", "in_house"}, room[x] # NoRoom
  PROVE  room'[x] # NoRoom
  <1>1. ASSUME NEW r \in Reservations,
               \/ RegisterPayment(r) \/ CheckIn(r) \/ CheckOut(r) \/ Cancel(r)
               \/ MarkNoShow(r) \/ CommitDates(r) \/ WriteNoShow(r)
               \/ \E s \in Stays : CheckDates(r, s)
        PROVE  room'[x] # NoRoom
    BY <1>1 DEF RegisterPayment, CheckIn, CheckOut, Cancel, MarkNoShow, CommitDates,
                WriteNoShow, CheckDates
  <1>2. ASSUME NEW r \in Reservations, NEW q, NEW s, Free(q, s, r), Assign(r, q, s)
        PROVE  room'[x] # NoRoom
    <2>1. q # NoRoom
      BY <1>2, FreeRoom
    <2> QED
      BY <2>1, <1>2 DEF Assign, TypeOK
  <1>3. ASSUME NEW r \in Reservations,
               \/ RevertMove(r)
               \/ \E q \in Rooms : MoveRoom(r, q) \/ AutoAssign(r, q)
               \/ \E q \in Rooms, s \in Stays : EditRoom(r, q, s) \/ OtaModify(r, q, s)
        PROVE  room'[x] # NoRoom
    <2>1. \E q, s : Free(q, s, r) /\ Assign(r, q, s)
      BY <1>3 DEF RevertMove, MoveRoom, AutoAssign, EditRoom, OtaModify
    <2> QED
      BY <2>1, <1>2
  <1>4. ASSUME NEW r \in Reservations, NEW q \in Rooms \cup {NoRoom}, NEW s \in Stays,
               \/ CreateReservation(r, q, s)
               \/ \E n \in Reservations : RecreateWithDates(n, r, q, s)
        PROVE  room'[x] # NoRoom
    <2>1. phase[r] = "absent" /\ Assign(r, q, s)
      BY <1>4 DEF CreateReservation, RecreateWithDates
    <2> QED
      BY <2>1 DEF Assign, TypeOK
  <1>5. ASSUME NEW r \in Reservations, NEW d \in Days, ExtendStay(r, d) PROVE room'[x] # NoRoom
    BY <1>5, OnlyUnpaidGiveWay
  <1>6. ASSUME \/ \E moves \in Plans : AcceptAllocation(moves)
               \/ \E q \in Rooms, d \in Days : ExtendBlock(q, d)
        PROVE  room'[x] # NoRoom
    <2>1. PICK moves \in Plans : MoveAll(moves)
      BY <1>6 DEF AcceptAllocation, ExtendBlock
    <2> QED
      BY <2>1, PlansGiveRooms
  <1>7. ASSUME \/ ReadNoShows \/ UNCHANGED vars
               \/ \E q \in Rooms : \/ ResolveBlock(q) \/ ToggleService(q)
                                   \/ \E s \in Stays : CreateBlock(q, s)
        PROVE  room'[x] # NoRoom
    BY <1>7 DEF ReadNoShows, ResolveBlock, ToggleService, CreateBlock, vars
  <1> QED
    BY <1>1, <1>3, <1>4, <1>5, <1>6, <1>7 DEF Next

\* A reservation with a payment or deposit, once it has a room, has one after
\* every step, whatever extensions, plans, blocks and channels do around it.
THEOREM PaidRoomsAreKept == Spec => PaidStaysKeepARoom
  <1>1. TypeOK /\ [Next]_vars =>
          [\A r \in Reservations :
             phase[r] \in {"paid", "in_house"} /\ room[r] # NoRoom => room'[r] # NoRoom]_vars
    BY RoomsKeptStep
  <1> QED
    BY <1>1, TypeCorrectness, PTL DEF Spec, PaidStaysKeepARoom

\* A step leaves a lodged guest with a room: who enters has one, who is inside
\* keeps it.
LEMMA HousedStep == TypeOK /\ HousedGuestsHaveARoom /\ [Next]_vars => HousedGuestsHaveARoom'
  <1> SUFFICES ASSUME TypeOK, HousedGuestsHaveARoom, [Next]_vars,
                      NEW x \in Reservations, phase'[x] = "in_house"
               PROVE  room'[x] # NoRoom
    BY DEF HousedGuestsHaveARoom
  <1>1. CASE phase[x] = "in_house"
    BY <1>1, RoomsKeptStep DEF HousedGuestsHaveARoom
  <1>2. CASE phase[x] # "in_house"
    <2>1. \E r \in Reservations : CheckIn(r)
      BY <1>2 DEF Next, vars, TypeOK, SetPhase, Upcoming,
           RegisterPayment, CheckOut, Cancel, MarkNoShow, CommitDates, RevertMove, WriteNoShow,
           MoveRoom, AutoAssign, CheckDates, EditRoom, OtaModify, CreateReservation,
           RecreateWithDates, ExtendStay, AcceptAllocation, ResolveBlock, ToggleService,
           CreateBlock, ExtendBlock, ReadNoShows
    <2>2. PICK r \in Reservations : CheckIn(r)
      BY <2>1
    <2>3. x = r
      BY <2>2, <1>2 DEF CheckIn, SetPhase, TypeOK
    <2> QED
      BY <2>2, <2>3, NoRoomAssumption DEF CheckIn, TypeOK
  <1> QED
    BY <1>1, <1>2

\* A guest in the house has a room along every behaviour.
THEOREM GuestsHaveRooms == Spec => []HousedGuestsHaveARoom
  <1>1. Init => HousedGuestsHaveARoom
    BY DEF Init, HousedGuestsHaveARoom
  <1> QED
    BY <1>1, HousedStep, TypeCorrectness, PTL DEF Spec
=============================================================================
