\* Parties are CHECKED_IN from their first guest and managers leave the rooms of
\* guests alone; channels and the no-show task run.
SPECIFICATION Spec
CONSTANTS
  r1 = r1
  r2 = r2
  r3 = r3
  Reservations = {r1, r2, r3}
  Rooms = {q1, q2}
  NoRoom = NoRoom
  NoChecklist = NoChecklist
  Arrival <- ArrivalDay
  Departure <- DepartureDay
  Party <- PartySize
  LastDay = 3
  Policies = {"checked_in_on_first_guest"}
  Reviewed = {r1}
  OtaReservations = {r1}
  Sweeps = TRUE
  Overstays = FALSE
  HandSetOccupied = FALSE
SYMMETRY Symmetric
INVARIANTS
  TypeOK
  RoomBoardMatchesGuests
  OnePartyPerRoom
  UncleanedRoomsAreNotOffered
  ArrivalsAreKept
  ApprovedStaysCancelled
CHECK_DEADLOCK FALSE
