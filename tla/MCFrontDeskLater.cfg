\* The partial check-in policy alone, no hand-set rooms, no overstays.
SPECIFICATION Spec
CONSTANTS
  r1 = r1
  r2 = r2
  r3 = r3
  Reservations = {r1, r2, r3}
  Rooms = {q1, q2}
  NoRoom = NoRoom
  NoChecklist = NoChecklist
  Arrival <- ArrivalDay
  Departure <- DepartureDay
  Party <- PartySize
  LastDay = 3
  Policies = {"partial_checkin"}
  Reviewed = {}
  OtaReservations = {}
  Sweeps = FALSE
  Overstays = FALSE
  HandSetOccupied = FALSE
SYMMETRY Symmetric
INVARIANTS
  LaterGuestsCanArrive
CHECK_DEADLOCK FALSE
