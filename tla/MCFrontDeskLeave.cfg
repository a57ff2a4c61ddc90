\* A move into a room whose checklist is open; no hand-set rooms, no overstays.
SPECIFICATION Spec
CONSTANTS
  r1 = r1
  r2 = r2
  r3 = r3
  Reservations = {r1, r2, r3}
  Rooms = {q1, q2}
  NoRoom = NoRoom
  NoChecklist = NoChecklist
  Arrival <- ArrivalDay
  Departure <- DepartureDay
  Party <- PartySize
  LastDay = 3
  Policies = {"checked_in_on_first_guest"}
  Reviewed = {}
  OtaReservations = {}
  Sweeps = FALSE
  Overstays = FALSE
  HandSetOccupied = FALSE
SYMMETRY Symmetric
INVARIANTS
  LodgedPartiesCanLeave
CHECK_DEADLOCK FALSE
