\* A channel modifies a reservation that was marked no-show.
SPECIFICATION Spec
CONSTANTS
  r1 = r1
  r2 = r2
  r3 = r3
  Reservations = {r1, r2, r3}
  Rooms = {q1, q2}
  NoRoom = NoRoom
  NoChecklist = NoChecklist
  Arrival <- ArrivalDay
  Departure <- DepartureDay
  Party <- PartySize
  LastDay = 3
  Policies = {"checked_in_on_first_guest"}
  Reviewed = {}
  OtaReservations = {r1}
  Sweeps = FALSE
  Overstays = FALSE
  HandSetOccupied = FALSE
SYMMETRY Symmetric
PROPERTIES
  NoShowIsFinal
CHECK_DEADLOCK FALSE
