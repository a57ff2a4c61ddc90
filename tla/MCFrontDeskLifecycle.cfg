\* Every policy, overstays and hand-set rooms; no channels and no unlocked task.
SPECIFICATION Spec
CONSTANTS
  r1 = r1
  r2 = r2
  r3 = r3
  Reservations = {r1, r2, r3}
  Rooms = {q1, q2}
  NoRoom = NoRoom
  NoChecklist = NoChecklist
  Arrival <- ArrivalDay
  Departure <- DepartureDay
  Party <- PartySize
  LastDay = 3
  Policies = {"partial_checkin", "checked_in_on_first_guest"}
  Reviewed = {}
  OtaReservations = {}
  Sweeps = FALSE
  Overstays = TRUE
  HandSetOccupied = TRUE
SYMMETRY Symmetric
INVARIANTS
  SharedRoomMeansOverstay
PROPERTIES
  FollowsLifecycle
CHECK_DEADLOCK FALSE
