\* Two reservations compete for two rooms; the no-show task does not run.
SPECIFICATION Spec
CONSTANTS
  Reservations = {r1, r2}
  Rooms = {q1, q2}
  Nights = 2
  Sweepable = {}
  NoRoom = NoRoom
  NoStay = NoStay
SYMMETRY Symmetric
INVARIANTS
  NoDoubleBooking
CHECK_DEADLOCK FALSE
