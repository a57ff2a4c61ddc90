\* Two reservations compete for one room, and the analytics task may mark both.
SPECIFICATION Spec
CONSTANTS
  Reservations = {r1, r2}
  Rooms = {q1}
  Nights = 2
  Sweepable = {r1, r2}
  NoRoom = NoRoom
  NoStay = NoStay
SYMMETRY Symmetric
INVARIANTS
  DoubleBookingNeedsARace
  BlockedNightsAreClear
PROPERTIES
  LockedPathsAddNoClash
CHECK_DEADLOCK FALSE
