\* Two reservations compete for two rooms over a three-day calendar (two nights).
SPECIFICATION Spec
CONSTANTS
  Reservations = {r1, r2}
  Rooms = {q1, q2}
  Nights = 2
  Sweepable = {}
  NoRoom = NoRoom
  NoStay = NoStay
SYMMETRY Symmetric
INVARIANTS
  TypeOK
  DoubleBookingNeedsARace
  BlockedNightsAreClear
  HousedGuestsHaveARoom
PROPERTIES
  PaidStaysKeepARoom
  LockedPathsAddNoClash
CHECK_DEADLOCK FALSE
