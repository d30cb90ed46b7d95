SPECIFICATION Spec
CONSTANTS
  Steppers = {s1}
  Halters = {h1}
  Orchs = {o1}
  Passes = {}
  MaxCycles = 2
  MaxLifetimeTurns = 1
  StuckAfter = 1
  Timed = FALSE
  Faults = FALSE
  MaxClock = 2
  MaxLedger = 2
  NoState = NoState
CHECK_DEADLOCK FALSE
PROPERTIES
  ImplementsSeal
  GoneStaysGone
