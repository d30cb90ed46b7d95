SPECIFICATION Spec
CONSTANTS
  Steppers = {}
  Halters = {h1}
  Orchs = {o1}
  Passes = {}
  MaxCycles = 2
  MaxLifetimeTurns = 0
  StuckAfter = 3
  Timed = FALSE
  Faults = FALSE
  MaxClock = 1
  MaxLedger = 4
  NoState = NoState
CHECK_DEADLOCK FALSE
INVARIANTS
  HaltSticks
