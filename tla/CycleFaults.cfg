SPECIFICATION Spec
CONSTANTS
  Steppers = {}
  Halters = {h1}
  Orchs = {o1, o2}
  Passes = {p1}
  MaxCycles = 1
  MaxLifetimeTurns = 1
  StuckAfter = 1
  Timed = TRUE
  Faults = TRUE
  MaxClock = 0
  MaxLedger = 2
  NoState = NoState
CHECK_DEADLOCK FALSE
SYMMETRY Symmetry
INVARIANTS
  CeilingHolds
  OneOrchestrator
