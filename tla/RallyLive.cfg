SPECIFICATION FairSpec
CONSTANTS
  a = a
  b = b
  d = d
  c1 = c1
  c2 = c2
  c3 = c3
  Names <- PairNames
  Requests <- PairRequests
  Conns <- TwoConns
  Nobody = Nobody
  NoConn = NoConn
  NoEvent = NoEvent
  MaxTurn = 3
PROPERTIES
  InterruptDrains
  HolderHears
CHECK_DEADLOCK FALSE
