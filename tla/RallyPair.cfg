SPECIFICATION Spec
CONSTANTS
  a = a
  b = b
  d = d
  c1 = c1
  c2 = c2
  c3 = c3
  Names <- PairNames
  Requests <- PairRequests
  Conns <- MCConns
  Nobody = Nobody
  NoConn = NoConn
  NoEvent = NoEvent
  MaxTurn = 4
SYMMETRY Symmetry
CHECK_DEADLOCK FALSE
INVARIANTS
  ReadersSafe
  JoinSeesSentinel
  BatonTruth
  HolderWoken
PROPERTIES
  ReceivesInOrder
  ImplementsBaton
