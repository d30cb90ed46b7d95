SPECIFICATION Spec
CONSTANTS
  a = a
  b = b
  reviewer = reviewer
  p1 = p1
  p2 = p2
  h1 = h1
  h2 = h2
  c1 = c1
  Polls <- TwoPolls
  Posts <- TwoPosts
  Subs <- OneSub
  RoleIDs <- TwoRoles
  Reviewer = reviewer
  NoRole = NoRole
  Routing = "round_robin"
  ExitWhen <- Guarded
  MaxTurns = 3
  MaxTokens = 9
  DryRoundsThreshold = 2
  Responses <- Busy
  NoResp = NoResp
  NoReq = NoReq
  SubCap = 1
  Faults <- NoFaults
SYMMETRY Symmetry
CHECK_DEADLOCK FALSE
INVARIANTS
  NoSleepingRole
  EveryTurnLogged
  ExhaustionEnds
  SubsReleased
