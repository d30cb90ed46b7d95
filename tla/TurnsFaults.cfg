SPECIFICATION Spec
CONSTANTS
  a = a
  b = b
  reviewer = reviewer
  p1 = p1
  p2 = p2
  h1 = h1
  h2 = h2
  c1 = c1
  Polls <- TwoPolls
  Posts <- TwoPosts
  Subs <- NoSubs
  RoleIDs <- TwoRoles
  Reviewer = reviewer
  NoRole = NoRole
  Routing = "handoff_then_round_robin"
  ExitWhen <- FakeDemo
  MaxTurns = 3
  MaxTokens = 3
  DryRoundsThreshold = 2
  Responses <- Talk
  NoResp = NoResp
  NoReq = NoReq
  SubCap = 1
  Faults <- AllFaults
SYMMETRY Symmetry
CHECK_DEADLOCK FALSE
INVARIANTS
  TurnsBounded
  TurnsDistinct
