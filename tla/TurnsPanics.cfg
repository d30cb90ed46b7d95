SPECIFICATION Spec
CONSTANTS
  a = a
  b = b
  reviewer = reviewer
  p1 = p1
  p2 = p2
  h1 = h1
  h2 = h2
  c1 = c1
  Polls <- OnePoll
  Posts <- OnePost
  Subs <- OneSub
  RoleIDs <- TwoRoles
  Reviewer = reviewer
  NoRole = NoRole
  Routing = "strict_round_robin"
  ExitWhen <- FakeDemo
  MaxTurns = 2
  MaxTokens = 9
  DryRoundsThreshold = 2
  Responses <- Busy
  NoResp = NoResp
  NoReq = NoReq
  SubCap = 1
  Faults <- NoFaults
CHECK_DEADLOCK FALSE
INVARIANT
  NoPanics
