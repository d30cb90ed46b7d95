SPECIFICATION SquashSpec
CONSTANTS
  a = a
  b = b
  reviewer = reviewer
  p1 = p1
  p2 = p2
  p3 = p3
  h1 = h1
  h2 = h2
  Polls = {p1, p2, p3}
  Posts = {h1, h2}
  Subs = {}
  RoleIDs <- TwoRoles
  Reviewer = reviewer
  NoRole = NoRole
  Routing = "handoff_then_round_robin"
  ExitWhen <- FakeDemo
  MaxTurns = 2
  MaxTokens = 9
  DryRoundsThreshold = 2
  Responses <- Answers
  NoResp = NoResp
  NoReq = NoReq
  SubCap = 1
  Faults = {"client", "disk"}
  NoConn = NoConn
  MaxTimeouts = 1
CHECK_DEADLOCK FALSE
INVARIANTS
  OwnTurn
  SuccessIsEnd
PROPERTY
  SquashEnds
