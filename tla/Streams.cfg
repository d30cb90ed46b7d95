SPECIFICATION StreamsSpec
CONSTANTS
  Agents = {g1}
  Hosts = {o1}
  Cap = 1
  MaxPosts = 3
  Watchers = {w1, w2}
  Steps = {s1}
  Halts = {h1, h2}
  EventCap = 1
CHECK_DEADLOCK FALSE
INVARIANTS
  ToolOnce
  RoomToAnswer
  ListedOpen
  HaltSeen
PROPERTIES
  AgentEnds
  HaltEndsStreams
