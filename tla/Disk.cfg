SPECIFICATION DiskSpec
CONSTANTS
  broker = broker
  once = once
  b1 = b1
  Daemons = {d1, d2}
  Clients = {k1}
  Missing = Missing
  Empty = Empty
  MaxTries = 2
  Procs = {broker}
  OneShot = {}
  Threads = {t1, t2, t3}
  home <- MCHome
  NoLock = NoLock
  Garbage = Garbage
  MaxHashes = 4
  Syncers = {broker, once}
  Writers = {a1, a2, b1}
  SyncerOf <- MCSyncerOf
  Readers = {r1}
  NoFile = NoFile
  Damaged = Damaged
  Unset = Unset
  MaxCommits = 3
  MaxDamages = 1
  MaxKills = 1
  Contents <- MCContents
  EntryOf <- MCEntryOf
  RecordOf <- MCRecordOf
  Few = {1, 2}
  MaxFew = 6
  MaxAll = 4
  RepeatTurn = 3
  RepeatGate = 2
  PingPong = 4
  Window = 2
  DryWindow = 4
  RepeatRecord = 3
  Changes = {c1, c2}
  Broken = {c1}
  Flawed = {c1, c2}
  Untracked = {c2}
  LocalGates = 1
  Overridden = FALSE
  MaxClaims = 1
CHECK_DEADLOCK FALSE
INVARIANTS
  CleanExit
  Reachable
  CallsSucceed
  ChainIntact
  BackupEarlier
  ReadFresh
  Recoverable
  AuditCatches
  ProofsExact
  StuckExact
  ReplayFaithful
  CommitsVouched
PROPERTY
  NewcomersRefuse
