SPECIFICATION Spec
CONSTANTS
  Sessions = {1, 2, 3}
  Keys = {k1, k2}
  Unknown = Unknown
  Values = {v1, v2}
  MaxCredits = 1
  Worlds <- MCWorlds
  Model = "m"
  Catalog = {"m"}
  Requests = {r1}
  NoSession = NoSession
  MaxBootCloses = 1
  SweepMaxSkips = 2
  MaxTries = 1
  Files = 3
  MaxLines <- MCMaxLines
  Retention = 1
  RingCap = 2
  BootLines = 2
  AggKeys = {a, b}
  MaxPerKind = 1
  AggWindow = 1
  MaxEvents = 4
  MaxFaults = 1
  MaxNow = 2
  MaxRounds = 2
  MaxClaim = 2
  MaxFails = 2
  Scenes = {"sessions", "keys", "audit", "files", "reclaim"}
  MaxStarts <- MCMaxStarts
INVARIANTS
  StoreSound
  AuditSound
  ProcessSound
PROPERTIES
  DayNotSkipped
  NoNeedlessOpen
  BootSparesLeases
  ExpiredClosed
  RequestEnds
  StakeReclaimed
CHECK_DEADLOCK FALSE
