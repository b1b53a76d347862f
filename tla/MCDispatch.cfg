SPECIFICATION ServiceSpec
CONSTANTS
  Loop = Loop
  Network = Network
  Nobody = Nobody
  Ids = {"r1", "r2"}
  NoId = NoId
  Shades = {"s1"}
  ZoneOf <- OneZone
  Envelopes <- Commands
  Policies <- Snapshots
  NoPolicy = NoPolicy
  Owners = {"o1"}
  Generations = {"g1", "g2"}
  PendingLimit = 2
  LedgerLimit = 3
  HistoryLimit = 2
  MaxTTL = 1
  Released = TRUE
  WallReadings = {0}
  Recorded = {"rejected", "uncertain", "acknowledged", "target_observed"}
  Lag = 0
  MaxMono = 1
  MaxGeneration = 3
  MaxSession = 1
  SourceOf <- FirstSource
  Evidence = 1
VIEW QueueHistoryAside
INVARIANTS
  ServiceTypeOK
  SentIsNeverDenied
PROPERTIES
  SentWithAuthority
  CustodyKept
