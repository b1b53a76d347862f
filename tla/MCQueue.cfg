SPECIFICATION Spec
CONSTANTS
  Ids = {"r1", "r2", "r3", "r4"}
  NoId = NoId
  Shades = {"s1", "s2"}
  ZoneOf <- OneZone
  Envelopes <- Commands
  Policies <- OnePolicy
  NoPolicy = NoPolicy
  Owners = {"o1"}
  Generations = {"g1"}
  PendingLimit = 1
  LedgerLimit = 2
  HistoryLimit = 1
  MaxTTL = 3
  Released = TRUE
  WallReadings = {1, 2}
  Recorded = {"uncertain"}
  Lag = 0
  MaxMono = 1
  MaxGeneration = 0
  MaxSession = 1
VIEW LastJournalAside
INVARIANTS
  TypeOK
  AtMostOnceDispatch
  PendingIsQueued
  StopsFirst
  OneWaitingPerShade
  OrdinaryWithinLimit
  ExportImportable
PROPERTIES
  OutcomeAbsorbing
  ManualStopKept
  AutomaticStopOwnsMovement
