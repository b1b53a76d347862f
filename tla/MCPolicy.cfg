SPECIFICATION Spec
CONSTANTS
  Ids = {"r1"}
  NoId = NoId
  Shades = {"s2"}
  ZoneOf <- TwoZones
  Envelopes <- PolicyEnvelopes
  Policies <- PolicySnapshots
  NoPolicy = NoPolicy
  Owners = {"o1", "o2"}
  Generations = {"g1", "g2", "g3"}
  PendingLimit = 1
  LedgerLimit = 1
  HistoryLimit = 2
  MaxTTL = 2
  Released = TRUE
  WallReadings = {0, 1, 2, 3}
  Recorded = {}
  Lag = 1
  MaxMono = 3
  MaxGeneration = 0
  MaxSession = 0
INVARIANTS
  AutomationIsCurrent
  ReplacedPolicyStaysOut
  PolicyNotProlonged
