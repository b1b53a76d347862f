SPECIFICATION Spec
CONSTANTS
  s1 = s1
  s2 = s2
  Order <- TwoShades
  NoTask = NoTask
  StreakLimit = 3
  DiscoveryPeriod = 3
  RetryPeriod = 1
  PollPeriod = 2
  Spacing = 1
  Silence = 4
  RequestTime = 1
  MaxStops = 2
  MaxMoves = 1
INVARIANTS
  TypeOK
  StopGoesNext
PROPERTIES
  PollsNotStarved
  MovesNotStarved
