SPECIFICATION Spec
CONSTANTS
  w1 = w1
  w2 = w2
  m1 = m1
  m2 = m2
  m3 = m3
  online = online
  offline = offline
  Network = Network
  Unretained <- Nobody
  NoPayload = NoPayload
  NoMid = NoMid
  Free = Free
  Payloads <- States
  Will <- NoPayload
  Workers <- TwoWorkers
  Mids <- ThreeMids
  StartingLimit = 64
  EarlyLimit = 256
  QueueLimit = 2
  MaxGeneration = 2
  MaxRefusals = 0
INVARIANT CacheIsTrue
