SPECIFICATION Spec
CONSTANTS
  w1 = w1
  w2 = w2
  m1 = m1
  m2 = m2
  m3 = m3
  online = online
  offline = offline
  Network = Network
  Unretained <- OnlyNetwork
  NoPayload = NoPayload
  NoMid = NoMid
  Free = Free
  Payloads <- States
  Will <- offline
  Workers <- OneWorker
  Mids <- TwoMids
  StartingLimit = 1
  EarlyLimit = 256
  QueueLimit = 1
  MaxGeneration = 7
  MaxRefusals = 0
INVARIANTS
  TypeOK
  NoCircularWait
  PendingIsOutstanding
  CacheIsTrue
