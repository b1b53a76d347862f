SPECIFICATION RequestsSpec
CONSTANTS
  service = service
  tool = tool
  shade = shade
  Procs <- TwoProcs
  NoProc = NoProc
  Damaged = Damaged
  Torn = Torn
  MaxStamp = 3
  Readings <- Clock
  Service <- service
  Kinds <- Used
  Targets <- OneShade
  NoTarget = NoTarget
  NoId = NoId
  PinnedWithoutId = TRUE
VIEW WhatCounts
INVARIANTS
  TypeOK
  HighWaterDurable
  AnswersItself
  SentIsOnRecord
PROPERTIES
  IdsIncrease
  JournalIsAtomic
