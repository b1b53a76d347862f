SPECIFICATION Spec
CONSTANTS
  single = single
  other = other
  NoType = NoType
  Opaque = Opaque
  SingleAxis = single
  Types <- BothTypes
  Discoverable <- OnlySingle
  MaxStamp = 2
  MaxMono = 2
  Stale = 1
INVARIANTS
  TypeOK
  UsableIsLastWord
  UsableIsInventoried
  OneMotionPerReport
PROPERTY NeverRepeated
