SPECIFICATION Spec
CONSTANTS
  single = single
  other = other
  NoType = NoType
  Opaque = Opaque
  SingleAxis = single
  Types <- BothTypes
  Discoverable <- BothTypes
  MaxStamp = 2
  MaxMono = 1
  Stale = 1
PROPERTY NeverRepeated
