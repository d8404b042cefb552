SPECIFICATION CoreSpec
CONSTANTS
  Map = {m1, m2}
  Block = {1, 2, 3, 4, 5, 6, 7, 8}
  Pair <- SomePairs
  Type <- AllTypes
  Void <- Empty
  DMax = 18
  DDMax = 37
  DIMax = 34
INVARIANTS
  TypeOK
  OneOwner
  NoLeak
PROPERTIES
  Implements
