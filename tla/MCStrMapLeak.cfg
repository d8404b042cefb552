SPECIFICATION Spec
CONSTANTS
  Map = {m1, m2}
  Block = {1, 2, 3, 4, 5, 6, 7, 8}
  Pair <- AllPairs
  Type <- Trees
  Void <- Empty
  DMax = 18
  DDMax = 37
  DIMax = 34
INVARIANTS
  NoLeak
