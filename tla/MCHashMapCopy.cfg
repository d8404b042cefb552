SPECIFICATION CopySpec
CONSTANTS
  Key = {1, 2, 3, 4}
  Val = {0}
  ValMod = 1
  HashBits = 3
  Hash <- Collide
  Start <- OnHeap
  RehashPct = 90
INVARIANTS
  DerivedFields
