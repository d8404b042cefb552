SPECIFICATION ClearSpec
CONSTANTS
  Key = {1, 2, 3}
  Val = {0, 1}
  ValMod = 2
  HashBits = 3
  Hash <- Collide
  Start <- OnHeap
  RehashPct = 90
INVARIANTS
  ClearedIsEmpty
