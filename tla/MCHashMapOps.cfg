SPECIFICATION Spec
CONSTANTS
  Key = {1, 2, 3, 4}
  Val = {1}
  ValMod = 2
  HashBits = 2
  Hash <- Collide
  Start <- OnBoth
  RehashPct = 90
INVARIANTS
  TypeOK
  CountsExact
  IndexExact
  FreeBucket
  NoFault
  DerivedFields
PROPERTIES
  ExtTableFixed
  Implements
