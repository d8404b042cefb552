SPECIFICATION Spec
CONSTANTS
  Key = {1, 2, 3, 4}
  Val = {0, 1}
  ValMod = 2
  Cap = 3
INVARIANTS
  TypeOK
PROPERTIES
  Implements
