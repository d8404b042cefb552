SPECIFICATION DeepSpec
CONSTANTS
  Key = {1, 5, 6, 7, 8, 9, 10, 12, 14, 15, 16, 22}
  Val = {0}
  ValMod = 1
  Cap = 15
  Plans <- Updates
INVARIANTS
  RedBlackRules
CHECK_DEADLOCK FALSE
