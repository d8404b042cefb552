SPECIFICATION DeepSpec
CONSTANTS
  Key = {1, 2, 3, 4, 5, 6, 7, 8, 9, 10, 11, 12, 13, 14, 15, 16, 17, 18, 19, 20, 22}
  Val = {0}
  ValMod = 1
  Cap = 16
  Plans <- Layouts
INVARIANTS
  RedBlackRules
  EveryNodeFound
  AssertsHold
  ShallowEnough
  WalksShort
  TraversalsOrdered
  IterationsInRange
CHECK_DEADLOCK FALSE
