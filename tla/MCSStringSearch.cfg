SPECIFICATION MCSpec
CONSTANTS
  Subjects = {"search"}
  Var = {"v1", "v2"}
  MaxLen = 4
  Alphabet <- Alphabets
  MaxIn <- InSizes
  Past = {0, 59, 110, 34}
INVARIANT FindsFirst
CHECK_DEADLOCK FALSE
