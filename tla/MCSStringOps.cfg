SPECIFICATION MCSpec
CONSTANTS
  Subjects = {"strings", "rewrite", "search", "codes", "lz"}
  Var = {"v1", "v2"}
  MaxLen = 4
  Alphabet <- Alphabets
  MaxIn <- InSizes
  Past = {0, 59, 110, 34}
INVARIANTS
  TypeOK
  CacheExact
  CallsAgree
  RewritesExact
  FindExact
  SplitExact
  CodesReturn
PROPERTY
  CallsReturn
CHECK_DEADLOCK FALSE
