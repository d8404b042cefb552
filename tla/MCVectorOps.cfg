SPECIFICATION MCSpec
CONSTANTS
  Subjects = {"vectors", "bits", "bytes", "words"}
  Handle = {"v", "w"}
  Type = {"u8", "u16"}
  ElemSize <- ElemSizes
  Sub <- Subs
  Val = {1, 2}
  Junk = 0
  GrowPct = 25
  SizeMax = 15
  MaxLen <- Lens
  ReqMax = 2
INVARIANTS
  ElementsReal
  ReadsExact
  CatExact
  CopiesExact
  BitCountExact
  SortsExact
CHECK_DEADLOCK FALSE
