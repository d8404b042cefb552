SPECIFICATION MCSpec
CONSTANTS
  Subjects = {"words"}
  Handle = {"v", "w"}
  Type = {"u8", "u16"}
  ElemSize <- ElemSizes
  Sub <- Subs
  Val = {1, 2}
  Junk = 0
  GrowPct = 25
  SizeMax = 15
  MaxLen <- Lens
  ReqMax = 3
INVARIANT WordsSorted
CHECK_DEADLOCK FALSE
