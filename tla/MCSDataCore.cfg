SPECIFICATION CoreSpec
CONSTANTS
  Dyn = TRUE
  SmallMax = 6
  SmallHdr = 2
  FullHdr = 5
  ElemSize = 1
  Tail = 1
  GrowPct = 25
  GrowCap = 2
  SizeMax = 63
  ReqMax = 14
INVARIANT TypeOK
INVARIANT BlockCovers
INVARIANT HeaderMatchesCapacity
PROPERTY ResizeKeepsElements
PROPERTY ExtBufferFixed
