---------------------------- MODULE SData_proofs ----------------------------
(***************************************************************************)
(* For every value of the constants: a container's block always covers the *)
(* elements its header announces, and changing the capacity never changes  *)
(* the elements, provided that requests are small enough for allocation    *)
(* sizes not to wrap and that no long string is shrunk to a short one.     *)
(* MCSDataShrink shows that the second proviso cannot be dropped.          *)
(***************************************************************************)
EXTENDS SData, TLAPS

\* Allocation sizes never exceed SizeMax.
NoWrap == FullHdr + ElemSize * (ReqMax + GrowCap) <= SizeMax

\* The inductive invariant.  The header kind must be known to follow the
\* capacity (else growing reads a full header as a small one), and the
\* capacity to stay in the range where sizes do not wrap.
IInv ==
  /\ TypeOK
  /\ BlockCovers
  /\ HeaderMatchesCapacity
  /\ max <= ReqMax + GrowCap

----------------------------------------------------------------------------
(* Sizes.                                                                  *)

LEMMA IncrementBound ==
  ASSUME NEW n \in Nat
  PROVE  Increment(n) \in Nat /\ Increment(n) <= GrowCap
<1>1. (n * GrowPct) \div 100 \in Nat
  BY SDataAssumption, SMT
<1>. QED
  BY <1>1, SDataAssumption DEF Increment

LEMMA GrownBound ==
  ASSUME NEW n \in Nat
  PROVE  Grown(n) \in Nat /\ n <= Grown(n) /\ Grown(n) <= n + GrowCap
BY IncrementBound, SDataAssumption DEF Grown

\* With no wrap, an allocation size is the header plus the elements, and the
\* header is the one the container's mode calls for, or longer.
LEMMA AllocSize ==
  ASSUME NoWrap, NEW n \in Nat, n <= ReqMax + GrowCap, NEW dyn \in BOOLEAN
  PROVE  sd_alloc_size_raw(dyn, n)
           = (IF dyn /\ n < SmallMax THEN SmallHdr ELSE FullHdr) + ElemSize * n
<1>. DEFINE h == IF dyn /\ n < SmallMax THEN SmallHdr ELSE FullHdr
            k == ReqMax + GrowCap
<1>1. h \in Nat /\ h <= FullHdr
  BY SDataAssumption
<1>2. ElemSize * n \in Nat /\ ElemSize * k \in Nat /\ ElemSize * n <= ElemSize * k
  <2>1. ElemSize \in Nat /\ k \in Nat /\ k - n \in Nat
    BY SDataAssumption
  <2>2. ElemSize * (k - n) \in Nat
    BY <2>1
  <2>3. ElemSize * k = ElemSize * n + ElemSize * (k - n)
    BY <2>1
  <2>. QED
    BY <2>1, <2>2, <2>3
<1>3. h + ElemSize * n \in Nat /\ h + ElemSize * n <= SizeMax
  BY <1>1, <1>2, SDataAssumption DEF NoWrap
<1>. HIDE DEF h, k
<1>4. \A s \in Nat : s <= SizeMax => s % (SizeMax + 1) = s
  BY SDataAssumption
<1>5. (h + ElemSize * n) % (SizeMax + 1) = h + ElemSize * n
  BY <1>3, <1>4
<1>. QED
  BY <1>5 DEF sd_alloc_size_raw, h

LEMMA ElemBytes == \A n \in Nat : ElemSize * n \in Nat
BY SDataAssumption

----------------------------------------------------------------------------
(* The invariant, one lemma per operation that changes the block.          *)

LEMMA FreshModeCases ==
  ASSUME NEW n \in Nat
  PROVE  \/ ~Dyn /\ FreshMode(n) = "Full"
         \/ Dyn /\ n <= SmallMax /\ FreshMode(n) = "DynSmall"
         \/ Dyn /\ n > SmallMax /\ FreshMode(n) = "DynFull"
BY SDataAssumption DEF FreshMode

\* A container that holds nothing.
LEMMA EmptyIInv ==
  ASSUME where = "null", mode = FreshMode(0), err = 0, size = 0, max = 0,
         block = 0
  PROVE  IInv
<1>1. (mode = "Full" /\ ~Dyn) \/ (mode = "DynSmall" /\ Dyn)
  BY FreshModeCases, SDataAssumption
<1>2. TypeOK
  BY <1>1, SDataAssumption DEF TypeOK
<1>3. BlockCovers
  BY DEF BlockCovers
<1>4. HeaderMatchesCapacity
  BY <1>1, SDataAssumption DEF HeaderMatchesCapacity, sdx_dyn_st
<1>. QED
  BY <1>2, <1>3, <1>4, SDataAssumption DEF IInv

LEMMA InitIInv == Init => IInv
BY EmptyIInv DEF Init

\* A fresh header, in a block sized by the same formula.
LEMMA ResetIInv ==
  ASSUME NoWrap, NEW n \in Requests, sd_reset(n), where' \in {"heap", "ext"},
         block' = sd_alloc_size_raw(Dyn, n) + Tail
  PROVE  IInv'
<1>1. n \in Nat /\ n <= ReqMax + GrowCap
  BY SDataAssumption DEF Requests
<1>2. block' = (IF Dyn /\ n < SmallMax THEN SmallHdr ELSE FullHdr)
                 + ElemSize * n + Tail
  BY <1>1, AllocSize, SDataAssumption
<1>3. ElemSize * n \in Nat
  BY <1>1, ElemBytes
<1>4. max' = n
  BY DEF sd_reset, FreshMode, Counter, sdx_szt_to_u8_sat
<1>5. /\ size' = 0 /\ err' = 0
      /\ \/ ~Dyn /\ mode' = "Full"
         \/ Dyn /\ n <= SmallMax /\ mode' = "DynSmall"
         \/ Dyn /\ n > SmallMax /\ mode' = "DynFull"
  BY <1>1, FreshModeCases DEF sd_reset
<1>6. block' \in Nat
  BY <1>2, <1>3, SDataAssumption
<1>7. TypeOK'
  BY <1>1, <1>4, <1>5, <1>6, SDataAssumption DEF TypeOK
<1>8. HeaderMatchesCapacity'
  BY <1>1, <1>4, <1>5, SDataAssumption DEF HeaderMatchesCapacity, sdx_dyn_st
<1>9. BlockCovers'
  BY <1>1, <1>2, <1>3, <1>4, <1>5, SDataAssumption DEF BlockCovers, HeaderOf
<1>. QED
  BY <1>1, <1>4, <1>7, <1>8, <1>9 DEF IInv

\* Growing: while the header kind follows the capacity, the size byte read is
\* the container's size, and the block is sized for the header it will have.
LEMMA ReallocIInv ==
  ASSUME NoWrap, IInv, NEW n \in Requests, max < n, where # "null",
         ReserveRealloc(n)
  PROVE  IInv' /\ size' = size
<1>. DEFINE m == Grown(n)
<1>1. n \in Nat /\ m \in Nat /\ n <= m /\ m <= ReqMax + GrowCap
  BY GrownBound, SDataAssumption DEF Requests
<1>2. sdx_dyn_st \in BOOLEAN
  BY DEF sdx_dyn_st
<1>3. block' = (IF sdx_dyn_st /\ m < SmallMax THEN SmallHdr ELSE FullHdr)
                 + ElemSize * m + Tail
  BY <1>1, <1>2, AllocSize DEF ReserveRealloc
<1>4. ElemSize * m \in Nat
  BY <1>1, ElemBytes
<1>5. mode' = IF sdx_dyn_st /\ max <= SmallMax /\ m > SmallMax
              THEN "DynFull" ELSE mode
  BY DEF ReserveRealloc, sdx_chk_st_change
<1>6. size' = size
  BY DEF ReserveRealloc, sdx_chk_st_change, SmallHeaderSize, sdx_full_st,
         IInv, HeaderMatchesCapacity
<1>7. max' = Counter(mode', m)
  BY DEF ReserveRealloc
<1>. HIDE DEF m
<1>8. max' = m
  BY <1>1, <1>5, <1>7, SDataAssumption
     DEF Counter, sdx_szt_to_u8_sat, sdx_dyn_st, IInv, HeaderMatchesCapacity,
         TypeOK
<1>9. TypeOK' /\ HeaderMatchesCapacity'
  BY <1>1, <1>3, <1>4, <1>5, <1>6, <1>8, SDataAssumption
     DEF IInv, TypeOK, HeaderMatchesCapacity, sdx_dyn_st, ReserveRealloc,
         BlockCovers
<1>10. BlockCovers'
  BY <1>1, <1>3, <1>4, <1>5, <1>6, <1>8, <1>9, SDataAssumption
     DEF IInv, TypeOK, HeaderMatchesCapacity, sdx_dyn_st, BlockCovers, HeaderOf
<1>. QED
  BY <1>1, <1>6, <1>8, <1>9, <1>10 DEF IInv

\* Reserve and grow keep the invariant and the elements.
LEMMA ReserveIInv ==
  ASSUME NoWrap, IInv, NEW n \in Requests, sd_reserve(n)
  PROVE  IInv' /\ size' = size /\ where' = where
<1>1. CASE UNCHANGED vars
  BY <1>1 DEF vars, IInv, TypeOK, BlockCovers, HeaderMatchesCapacity, sdx_dyn_st
<1>2. CASE ReserveFails
  BY <1>2 DEF ReserveFails, IInv, TypeOK, BlockCovers, HeaderMatchesCapacity,
              sdx_dyn_st
<1>3. CASE max < n /\ where # "ext" /\ ReserveRealloc(n)
  BY <1>3, ReallocIInv DEF ReserveRealloc, sd_reserve
<1>. QED
  BY <1>1, <1>2, <1>3 DEF sd_reserve

LEMMA GrowIInv ==
  ASSUME NoWrap, IInv, NEW n \in Requests, size + n <= ReqMax, sd_grow(n)
  PROVE  IInv' /\ size' = size /\ where' = where
<1>1. CASE UNCHANGED vars
  BY <1>1 DEF vars, IInv, TypeOK, BlockCovers, HeaderMatchesCapacity, sdx_dyn_st
<1>2. CASE sd_reserve(size + n)
  <2>1. size + n \in Requests
    BY SDataAssumption DEF Requests, IInv, TypeOK
  <2>. QED
    BY <1>2, <2>1, ReserveIInv
<1>. QED
  BY <1>1, <1>2 DEF sd_grow

LEMMA ShrinkIInv ==
  ASSUME NoWrap, IInv, ~ShrinkToSmall, sd_shrink
  PROVE  IInv' /\ size' = size /\ where' = where
<1>1. CASE UNCHANGED vars
  BY <1>1 DEF vars, IInv, TypeOK, BlockCovers, HeaderMatchesCapacity, sdx_dyn_st
<1>2. CASE ~UNCHANGED vars
  <2>1. where # "ext" /\ mode # "DynSmall" /\ size < max /\ max' = size
    BY <1>2 DEF sd_shrink, sdx_full_st
  <2>2. where' = where /\ mode' = mode /\ err' = err /\ size' = size
    BY <1>2 DEF sd_shrink
  <2>3. size \in Nat /\ size <= ReqMax + GrowCap
    BY <2>1, SDataAssumption DEF IInv, TypeOK
  <2>4. block' = sd_alloc_size_raw(FALSE, size) + Tail
    BY <1>2 DEF sd_shrink
  <2>5. block' = FullHdr + ElemSize * size + Tail /\ ElemSize * size \in Nat
    BY <2>3, <2>4, AllocSize, ElemBytes
  <2>6. sdx_dyn_st => size > SmallMax
    BY <2>1, <2>3, SDataAssumption
       DEF ShrinkToSmall, sdx_dyn_st, sdx_full_st
  <2>7. TypeOK'
    BY <2>1, <2>2, <2>3, <2>5, SDataAssumption DEF IInv, TypeOK
  <2>8. BlockCovers'
    BY <2>1, <2>2, <2>3, <2>5, SDataAssumption DEF BlockCovers, HeaderOf
  <2>9. HeaderMatchesCapacity'
    BY <2>1, <2>2, <2>3, <2>6, SDataAssumption
       DEF HeaderMatchesCapacity, sdx_dyn_st
  <2>. QED
    BY <2>1, <2>2, <2>3, <2>7, <2>8, <2>9 DEF IInv
<1>. QED
  BY <1>1, <1>2

LEMMA SetSizeIInv ==
  ASSUME IInv, NEW n \in Requests, sdx_set_size(n)
  PROVE  IInv' /\ max' = max
<1>1. n \in Nat
  BY SDataAssumption DEF Requests
<1>2. size' \in Nat /\ size' <= max /\ (mode = "DynSmall" => size' <= SmallMax)
  BY <1>1, SDataAssumption
     DEF sdx_set_size, Counter, sdx_szt_to_u8_sat, IInv, TypeOK
<1>. QED
  BY <1>2 DEF sdx_set_size, IInv, TypeOK, BlockCovers, HeaderMatchesCapacity,
              sdx_dyn_st

LEMMA ResetErrorsIInv ==
  ASSUME IInv, sd_reset_alloc_errors
  PROVE  IInv' /\ max' = max
BY DEF sd_reset_alloc_errors, IInv, TypeOK, BlockCovers, HeaderMatchesCapacity,
       sdx_dyn_st

LEMMA FreeIInv ==
  ASSUME sd_free
  PROVE  IInv'
<1>1. (mode' = "Full" /\ ~Dyn) \/ (mode' = "DynSmall" /\ Dyn)
  BY FreshModeCases, SDataAssumption DEF sd_free
<1>2. TypeOK'
  BY <1>1, SDataAssumption DEF sd_free, TypeOK
<1>3. BlockCovers'
  BY DEF sd_free, BlockCovers
<1>4. HeaderMatchesCapacity'
  BY <1>1, SDataAssumption DEF sd_free, HeaderMatchesCapacity, sdx_dyn_st
<1>. QED
  BY <1>2, <1>3, <1>4, SDataAssumption DEF sd_free, IInv

\* One step of the specification: the invariant, and what a resize keeps.
LEMMA NextIInv ==
  ASSUME NoWrap, IInv, [CoreNext]_vars
  PROVE  /\ IInv'
         /\ where # "null" /\ where' # "null" /\ max' # max => size' = size
<1>1. ASSUME NEW n \in Requests, sd_alloc(n) \/ sd_alloc_into_ext_buf(n)
      PROVE  IInv' /\ where = "null"
  BY <1>1, ResetIInv DEF sd_alloc, sd_alloc_into_ext_buf
<1>2. ASSUME NEW n \in Requests, sd_reserve(n)
      PROVE  IInv' /\ size' = size
  BY <1>2, ReserveIInv
<1>3. ASSUME NEW n \in Requests, size + n <= ReqMax, sd_grow(n)
      PROVE  IInv' /\ size' = size
  BY <1>3, GrowIInv
<1>4. ASSUME NEW n \in Requests, sdx_set_size(n)
      PROVE  IInv' /\ max' = max
  BY <1>4, SetSizeIInv
<1>5. ASSUME ~ShrinkToSmall, sd_shrink
      PROVE  IInv' /\ size' = size
  BY <1>5, ShrinkIInv
<1>6. ASSUME sd_reset_alloc_errors
      PROVE  IInv' /\ max' = max
  BY <1>6, ResetErrorsIInv
<1>7. ASSUME sd_free
      PROVE  IInv' /\ where' = "null"
  BY <1>7, FreeIInv DEF sd_free
<1>8. CASE UNCHANGED vars
  BY <1>8 DEF vars, IInv, TypeOK, BlockCovers, HeaderMatchesCapacity, sdx_dyn_st
<1>. QED
  BY <1>1, <1>2, <1>3, <1>4, <1>5, <1>6, <1>7, <1>8 DEF CoreNext

----------------------------------------------------------------------------
(* Theorems.                                                               *)

\* Header fields keep their types and 8-bit ranges (sdata.h:150-258).
THEOREM CoreTypeOK == ASSUME NoWrap PROVE CoreSpec => []TypeOK
<1>1. IInv /\ [CoreNext]_vars => IInv'
  BY NextIInv
<1>2. IInv => TypeOK
  BY DEF IInv
<1>. QED
  BY InitIInv, <1>1, <1>2, PTL DEF CoreSpec

\* No block is ever shorter than the elements its header announces
\* (sd_reserve_aux, sd_shrink, sd_alloc).
THEOREM CoreBlockCovers == ASSUME NoWrap PROVE CoreSpec => []BlockCovers
<1>1. IInv /\ [CoreNext]_vars => IInv'
  BY NextIInv
<1>2. IInv => BlockCovers
  BY DEF IInv
<1>. QED
  BY InitIInv, <1>1, <1>2, PTL DEF CoreSpec

\* The header kind always follows the capacity, which sdx_chk_st_change
\* relies on.
THEOREM CoreHeaderMatches ==
  ASSUME NoWrap PROVE CoreSpec => []HeaderMatchesCapacity
<1>1. IInv /\ [CoreNext]_vars => IInv'
  BY NextIInv
<1>2. IInv => HeaderMatchesCapacity
  BY DEF IInv
<1>. QED
  BY InitIInv, <1>1, <1>2, PTL DEF CoreSpec

\* Reserve, grow and shrink keep every element, the change from a small to a
\* full header included.
THEOREM CoreResizeKeeps == ASSUME NoWrap PROVE CoreSpec => ResizeKeepsElements
<1>1. IInv /\ [CoreNext]_vars => IInv'
  BY NextIInv
<1>2. IInv /\ [CoreNext]_vars
        => [where # "null" /\ where' # "null" /\ max' # max => size' = size]_vars
  BY NextIInv
<1>. QED
  BY InitIInv, <1>1, <1>2, PTL DEF CoreSpec, ResizeKeepsElements

\* Whatever is called, a container in the caller's buffer stays there until it
\* is dropped, and its capacity with it.  No proviso.
THEOREM ExtBufferKept == Spec => ExtBufferFixed
<1>. DEFINE Kept == where = "ext" /\ where' # "null"
                      => where' = "ext" /\ block' = block /\ max' = max
<1>1. ASSUME NEW n \in Requests, sd_alloc(n) \/ sd_alloc_into_ext_buf(n)
      PROVE  Kept
  BY <1>1 DEF sd_alloc, sd_alloc_into_ext_buf
<1>2. ASSUME NEW n, sd_reserve(n)
      PROVE  Kept
  BY <1>2 DEF sd_reserve, ReserveFails, vars
<1>3. ASSUME NEW n \in Requests, sd_grow(n)
      PROVE  Kept
  BY <1>3, <1>2 DEF sd_grow, vars
<1>4. ASSUME sd_shrink
      PROVE  Kept
  BY <1>4 DEF sd_shrink, vars
<1>5. ASSUME NEW n \in Requests, sdx_set_size(n)
      PROVE  Kept
  BY <1>5 DEF sdx_set_size
<1>6. ASSUME sd_reset_alloc_errors \/ sd_free
      PROVE  Kept
  BY <1>6 DEF sd_reset_alloc_errors, sd_free
<1>7. [Next]_vars => [Kept]_vars
  BY <1>1, <1>2, <1>3, <1>4, <1>5, <1>6 DEF Next, CoreNext
<1>. QED
  BY <1>7, PTL DEF Spec, ExtBufferFixed
============================================================================
