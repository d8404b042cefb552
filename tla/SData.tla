------------------------------- MODULE SData -------------------------------
(***************************************************************************)
(* The container header every libsrt type is built on (saux/sdata.c,       *)
(* saux/sdata.h): one handle to one block of memory that holds a header    *)
(* followed by max elements, of which the first `size' are in use.         *)
(*                                                                         *)
(* Strings are "dynamic" containers: a short one has a 4-byte header with  *)
(* 8-bit counters (DynSmall) and moves to the full header (DynFull) when   *)
(* it grows past SmallMax elements.  Every other type is always Full.      *)
(*                                                                         *)
(* A block is represented by its length in bytes, the elements by their    *)
(* number: what can go wrong here is an element lost or a block too short  *)
(* for the elements its header announces, never the value of an element.   *)
(***************************************************************************)
EXTENDS Integers

CONSTANTS
  Dyn,        \* TRUE for strings: the header may be small (dyn_st)
  SmallMax,   \* the largest value an 8-bit counter holds; 255 in the code
  SmallHdr,   \* sizeof(struct SDataSmall)
  FullHdr,    \* size of the full header of the container's type
  ElemSize,   \* bytes per element
  Tail,       \* bytes kept after the elements (1 for strings, else 0)
  GrowPct,    \* SD_GROW_PCT
  GrowCap,    \* SD_GROW_MAX_INC
  SizeMax,    \* the largest size_t
  ReqMax      \* bound: the largest number of elements a client asks for

ASSUME SDataAssumption ==
  /\ Dyn \in BOOLEAN
  /\ SmallMax \in Nat \ {0} /\ SmallHdr \in Nat \ {0}
  /\ FullHdr \in Nat \ {0} /\ ElemSize \in Nat \ {0}
  /\ Tail \in Nat /\ GrowPct \in Nat /\ GrowCap \in Nat
  /\ SizeMax \in Nat /\ ReqMax \in Nat
  /\ SmallHdr < FullHdr
  /\ Dyn => ElemSize = 1            \* S_ASSERT in sd_alloc_size_raw

VARIABLES
  where,   \* "null": no container; "heap" or "ext": who owns the block
  mode,    \* f.st_mode
  err,     \* f.alloc_errors
  size,    \* elements in use
  max,     \* elements the header says there is room for
  block    \* bytes in the block

vars == <<where, mode, err, size, max, block>>

\* Types; a small container's counters are 8-bit.
TypeOK ==
  /\ where \in {"null", "heap", "ext"}
  /\ mode \in IF Dyn THEN {"DynFull", "DynSmall"} ELSE {"Full"}
  /\ err \in {0, 1}
  /\ size \in Nat
  /\ max \in Nat
  /\ block \in Nat
  /\ mode = "DynSmall" => size <= SmallMax /\ max <= SmallMax

----------------------------------------------------------------------------
(* Sizes.                                                                  *)

sdx_full_st == mode # "DynSmall"
sdx_dyn_st == mode # "Full"

HeaderOf(m) == IF m = "DynSmall" THEN SmallHdr ELSE FullHdr

\* An 8-bit counter saturates.
sdx_szt_to_u8_sat(n) == IF n <= SmallMax THEN n ELSE SmallMax

Counter(m, n) == IF m = "DynSmall" THEN sdx_szt_to_u8_sat(n) ELSE n

\* Unsigned arithmetic: an allocation size wraps.
sd_alloc_size_raw(dyn, n) ==
  ((IF dyn /\ n < SmallMax THEN SmallHdr ELSE FullHdr) + ElemSize * n)
    % (SizeMax + 1)

\* Heuristic growth: a quarter more than asked for, within limits.
Increment(n) == LET pct == (n * GrowPct) \div 100
                IN  IF pct <= GrowCap THEN pct ELSE GrowCap

Grown(n) == IF Increment(n) > SizeMax - n THEN n ELSE n + Increment(n)

\* The mode a fresh header gets.
FreshMode(n) == IF ~Dyn THEN "Full"
                ELSE IF n <= SmallMax THEN "DynSmall" ELSE "DynFull"

\* A mutant of sdx_chk_st_change: the boundary is one too low.
StChangeAtLimit(n) == sdx_dyn_st /\ max <= SmallMax /\ n >= SmallMax

\* A dynamic container is taken to be small when its CAPACITY is small.
sdx_chk_st_change(n) == sdx_dyn_st /\ max <= SmallMax /\ n > SmallMax

\* A mutant of SmallHeaderSize: it is read from the header after the reset.
SmallSizeReadLate == 0

\* The size byte of struct SDataSmall; read from a full header, that byte is
\* sub_type, which is 0.
SmallHeaderSize == IF sdx_full_st THEN 0 ELSE size

----------------------------------------------------------------------------
(* Operations.                                                             *)

Init ==
  /\ where = "null" /\ mode = FreshMode(0) /\ err = 0
  /\ size = 0 /\ max = 0 /\ block = 0

sd_reset(n) ==
  /\ mode' = FreshMode(n)
  /\ err' = 0
  /\ size' = 0
  /\ max' = Counter(FreshMode(n), n)

\* A failed malloc leaves the handle on sd_void, which no call below changes:
\* here, no container.
sd_alloc(n) ==
  /\ where = "null"
  /\ where' = "heap"
  /\ block' = sd_alloc_size_raw(Dyn, n) + Tail
  /\ sd_reset(n)

\* The caller's buffer is sized for the type by the same formula.
sd_alloc_into_ext_buf(n) ==
  /\ where = "null" /\ n > 0
  /\ where' = "ext"
  /\ block' = sd_alloc_size_raw(Dyn, n) + Tail
  /\ sd_reset(n)

ReserveFails ==
  /\ err' = 1
  /\ UNCHANGED <<where, mode, size, max, block>>

\* A mutant of ReserveRealloc: the block is sized before the growth.
ReallocBeforeGrowth(n) ==
  LET m == Grown(n)
      toFull == sdx_chk_st_change(m)
  IN  /\ block' = sd_alloc_size_raw(sdx_dyn_st, n) + Tail
      /\ mode' = IF toFull THEN "DynFull" ELSE mode
      /\ size' = IF toFull THEN SmallHeaderSize ELSE size
      /\ max' = Counter(mode', m)
      /\ UNCHANGED <<where, err>>

\* A mutant of ReserveRealloc: the new full header loses the dynamic flag.
ReallocForgetsDyn(n) ==
  LET m == Grown(n)
      toFull == sdx_chk_st_change(m)
  IN  /\ block' = sd_alloc_size_raw(sdx_dyn_st, m) + Tail
      /\ mode' = IF toFull THEN "Full" ELSE mode
      /\ size' = IF toFull THEN SmallHeaderSize ELSE size
      /\ max' = Counter(mode', m)
      /\ UNCHANGED <<where, err>>

ReserveRealloc(n) ==
  LET m == Grown(n)
      toFull == sdx_chk_st_change(m)
  IN  /\ block' = sd_alloc_size_raw(sdx_dyn_st, m) + Tail
      /\ mode' = IF toFull THEN "DynFull" ELSE mode
      /\ size' = IF toFull THEN SmallHeaderSize ELSE size
      /\ max' = Counter(mode', m)
      /\ UNCHANGED <<where, err>>

\* A mutant of sd_reserve: ext_buffer is not checked.
ReserveIgnoringExt(n) ==
  /\ where # "null"
  /\ \/ max >= n /\ UNCHANGED vars
     \/ max < n /\ ReserveFails
     \/ max < n /\ ReserveRealloc(n)

sd_reserve(n) ==
  /\ where # "null"
  /\ \/ max >= n /\ UNCHANGED vars
     \/ max < n /\ ReserveFails              \* ext_buffer, or realloc fails
     \/ max < n /\ where # "ext" /\ ReserveRealloc(n)

sd_grow(extra) ==
  IF extra > SizeMax - size
  THEN where # "null" /\ UNCHANGED vars
  ELSE sd_reserve(size + extra)

\* Only the realloc of a full-header heap container; its failure is ignored.
sd_shrink ==
  /\ where # "null"
  /\ \/ UNCHANGED vars
     \/ /\ where # "ext" /\ sdx_full_st /\ size < max
        /\ block' = sd_alloc_size_raw(FALSE, size) + Tail
        /\ max' = size
        /\ UNCHANGED <<where, mode, err, size>>

\* Clients write elements below max only, after a grow that made room.
sdx_set_size(n) ==
  /\ where # "null" /\ n <= max
  /\ size' = Counter(mode, n)
  /\ UNCHANGED <<where, mode, err, max, block>>

sd_reset_alloc_errors ==
  /\ where # "null"
  /\ err' = 0
  /\ UNCHANGED <<where, mode, size, max, block>>

\* External buffers are not released (S_ASSERT): their owner drops them.
sd_free ==
  /\ where # "null"
  /\ where' = "null" /\ mode' = FreshMode(0) /\ err' = 0
  /\ size' = 0 /\ max' = 0 /\ block' = 0

----------------------------------------------------------------------------
(* Specifications.                                                         *)

Requests == 0 .. ReqMax

\* sd_shrink may leave a full-header string with a small capacity.
ShrinkToSmall == sdx_dyn_st /\ sdx_full_st /\ size <= SmallMax

\* Every call but the shrink of a long string to a short one.
CoreNext ==
  \/ \E n \in Requests : \/ sd_alloc(n)
                         \/ sd_alloc_into_ext_buf(n)
                         \/ sd_reserve(n)
                         \/ size + n <= ReqMax /\ sd_grow(n)
                         \/ sdx_set_size(n)
  \/ ~ShrinkToSmall /\ sd_shrink
  \/ sd_reset_alloc_errors
  \/ sd_free

Next == CoreNext \/ sd_shrink

CoreSpec == Init /\ [][CoreNext]_vars
Spec == Init /\ [][Next]_vars

----------------------------------------------------------------------------
(* Properties.                                                             *)

\* The elements in use fit in the announced capacity, and the block is long
\* enough for the header and the announced elements: sd_reserve_aux and
\* sd_shrink keep the realloc size, max_size and st_mode in step.
BlockCovers ==
  where # "null" => /\ size <= max
                    /\ block >= HeaderOf(mode) + ElemSize * max + Tail

\* Changing the capacity of a live container neither loses nor adds an
\* element, in particular when the header changes from small to full
\* (sdata.c:163-172).
ResizeKeepsElements ==
  [][where # "null" /\ where' # "null" /\ max' # max => size' = size]_vars

\* A container in a caller's buffer keeps that buffer until it is dropped:
\* neither reserve nor shrink reallocates it.
ExtBufferFixed ==
  [][where = "ext" /\ where' # "null"
       => where' = "ext" /\ block' = block /\ max' = max]_vars

\* The header kind follows the capacity: a dynamic container is small exactly
\* when its capacity is, which sdx_chk_st_change takes for granted.
HeaderMatchesCapacity ==
  sdx_dyn_st => (mode = "DynSmall" <=> max <= SmallMax)
============================================================================
