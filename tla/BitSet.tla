------------------------------- MODULE BitSet -------------------------------
(***************************************************************************)
(* Bit sets (sbitset.c, sbitset.h): a generic vector of bytes, with the    *)
(* number of bits set kept in the header where a vector keeps its compare  *)
(* function (the union vx).                                                *)
(***************************************************************************)
EXTENDS Integers, FiniteSets

CONSTANTS
  ByteBits,  \* bits in a byte; 8 in the code
  GrowPct,   \* SD_GROW_PCT
  MaxBit     \* bound: the largest bit the client names

\* What the constants are.
BitSetAssumption == ByteBits \in Nat \ {0} /\ GrowPct \in Nat /\ MaxBit \in Nat

VARIABLES
  size,   \* bytes in use
  max,    \* bytes there is room for; 0: no bit set
  bit,    \* the bits of the block: 0, 1 or Unwritten
  cnt     \* vx.cnt

vars == <<size, max, bit, cnt>>

Unwritten == 2
Bits(bytes) == 0 .. bytes * ByteBits - 1

SB_BITS2BYTES(n) == 1 + n \div ByteBits

Init == size = 0 /\ max = 0 /\ bit = << >> /\ cnt = 0

\* sb_clear: all the bytes there is room for, in use and 0.
Cleared(bytes) ==
  /\ size' = bytes
  /\ bit' = [i \in Bits(bytes) |-> 0]
  /\ cnt' = 0

sb_alloc(n) ==
  /\ max = 0
  /\ max' = SB_BITS2BYTES(n)
  /\ Cleared(SB_BITS2BYTES(n))

sb_clear == max > 0 /\ Cleared(max) /\ UNCHANGED max

InUse(n) == n \div ByteBits + 1 <= size

\* sb_set: a bit out of range is ignored, and one that is set not counted.
sb_set(n) ==
  /\ max > 0
  /\ IF InUse(n) /\ bit[n] = 0
       THEN bit' = [bit EXCEPT ![n] = 1] /\ cnt' = cnt + 1
       ELSE UNCHANGED <<bit, cnt>>
  /\ UNCHANGED <<size, max>>

\* A mutant of sb_reset: a bit that is not set is counted too.
sb_resetAlways(n) ==
  /\ max > 0
  /\ IF InUse(n)
       THEN bit' = [bit EXCEPT ![n] = 0] /\ cnt' = cnt - 1
       ELSE UNCHANGED <<bit, cnt>>
  /\ UNCHANGED <<size, max>>

sb_reset(n) ==
  /\ max > 0
  /\ IF InUse(n) /\ bit[n] # 0
       THEN bit' = [bit EXCEPT ![n] = 0] /\ cnt' = cnt - 1
       ELSE UNCHANGED <<bit, cnt>>
  /\ UNCHANGED <<size, max>>

\* sb_reserve: more room, if it can be had, which is not in use until the set is
\* cleared.
sb_reserve(n) ==
  /\ max > 0
  /\ LET want == SB_BITS2BYTES(n)
     IN  max' \in {max} \cup {b \in {want + (want * GrowPct) \div 100} : want > max}
  /\ bit' = [i \in Bits(max') |-> IF i \in DOMAIN bit THEN bit[i] ELSE Unwritten]
  /\ UNCHANGED <<size, cnt>>

\* sb_dup, the copy taking the place of the set: the bytes in use, and the
\* count, which goes over as a compare function.
sb_dup ==
  /\ max > 0
  /\ max' = size
  /\ bit' = [i \in Bits(size) |-> bit[i]]
  /\ UNCHANGED <<size, cnt>>

sb_free == max > 0 /\ max' = 0 /\ Cleared(0)

Next ==
  \/ \E n \in 0 .. MaxBit : sb_alloc(n) \/ sb_set(n) \/ sb_reset(n) \/ sb_reserve(n)
  \/ sb_clear \/ sb_dup \/ sb_free

Spec == Init /\ [][Next]_vars

\* The population count, which is never recounted, is the number of bits set,
\* and every bit in use has been written: through bits set or reset twice or
\* out of range, room reserved and room taken into use, and copies.
CountExact ==
  /\ \A i \in Bits(size) : bit[i] # Unwritten
  /\ cnt = Cardinality({i \in Bits(size) : bit[i] = 1})
=============================================================================
