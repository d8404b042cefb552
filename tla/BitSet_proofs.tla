---------------------------- MODULE BitSet_proofs ----------------------------
(***************************************************************************)
(* For every size of a byte, growth and number of bits: the population     *)
(* count of a bit set is the number of bits set, and no bit in use is one  *)
(* that was never written.                                                 *)
(***************************************************************************)
EXTENDS BitSet, FiniteSetTheorems, TLAPS

SetBits == {i \in Bits(size) : bit[i] = 1}

IInv ==
  /\ size \in Nat /\ max \in Nat /\ size <= max
  /\ bit \in [Bits(max) -> {0, 1, Unwritten}]
  /\ CountExact

----------------------------------------------------------------------------
(* Bytes and bits.                                                         *)

\* A bit lies below the end of its byte.
LEMMA BelowByteEnd ==
  ASSUME NEW n \in Nat, NEW b \in Nat \ {0}
  PROVE  n \div b \in Nat /\ n < (n \div b + 1) * b
OBVIOUS

\* More bytes, more bits.
LEMMA MoreBytes ==
  ASSUME NEW a \in Nat, NEW b \in Nat, a <= b, NEW c \in Nat
  PROVE  a * c <= b * c
OBVIOUS

LEMMA MoreBits ==
  ASSUME NEW a \in Nat, NEW b \in Nat, a <= b, BitSetAssumption
  PROVE  Bits(a) \subseteq Bits(b)
<1>1. PICK c : c = ByteBits
  OBVIOUS
<1>2. c \in Nat
  BY <1>1 DEF BitSetAssumption
<1>3. a * c <= b * c /\ a * c \in Int /\ b * c \in Int
  BY <1>2, MoreBytes
<1>. QED
  BY <1>1, <1>3 DEF Bits

\* The bits sb_set and sb_reset change are bits of the bytes in use.
LEMMA InUseIsBit ==
  ASSUME NEW n \in Nat, InUse(n), size \in Nat, BitSetAssumption
  PROVE  n \in Bits(size)
<1>1. PICK b, q : b = ByteBits /\ q = n \div b
  OBVIOUS
<1>2. b \in Nat \ {0}
  BY <1>1 DEF BitSetAssumption
<1>3. q \in Nat /\ n < (q + 1) * b
  BY <1>1, <1>2, BelowByteEnd
<1>4. q + 1 <= size /\ q + 1 \in Nat
  BY <1>1, <1>3 DEF InUse
<1>5. (q + 1) * b <= size * b /\ size * b \in Int /\ (q + 1) * b \in Int
  BY <1>2, <1>4, MoreBytes
<1>6. n < size * b
  BY <1>3, <1>5
<1>. QED
  BY <1>1, <1>5, <1>6 DEF Bits

\* There are finitely many bits.
LEMMA FiniteBits ==
  ASSUME BitSetAssumption, NEW n \in Nat, NEW S, S \subseteq Bits(n)
  PROVE  IsFiniteSet(S)
<1>1. PICK h : h = n * ByteBits - 1
  OBVIOUS
<1>2. h \in Int /\ 0 \in Int
  BY <1>1 DEF BitSetAssumption
<1>3. IsFiniteSet(0 .. h)
  BY <1>2, FS_Interval
<1>. QED
  BY <1>1, <1>3, FS_Subset DEF Bits

----------------------------------------------------------------------------
(* The calls.                                                              *)

\* All bytes in use, and no bit set.
LEMMA ClearedIs ==
  ASSUME BitSetAssumption, NEW n \in Nat, Cleared(n), max' = n
  PROVE  IInv'
<1>1. SetBits' = {}
  BY DEF Cleared, SetBits
<1>2. Cardinality(SetBits') = 0
  BY <1>1, FS_EmptySet
<1>3. CountExact'
  BY <1>2 DEF CountExact, Cleared, SetBits, Unwritten
<1>. QED
  BY <1>3 DEF IInv, Cleared

\* A bit that was not set is one more.
LEMMA SetOne ==
  ASSUME BitSetAssumption, IInv, NEW n \in Nat, InUse(n), bit[n] = 0,
         bit' = [bit EXCEPT ![n] = 1], cnt' = cnt + 1, UNCHANGED <<size, max>>
  PROVE  IInv'
<1>1. n \in Bits(size) /\ n \in Bits(max)
  BY InUseIsBit, MoreBits DEF IInv
<1>2. SetBits' = SetBits \cup {n} /\ n \notin SetBits
  BY <1>1, MoreBits DEF SetBits, IInv
<1>3. IsFiniteSet(SetBits)
  BY FiniteBits DEF SetBits, IInv
<1>4. Cardinality(SetBits') = Cardinality(SetBits) + 1
  BY <1>2, <1>3, FS_AddElement
<1>5. bit' \in [Bits(max)' -> {0, 1, Unwritten}]
  BY <1>1 DEF IInv, Bits
<1>6. \A i \in Bits(size)' : bit'[i] # Unwritten
  BY <1>1, MoreBits DEF IInv, CountExact, Unwritten, Bits
<1>. QED
  BY <1>4, <1>5, <1>6 DEF IInv, CountExact, SetBits

\* A bit that was set is one less.
LEMMA ResetOne ==
  ASSUME BitSetAssumption, IInv, NEW n \in Nat, InUse(n), bit[n] # 0,
         bit' = [bit EXCEPT ![n] = 0], cnt' = cnt - 1, UNCHANGED <<size, max>>
  PROVE  IInv'
<1>1. n \in Bits(size) /\ n \in Bits(max)
  BY InUseIsBit, MoreBits DEF IInv
<1>2. bit[n] = 1
  BY <1>1 DEF IInv, CountExact
<1>3. SetBits' = SetBits \ {n} /\ n \in SetBits
  BY <1>1, <1>2, MoreBits DEF SetBits, IInv
<1>4. IsFiniteSet(SetBits)
  BY FiniteBits DEF SetBits, IInv
<1>5. Cardinality(SetBits') = Cardinality(SetBits) - 1
  BY <1>3, <1>4, FS_RemoveElement
<1>6. bit' \in [Bits(max)' -> {0, 1, Unwritten}]
  BY <1>1 DEF IInv, Bits
<1>7. \A i \in Bits(size)' : bit'[i] # Unwritten
  BY <1>1, MoreBits DEF IInv, CountExact, Unwritten, Bits
<1>. QED
  BY <1>5, <1>6, <1>7 DEF IInv, CountExact, SetBits

\* More room, or less, as long as the bits in use stay as they are.
LEMMA SameBits ==
  ASSUME BitSetAssumption, IInv, max' \in Nat, size <= max', UNCHANGED <<size, cnt>>,
         bit' \in [Bits(max') -> {0, 1, Unwritten}],
         \A i \in Bits(size) : bit'[i] = bit[i]
  PROVE  IInv'
<1>1. SetBits' = SetBits
  BY DEF SetBits, Bits
<1>2. CountExact'
  BY <1>1 DEF IInv, CountExact, SetBits, Bits
<1>. QED
  BY <1>2 DEF IInv, Bits

LEMMA ReserveStep ==
  ASSUME BitSetAssumption, IInv, NEW n \in 0 .. MaxBit, sb_reserve(n)
  PROVE  IInv'
<1>1. SB_BITS2BYTES(n) \in Nat
  BY BelowByteEnd DEF SB_BITS2BYTES, BitSetAssumption
<1>2. PICK want : want = SB_BITS2BYTES(n)
  OBVIOUS
<1>3. want \in Nat
  BY <1>1, <1>2
<1>4. (want * GrowPct) \div 100 \in Nat
  BY <1>3 DEF BitSetAssumption
<1>5. max' \in {max} \cup {b \in {want + (want * GrowPct) \div 100} : want > max}
  BY <1>2 DEF sb_reserve
<1>6. max' \in Nat /\ max <= max'
  BY <1>3, <1>4, <1>5 DEF IInv
<1>7. size <= max' /\ max \in Nat /\ size \in Nat
  BY <1>6 DEF IInv
<1>8. /\ bit' = [i \in Bits(max') |-> IF i \in DOMAIN bit THEN bit[i] ELSE Unwritten]
      /\ UNCHANGED <<size, cnt>>
  BY DEF sb_reserve
<1>9. Bits(size) \subseteq Bits(max) /\ Bits(max) \subseteq Bits(max')
  BY <1>6, <1>7, MoreBits DEF IInv
<1>10. bit' \in [Bits(max') -> {0, 1, Unwritten}]
  BY <1>8 DEF IInv
<1>11. \A i \in Bits(size) : bit'[i] = bit[i]
  BY <1>8, <1>9 DEF IInv
<1>. QED
  BY <1>6, <1>7, <1>8, <1>10, <1>11, SameBits

LEMMA NextInv ==
  ASSUME BitSetAssumption, IInv, [Next]_vars
  PROVE  IInv'
<1>1. ASSUME NEW n \in 0 .. MaxBit, sb_alloc(n)
      PROVE  IInv'
  <2>1. SB_BITS2BYTES(n) \in Nat
    BY BelowByteEnd DEF SB_BITS2BYTES, BitSetAssumption
  <2>. QED
    BY <1>1, <2>1, ClearedIs DEF sb_alloc
<1>2. ASSUME NEW n \in 0 .. MaxBit, sb_set(n)
      PROVE  IInv'
  <2>1. CASE InUse(n) /\ bit[n] = 0
    BY <1>2, <2>1, SetOne DEF sb_set
  <2>2. CASE ~(InUse(n) /\ bit[n] = 0)
    BY <1>2, <2>2, SameBits DEF sb_set, IInv
  <2>. QED
    BY <2>1, <2>2
<1>3. ASSUME NEW n \in 0 .. MaxBit, sb_reset(n)
      PROVE  IInv'
  <2>1. CASE InUse(n) /\ bit[n] # 0
    BY <1>3, <2>1, ResetOne DEF sb_reset
  <2>2. CASE ~(InUse(n) /\ bit[n] # 0)
    BY <1>3, <2>2, SameBits DEF sb_reset, IInv
  <2>. QED
    BY <2>1, <2>2
<1>4. CASE sb_clear
  BY <1>4, ClearedIs DEF sb_clear, IInv
<1>5. CASE sb_dup
  <2>1. bit' \in [Bits(size) -> {0, 1, Unwritten}] /\ \A i \in Bits(size) : bit'[i] = bit[i]
    BY <1>5, MoreBits DEF sb_dup, IInv
  <2>. QED
    BY <1>5, <2>1, SameBits DEF sb_dup, IInv
<1>6. CASE sb_free
  BY <1>6, ClearedIs DEF sb_free
<1>7. CASE UNCHANGED vars
  BY <1>7, SameBits DEF vars, IInv
<1>. QED
  BY <1>1, <1>2, <1>3, <1>4, <1>5, <1>6, <1>7, ReserveStep DEF Next

----------------------------------------------------------------------------
(* Theorem.                                                                *)

\* The population count, which is never recounted, is the number of bits set,
\* and every bit in use has been written, after any calls.
THEOREM BitSetCountExact ==
  ASSUME BitSetAssumption
  PROVE  Spec => []CountExact
<1>1. Init => IInv
  <2>1. SUFFICES ASSUME Init PROVE IInv
    OBVIOUS
  <2>2. Bits(0) = {}
    BY DEF BitSetAssumption, Bits
  <2>3. SetBits = {}
    BY <2>1, <2>2 DEF Init, SetBits
  <2>4. Cardinality(SetBits) = 0
    BY <2>3, FS_EmptySet
  <2>5. CountExact
    BY <2>1, <2>2, <2>4 DEF Init, CountExact, SetBits
  <2>. QED
    BY <2>1, <2>2, <2>5 DEF Init, IInv
<1>2. IInv /\ [Next]_vars => IInv'
  BY NextInv
<1>3. IInv => CountExact
  BY DEF IInv
<1>. QED
  BY <1>1, <1>2, <1>3, PTL DEF Spec
=============================================================================
