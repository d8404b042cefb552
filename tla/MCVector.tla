------------------------------ MODULE MCVector ------------------------------
(***************************************************************************)
(* TLC instance of Vector, of BitSet, which is made of one, and of the     *)
(* sorts behind sv_sort.                                                   *)
(*   MCVectorOps    two vectors of either of two types, one of up to three *)
(*                  elements and one of up to one; or a bit set of bytes   *)
(*                  of two bits; or up to five 2-bit "bytes" to count, or  *)
(*                  six 4-bit words to sort by their bits                  *)
(*   MCVectorSort   the words alone, which are not always sorted           *)
(***************************************************************************)
EXTENDS Vector

CONSTANT Subjects

ElemSizes == [t \in {"u8", "u16"} |-> IF t = "u8" THEN 1 ELSE 2]
Subs == [t \in {"u8", "u16"} |-> t]
Lens == [h \in {"v", "w"} |-> IF h = "v" THEN 3 ELSE 1]

VARIABLES subject, size, max, bit, cnt, buf, signed

bvars == <<size, max, bit, cnt>>
svars == <<buf, signed>>

BitSet == INSTANCE BitSet WITH ByteBits <- 2, MaxBit <- 6
Bytes == INSTANCE Sorting WITH Width <- 2, Word <- 0 .. 3, MaxWords <- 5
Radix == INSTANCE Sorting WITH Width <- 4, Word <- {0, 1, 2, 7, 9}, MaxWords <- 6

ASSUME BitSet!BitSetAssumption /\ Bytes!SortingAssumption /\ Radix!SortingAssumption

MCInit == Init /\ BitSet!Init /\ Bytes!Init /\ subject \in Subjects

MCNext ==
  /\ UNCHANGED subject
  /\ \/ subject = "vectors" /\ Next /\ UNCHANGED <<bvars, svars>>
     \/ subject = "bits" /\ BitSet!Next /\ UNCHANGED <<vars, svars>>
     \/ subject = "bytes" /\ Bytes!Add /\ UNCHANGED <<vars, bvars>>
     \/ subject = "words" /\ Radix!Add /\ UNCHANGED <<vars, bvars>>

MCSpec == MCInit /\ [][MCNext]_<<vars, subject, bvars, svars>>

\* BitSet's property: the count is the number of bits set.
BitCountExact == BitSet!CountExact

\* Sorting's properties: counting sorts, and the radix sort keeps every word
\* and, where s_msb gives one bit, leaves unsorted what the networks of three
\* and of four leave, and nothing else.
SortsExact ==
  /\ subject = "bytes" => Bytes!CountSorts
  /\ subject = "words" => Radix!RadixSorts

\* The radix sort sorts.  It does not where s_msb gives more than one bit, and
\* where a part of three or of four words goes to a network.
WordsSorted == Radix!RadixSortsAll
=============================================================================
