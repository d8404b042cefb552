------------------------------- MODULE Sorting -------------------------------
(***************************************************************************)
(* The sorts behind sv_sort (saux/ssort.c): counting for bytes, and for    *)
(* wider words a radix sort from the most significant bit on, which works  *)
(* in place and ends in sorting networks.                                  *)
(*                                                                         *)
(* A buffer is a function on 0 .. elems - 1 to words, as unsigned numbers; *)
(* `signed' tells how they compare.  The templates of the code are one     *)
(* operator for all widths, and what it keeps in words used as masks (acc, *)
(* msd_bit) are sets of bits.                                              *)
(***************************************************************************)
EXTENDS Integers, FiniteSets, FiniteSetsExt, SequencesExt

CONSTANTS
  Width,     \* bits in a word
  Word,      \* the words the client sorts
  MaxWords   \* bound: elements in a buffer

Words == 2^Width
Half  == 2^(Width - 1)

\* What the constants are.
SortingAssumption ==
  Width \in Nat \ {0, 1} /\ Word \subseteq 0 .. Words - 1 /\ MaxWords \in Nat

VARIABLES buf, signed    \* the sequence to sort, and the type of its words

\* The value of a word of type T, and its place among all words (TC, plus OFF).
Value(x) == IF signed /\ x >= Half THEN x - Words ELSE x
Place(x) == IF signed THEN (x + Half) % Words ELSE x

BitsOf == [x \in 0 .. Words - 1 |-> {k \in 0 .. Width - 1 : (x \div 2^k) % 2 = 1}]

\* BUILD_S_MSB: the bits of v are smeared downwards by 1, 2, 4 ... places, as
\* long as that is less than half a word, and of every run the first one stays.
s_msb(v) ==
  LET shifts == {2^k : k \in {n \in 0 .. Width : 2 * 2^n < Width}}
      down(s, i) == s \cup {k - i : k \in {m \in s : m >= i}}
      smeared == FoldLeft(down, v, SetToSortSeq(shifts, <))
  IN  smeared \ {k - 1 : k \in smeared}

Swapped(b, i, j) == [b EXCEPT ![i] = b[j], ![j] = b[i]]

\* Words i and j, swapped when the first is the greater one.
Ordered(b, i, j) == IF Value(b[i]) > Value(b[j]) THEN Swapped(b, i, j) ELSE b

----------------------------------------------------------------------------
(* BUILD_COUNT_SORT_x8.                                                    *)

\* The counters are as narrow as the words when these are few, and else as wide
\* as a size: they count modulo this.
CounterRange(elems) == IF elems < Words THEN Words ELSE elems + 1

CountSort(b, elems) ==
  LET cnt(p) == Cardinality({i \in 0 .. elems - 1 : Place(b[i]) = p})
                  % CounterRange(elems)
      below[p \in 0 .. Words] == IF p = 0 THEN 0 ELSE below[p - 1] + cnt(p - 1)
      over(i) == {p \in 0 .. Words - 1 : below[p] <= i /\ i < below[p + 1]}
  IN  [i \in 0 .. elems - 1 |->
         IF over(i) = {} THEN b[i]
         ELSE LET p == CHOOSE q \in over(i) : TRUE
              IN  IF signed THEN (p + Half) % Words ELSE p]

----------------------------------------------------------------------------
(* BUILD_MSD_RADIX_SORT.                                                   *)

\* The networks, on the words from `at' on.  Only that of two sorts: 1, 3, 2
\* stays as it is, and 2, 3, 0, 1 becomes 0, 2, 1, 3, because the last but one
\* comparison of four is of the words compared just before it.
Sort2(b, at) == Ordered(b, at, at + 1)

Sort3(b, at) == Sort2(Ordered(b, at, at + 2), at)

\* A mutant of Sort4: the last comparison is left out.
Sort4Short(b, at) ==
  LET pairs == Sort2(Sort2(b, at), at + 2)
  IN  Ordered(Sort2(Ordered(pairs, at, at + 2), at + 1), at + 1, at + 2)

Sort4(b, at) ==
  LET pairs  == Sort2(Sort2(b, at), at + 2)
      middle == Sort2(Ordered(pairs, at, at + 2), at + 1)
  IN  Sort2(Ordered(middle, at + 1, at + 2), at + 2)

\* From both ends of the elems words at `at': words with none of the bits to
\* the front, and words with one of them to the back; i is how many go to the
\* front in the end.
RECURSIVE Partition(_, _, _, _, _, _)
Partition(b, at, elems, msd_bit, i, j) ==
  LET has(k) == BitsOf[Place(b[at + k])] \cap msd_bit # {}
      stops  == {k \in i .. j : k = i \/ ~has(k)}
      last   == IF stops = {} THEN j ELSE Max(stops)
  IN  IF i >= elems THEN [b |-> b, i |-> i]
      ELSE IF ~has(i) THEN Partition(b, at, elems, msd_bit, i + 1, j)
      ELSE IF last <= i THEN [b |-> b, i |-> i]
      ELSE Partition(Swapped(b, at + i, at + last), at, elems, msd_bit, i + 1, last - 1)

\* FN##_aux, and what it does with either part.
RECURSIVE RadixSort(_, _, _, _, _)
SortPart(b, at, elems, acc, msd_bit) ==
  CASE elems <= 1 -> b
    [] elems = 2  -> Sort2(b, at)
    [] elems = 3  -> Sort3(b, at)
    [] elems = 4  -> Sort4(b, at)
    [] OTHER      -> RadixSort(b, at, elems, acc, msd_bit)

RadixSort(b, at, elems, acc, msd_bit) ==
  LET parts == Partition(b, at, elems, msd_bit, 0, elems - 1)
      left  == acc \ msd_bit
      bit   == IF parts.i > 4 \/ elems - parts.i > 4 THEN s_msb(left) ELSE msd_bit
  IN  IF left = {} THEN parts.b
      ELSE SortPart(SortPart(parts.b, at, parts.i, left, bit),
                    at + parts.i, elems - parts.i, left, bit)

\* The bits in which neighbours differ.
Differing(b, elems) ==
  UNION {SymDiff(BitsOf[Place(b[i - 1])], BitsOf[Place(b[i])]) : i \in 1 .. elems - 1}

\* ssort_u16 and the like.
MSDRadixSort(b, elems) ==
  LET acc == Differing(b, elems)
  IN  IF elems <= 1 \/ acc = {} THEN b ELSE RadixSort(b, 0, elems, acc, s_msb(acc))

----------------------------------------------------------------------------
(* A client that sorts what it has, one more word at a time.               *)

Init == buf = << >> /\ signed \in BOOLEAN

Add == \E w \in Word : Len(buf) < MaxWords /\ buf' = Append(buf, w) /\ UNCHANGED signed

Elems  == Len(buf)
Buffer == [i \in 0 .. Elems - 1 |-> buf[i + 1]]

Same(b, c) ==
  \A w \in Word : Cardinality({i \in DOMAIN b : b[i] = w}) = Cardinality({i \in DOMAIN c : c[i] = w})
Inversions(b) ==
  {p \in (DOMAIN b) \X (DOMAIN b) : p[1] < p[2] /\ Value(b[p[1]]) > Value(b[p[2]])}

\* Counting never loses a word to a counter that overflows, and sorts.
CountSorts ==
  LET out == CountSort(Buffer, Elems)
  IN  Same(Buffer, out) /\ Inversions(out) = {}

\* The network of three may leave its last two words the wrong way round, and
\* that of four its middle two; neither leaves anything else unsorted.
NetworksLeave ==
  /\ Elems = 3 => Inversions(Sort3(Buffer, 0)) \subseteq {<<1, 2>>}
  /\ Elems = 4 => Inversions(Sort4(Buffer, 0)) \subseteq {<<1, 2>>}

\* The radix sort keeps every word.  Where the words differ in a run of lowest
\* bits and nowhere else, s_msb gives one bit, and all that is left unsorted is
\* what the networks leave in parts of three and of four: pairs of neighbours,
\* apart from each other, and never the first word.
RadixSorts ==
  LET out == MSDRadixSort(Buffer, Elems)
      gapless == \E k \in 0 .. Width : Differing(Buffer, Elems) = 0 .. k - 1
  IN  /\ Same(Buffer, out)
      /\ NetworksLeave
      /\ gapless => \A p, q \in Inversions(out) :
           p[1] > 0 /\ p[2] = p[1] + 1 /\ Elems > 3 /\ p[2] # q[1]

\* The radix sort sorts.
RadixSortsAll == Inversions(MSDRadixSort(Buffer, Elems)) = {}
=============================================================================
