---------------------------- MODULE HashMap_proofs ----------------------------
(***************************************************************************)
(* For every hash, every table size and every set of keys and values: a    *)
(* hash map is the map KeyMap specifies, its buckets index its elements    *)
(* one to one, the counts the look-ups stop on are exact, and every        *)
(* insertion that is let through finds a free bucket.                      *)
(***************************************************************************)
EXTENDS HashMap, FiniteSetTheorems, WellFoundedInduction, TLAPS

----------------------------------------------------------------------------
(* Induction, least elements and powers of two.                            *)

\* The order of the naturals is well-founded, as a set of pairs.
LEMMA NatOrder == IsWellFoundedOn({p \in Nat \X Nat : p[1] < p[2]}, Nat)
BY NatLessThanWellFounded DEF OpToRel

\* A set of naturals that is not empty has a least element.
LEMMA LeastNat ==
  ASSUME NEW T, T \subseteq Nat, T # {}
  PROVE  \E x \in T : \A y \in T : x <= y
<1>1. PICK x \in T : \A y \in T : <<y, x>> \notin {p \in Nat \X Nat : p[1] < p[2]}
  BY NatOrder, WFMin
<1>2. ASSUME NEW y \in T PROVE x <= y
  <2>1. <<y, x>> \in Nat \X Nat
    OBVIOUS
  <2>2. ~ (y < x)
    BY <1>1, <2>1
  <2>. QED
    BY <2>2
<1>. QED
  BY <1>2

\* ... which Min names.
LEMMA MinNat ==
  ASSUME NEW T, T \subseteq Nat, T # {}
  PROVE  Min(T) \in T /\ \A y \in T : Min(T) <= y
BY LeastNat DEF Min

\* What holds of 0, and of i + 1 when it holds of i, holds up to n.
LEMMA UpTo ==
  ASSUME NEW n \in Nat, NEW S, 0 \in S, \A i \in 0 .. n - 1 : i \in S => i + 1 \in S
  PROVE  \A i \in 0 .. n : i \in S
<1>. DEFINE T == (0 .. n) \ S
<1>1. SUFFICES ASSUME T # {} PROVE FALSE
  OBVIOUS
<1>2. PICK x \in T : \A y \in T : x <= y
  <2>1. T \subseteq Nat
    OBVIOUS
  <2>. HIDE DEF T
  <2>. QED
    BY <1>1, <2>1, LeastNat
<1>3. x # 0 /\ x \in 1 .. n
  BY <1>2
<1>4. x - 1 \in 0 .. n - 1 /\ x - 1 \notin T
  BY <1>2, <1>3
<1>5. x - 1 \in S
  BY <1>4
<1>6. (x - 1) + 1 \in S
  BY <1>4, <1>5
<1>. QED
  BY <1>3, <1>6

\* The hash has some bits.
LEMMA HashBitsNat == HashBits \in Nat \ {0}
BY HashMapAssumption

\* There is such a function as the definition of Pow2 describes.
LEMMA Pow2Exists ==
  \E F : F = [n \in 0 .. HashBits |-> IF n = 0 THEN 1 ELSE 2 * F[n - 1]]
<1>. DEFINE Upto(F, k) == F = [n \in 0 .. k |-> IF n = 0 THEN 1 ELSE 2 * F[n - 1]]
            S == {k \in Nat : \E F : Upto(F, k)}
<1>1. 0 \in S
  <2>1. Upto([n \in 0 .. 0 |-> 1], 0)
    OBVIOUS
  <2>. QED
    BY <2>1
<1>2. ASSUME NEW k \in Nat, k \in S
      PROVE  k + 1 \in S
  <2>1. PICK F : Upto(F, k)
    BY <1>2
  <2>. DEFINE G == [n \in 0 .. k + 1 |-> IF n = k + 1 THEN 2 * F[k] ELSE F[n]]
  <2>2. ASSUME NEW n \in 0 .. k + 1
        PROVE  G[n] = IF n = 0 THEN 1 ELSE 2 * G[n - 1]
    <3>1. \A i \in 0 .. k : F[i] = IF i = 0 THEN 1 ELSE 2 * F[i - 1]
      BY <2>1
    <3>2. CASE n = k + 1
      BY <3>2
    <3>3. CASE n # k + 1
      <4>1. n \in 0 .. k /\ (n # 0 => n - 1 \in 0 .. k)
        BY <3>3
      <4>. QED
        BY <3>1, <3>3, <4>1
    <3>. QED
      BY <3>2, <3>3
  <2>3. G = [n \in 0 .. k + 1 |-> G[n]]
    OBVIOUS
  <2>. HIDE DEF G
  <2>4. Upto(G, k + 1)
    BY <2>2, <2>3
  <2>. HIDE DEF Upto
  <2>. QED
    BY <2>4
<1>. HIDE DEF S
<1>3. \A i \in 0 .. HashBits : i \in S
  BY <1>1, <1>2, HashBitsNat, UpTo
<1>4. HashBits \in S
  BY <1>3, HashBitsNat
<1>. QED
  BY <1>4 DEF S

\* Pow2 is 1 at 0, and doubles with every bit.
LEMMA Pow2Is ==
  Pow2 = [n \in 0 .. HashBits |-> IF n = 0 THEN 1 ELSE 2 * Pow2[n - 1]]
BY Pow2Exists, Zenon DEF Pow2

\* One more bit, twice the value.
LEMMA Pow2Step ==
  /\ Pow2[0] = 1
  /\ \A n \in 0 .. HashBits - 1 : Pow2[n + 1] = 2 * Pow2[n]
<1>1. \A n \in 0 .. HashBits : Pow2[n] = IF n = 0 THEN 1 ELSE 2 * Pow2[n - 1]
  BY Pow2Is
<1>2. ASSUME NEW n \in 0 .. HashBits - 1
      PROVE  Pow2[n + 1] = 2 * Pow2[n]
  <2>1. n + 1 \in 0 .. HashBits /\ n + 1 # 0 /\ (n + 1) - 1 = n
    BY HashBitsNat
  <2>2. Pow2[n + 1] = 2 * Pow2[(n + 1) - 1]
    BY <1>1, <2>1
  <2>. QED
    BY <2>1, <2>2
<1>. QED
  BY <1>1, <1>2, HashBitsNat

\* A power of two is positive, and even but for the first.
LEMMA Pow2Nat == \A n \in 0 .. HashBits : Pow2[n] \in Nat \ {0} /\ (n > 0 => Pow2[n] >= 2)
<1>. DEFINE S == {n \in 0 .. HashBits : Pow2[n] \in Nat \ {0} /\ (n > 0 => Pow2[n] >= 2)}
<1>1. 0 \in S
  BY Pow2Step, HashBitsNat
<1>2. ASSUME NEW i \in 0 .. HashBits - 1, i \in S
      PROVE  i + 1 \in S
  BY <1>2, Pow2Step, HashBitsNat
<1>. HIDE DEF S
<1>3. \A i \in 0 .. HashBits : i \in S
  BY <1>1, <1>2, HashBitsNat, UpTo
<1>. QED
  BY <1>3 DEF S

\* Longer hashes, larger tables.
LEMMA Pow2Order ==
  \A n \in 0 .. HashBits : Pow2[n] <= Pow2[HashBits] /\
                           (n < HashBits => 2 * Pow2[n] <= Pow2[HashBits])
<1>. DEFINE S == {i \in 0 .. HashBits : Pow2[HashBits - i] <= Pow2[HashBits] /\
                    (i > 0 => 2 * Pow2[HashBits - i] <= Pow2[HashBits])}
<1>1. 0 \in S
  BY Pow2Nat, HashBitsNat
<1>2. ASSUME NEW i \in 0 .. HashBits - 1, i \in S
      PROVE  i + 1 \in S
  <2>1. HashBits - (i + 1) \in 0 .. HashBits - 1 /\ (HashBits - (i + 1)) + 1 = HashBits - i
    BY HashBitsNat
  <2>2. Pow2[HashBits - i] = 2 * Pow2[HashBits - (i + 1)]
    BY <2>1, Pow2Step
  <2>3. Pow2[HashBits - (i + 1)] \in Nat
    BY <2>1, Pow2Nat, HashBitsNat
  <2>. QED
    BY <1>2, <2>1, <2>2, <2>3, Pow2Nat, HashBitsNat
<1>. HIDE DEF S
<1>3. \A i \in 0 .. HashBits : i \in S
  BY <1>1, <1>2, HashBitsNat, UpTo
<1>4. ASSUME NEW n \in 0 .. HashBits
      PROVE  HashBits - n \in S /\ HashBits - (HashBits - n) = n
  BY <1>3, HashBitsNat
<1>5. ASSUME NEW n \in 0 .. HashBits
      PROVE  Pow2[n] <= Pow2[HashBits] /\ (n < HashBits => 2 * Pow2[n] <= Pow2[HashBits])
  BY <1>4, HashBitsNat DEF S
<1>. QED
  BY <1>5

\* The bits that choose a bucket, and the others.
LEMMA Pow2Split ==
  \A n \in 0 .. HashBits : Pow2[n] * Pow2[HashBits - n] = Pow2[HashBits]
<1>. DEFINE S == {n \in 0 .. HashBits : Pow2[n] * Pow2[HashBits - n] = Pow2[HashBits]}
<1>1. 0 \in S
  BY Pow2Step, Pow2Nat, HashBitsNat
<1>2. ASSUME NEW i \in 0 .. HashBits - 1, i \in S
      PROVE  i + 1 \in S
  <2>1. HashBits - (i + 1) \in 0 .. HashBits - 1 /\ (HashBits - (i + 1)) + 1 = HashBits - i
    BY HashBitsNat
  <2>. DEFINE a == Pow2[i]
              b == Pow2[HashBits - (i + 1)]
  <2>2. Pow2[HashBits - i] = 2 * b /\ Pow2[i + 1] = 2 * a
    BY <2>1, Pow2Step
  <2>3. a \in Nat /\ b \in Nat
    BY <2>1, Pow2Nat, HashBitsNat
  <2>4. a * (2 * b) = Pow2[HashBits]
    BY <1>2, <2>2
  <2>. HIDE DEF a, b
  <2>5. (2 * a) * b = Pow2[HashBits]
    BY <2>3, <2>4
  <2>. QED
    BY <2>2, <2>5, HashBitsNat DEF b
<1>. HIDE DEF S
<1>3. \A i \in 0 .. HashBits : i \in S
  BY <1>1, <1>2, HashBitsNat, UpTo
<1>. QED
  BY <1>3 DEF S

\* The high bits of a hash are a bucket of the table.
LEMMA HomeInTable ==
  ASSUME NEW h \in 0 .. Pow2[HashBits] - 1, NEW n \in 0 .. HashBits
  PROVE  h2bid(h, n) \in 0 .. Pow2[n] - 1
<1>. DEFINE a == Pow2[n]
            b == Pow2[HashBits - n]
            c == Pow2[HashBits]
<1>1. a \in Nat \ {0} /\ b \in Nat \ {0} /\ c \in Nat \ {0} /\ a * b = c
  BY HashBitsNat, Pow2Nat, Pow2Split
<1>2. h2bid(h, n) = h \div b
  BY DEF h2bid
<1>. HIDE DEF a, b
<1>3. h \in Nat /\ h < a * b
  BY <1>1
<1>4. h \div b \in Nat /\ h \div b < a
  BY <1>1, <1>3
<1>. QED
  BY <1>1, <1>2, <1>4 DEF a

----------------------------------------------------------------------------
(* Sizes.                                                                  *)

\* The least power of two above n, or at it.
LEMMA LeastPow2 ==
  ASSUME NEW n \in 1 .. Pow2[HashBits]
  PROVE  \E k \in 0 .. HashBits : n <= Pow2[k] /\ Pow2[k] < 2 * n
<1>. DEFINE T == {k \in 0 .. HashBits : n <= Pow2[k]}
<1>1. HashBits \in T
  BY HashBitsNat
<1>2. PICK k \in T : \A y \in T : k <= y
  <2>1. T \subseteq Nat /\ T # {}
    BY <1>1, HashBitsNat
  <2>. HIDE DEF T
  <2>. QED
    BY <2>1, LeastNat
<1>3. CASE k = 0
  BY <1>2, <1>3, Pow2Step
<1>4. CASE k # 0
  <2>1. k - 1 \in 0 .. HashBits - 1 /\ (k - 1) + 1 = k /\ k - 1 \notin T
    BY <1>2, <1>4, HashBitsNat
  <2>2. Pow2[k] = 2 * Pow2[k - 1] /\ Pow2[k - 1] \in Nat /\ k - 1 \in 0 .. HashBits
    BY <2>1, Pow2Step, Pow2Nat, HashBitsNat
  <2>3. ~ (n <= Pow2[k - 1]) /\ Pow2[HashBits] \in Nat
    BY <2>1, <2>2, Pow2Nat, HashBitsNat
  <2>. QED
    BY <1>2, <2>2, <2>3
<1>. QED
  BY <1>3, <1>4

\* Log2 is the exponent of the greatest power of two at most n.
LEMMA Log2Is ==
  ASSUME NEW n \in 1 .. Pow2[HashBits]
  PROVE  Log2(n) \in 0 .. HashBits /\ Pow2[Log2(n)] <= n /\ n < 2 * Pow2[Log2(n)]
<1>1. PICK k \in 0 .. HashBits : n <= Pow2[k] /\ Pow2[k] < 2 * n
  BY LeastPow2
<1>2. Pow2[k] \in Nat /\ Pow2[HashBits] \in Nat
  BY Pow2Nat, HashBitsNat
<1>3. \E j \in 0 .. HashBits : Pow2[j] <= n /\ n < 2 * Pow2[j]
  <2>1. CASE Pow2[k] = n
    BY <1>1, <1>2, <2>1
  <2>2. CASE Pow2[k] # n
    <3>1. k # 0
      BY <1>1, <1>2, <2>2, Pow2Step
    <3>2. k - 1 \in 0 .. HashBits - 1 /\ (k - 1) + 1 = k
      BY <3>1, HashBitsNat
    <3>3. Pow2[k] = 2 * Pow2[k - 1] /\ Pow2[k - 1] \in Nat /\ k - 1 \in 0 .. HashBits
      BY <3>2, Pow2Step, Pow2Nat, HashBitsNat
    <3>4. Pow2[k - 1] <= n /\ n < 2 * Pow2[k - 1]
      BY <1>1, <1>2, <2>2, <3>3
    <3>. QED
      BY <3>3, <3>4
  <2>. QED
    BY <2>1, <2>2
<1>. QED
  BY <1>3 DEF Log2

\* shm_s2hb: a table for n elements, of one bit at least.
LEMMA TableBits ==
  ASSUME NEW n \in 0 .. Pow2[HashBits]
  PROVE  shm_s2hb(n) \in 1 .. HashBits /\ n <= Pow2[shm_s2hb(n)]
<1>0. Pow2[HashBits] \in Nat \ {0} /\ Pow2[1] = 2 /\ 1 \in 0 .. HashBits
  <2>1. 0 \in 0 .. HashBits - 1 /\ 0 + 1 = 1
    BY HashBitsNat
  <2>2. Pow2[0 + 1] = 2 * Pow2[0]
    BY <2>1, Pow2Step
  <2>. QED
    BY <2>2, Pow2Step, Pow2Nat, HashBitsNat
<1>1. CASE n <= 1
  <2>1. shm_s2hb(n) = 1
    BY <1>0, <1>1 DEF shm_s2hb, slog2_ceil
  <2>. QED
    BY <1>0, <1>1, <2>1
<1>2. CASE n > 1
  <2>. DEFINE k == Log2(n)
  <2>1. k \in 0 .. HashBits /\ Pow2[k] <= n /\ n < 2 * Pow2[k]
    BY <1>0, <1>2, Log2Is
  <2>2. shm_s2hb(n) = IF Pow2[k] = n THEN k ELSE k + 1
    BY <1>0, <1>2 DEF shm_s2hb, slog2_ceil
  <2>. HIDE DEF k
  <2>3. CASE Pow2[k] = n
    <3>1. k # 0
      BY <1>2, <2>3, Pow2Step
    <3>. QED
      BY <2>1, <2>2, <2>3, <3>1
  <2>4. CASE Pow2[k] # n
    <3>1. k # HashBits
      BY <1>0, <2>1, <2>4
    <3>2. k \in 0 .. HashBits - 1
      BY <2>1, <3>1, HashBitsNat
    <3>3. Pow2[k + 1] = 2 * Pow2[k]
      BY <3>2, Pow2Step
    <3>4. Pow2[k] \in Nat
      BY <2>1, Pow2Nat
    <3>5. shm_s2hb(n) = k + 1
      BY <2>2, <2>4
    <3>6. n <= Pow2[k + 1]
      BY <2>1, <3>3, <3>4
    <3>. QED
      BY <3>2, <3>5, <3>6, HashBitsNat
  <2>. QED
    BY <2>3, <2>4
<1>. QED
  BY <1>0, <1>1, <1>2

\* snextpow2 rounds up to a power of two, less than twice as large.
LEMMA NextPow2 ==
  ASSUME NEW n \in 0 .. Pow2[HashBits]
  PROVE  snextpow2(n) \in 0 .. Pow2[HashBits]
<1>0. Pow2[HashBits] \in Nat
  BY Pow2Nat, HashBitsNat
<1>1. CASE n = 0
  BY <1>0, <1>1 DEF snextpow2
<1>2. CASE n # 0
  <2>1. PICK k \in 0 .. HashBits : n <= Pow2[k] /\ Pow2[k] < 2 * n
    BY <1>0, <1>2, LeastPow2
  <2>2. \E p \in {Pow2[j] : j \in 0 .. HashBits} : n <= p /\ p < 2 * n
    BY <2>1
  <2>3. snextpow2(n) \in {Pow2[j] : j \in 0 .. HashBits}
    BY <1>2, <2>2 DEF snextpow2
  <2>4. PICK j \in 0 .. HashBits : snextpow2(n) = Pow2[j]
    BY <2>3
  <2>. QED
    BY <2>4, Pow2Nat, Pow2Order
<1>. QED
  BY <1>1, <1>2

\* A table at its limit has a free bucket.
LEMMA ThresholdIs ==
  ASSUME NEW n \in Nat \ {0}
  PROVE  Threshold(n) \in 0 .. n - 1
<1>. DEFINE p == RehashPct
<1>1. p \in 1 .. 99
  BY HashMapAssumption
<1>2. Threshold(n) = (n * p) \div 100
  BY DEF Threshold
<1>. HIDE DEF p
<1>3. (n * p) \div 100 \in 0 .. n - 1
  BY <1>1
<1>. QED
  BY <1>2, <1>3

\* A map may have as many elements as locations other than 0.
LEMMA MaxElemsIs == MaxElems \in Nat /\ MaxElems = Pow2[HashBits] - 1
BY Pow2Nat, HashBitsNat DEF MaxElems

----------------------------------------------------------------------------
(* The inductive invariant.                                                *)

\* The buckets, those in use, those of them with home b, and an element's key.
Buckets(m) == 0 .. m.mask
UsedSet(m) == {l \in Buckets(m) : m.bucket[l].loc # 0}
HomeSet(m, b) == {l \in UsedSet(m) : Home(m, l) = b}
KeyAt(m, a) == m.elem[a - 1].key

\* A table of 2^hbits buckets.
Shape(m) ==
  /\ m.hbits \in 1 .. HashBits
  /\ m.mask = Pow2[m.hbits] - 1
  /\ m.bucket = [l \in Buckets(m) |-> m.bucket[l]]
  /\ m.bucket \in [Buckets(m) -> [loc : Nat, hash : 0 .. Pow2[HashBits] - 1, cnt : Int]]

\* The table knows the elements at the locations L, one bucket for each, and
\* counts them at home.
Table(m, L) ==
  /\ Shape(m)
  /\ L \subseteq Nat \ {0} /\ IsFiniteSet(L) /\ Cardinality(UsedSet(m)) = Cardinality(L)
  /\ \A a \in L : KeyAt(m, a) \in Key
  /\ \A a, b \in L : KeyAt(m, a) = KeyAt(m, b) => a = b
  /\ \A l \in UsedSet(m) : /\ m.bucket[l].loc \in L
                           /\ m.bucket[l].hash = Hash[KeyAt(m, m.bucket[l].loc)]
  /\ \A k, l \in UsedSet(m) : m.bucket[k].loc = m.bucket[l].loc => k = l
  /\ \A a \in L : \E l \in UsedSet(m) : m.bucket[l].loc = a
  /\ \A b \in Buckets(m) : m.bucket[b].cnt = Cardinality(HomeSet(m, b))

IsMap(m) ==
  m = [ext |-> m.ext, hbits |-> m.hbits, mask |-> m.mask, limit |-> m.limit,
       max |-> m.max, room |-> m.room, bucket |-> m.bucket, elem |-> m.elem,
       size |-> m.size]

\* The fields besides the table.
Header(m) ==
  /\ IsMap(m)
  /\ m.ext \in BOOLEAN
  /\ m.hbits \in 1 .. HashBits
  /\ \/ m.limit = Threshold(Pow2[m.hbits])
     \/ m.hbits = HashBits /\ m.limit = MaxElems
  /\ m.room \in 0 .. Pow2[HashBits] /\ m.max \in 0 .. Pow2[HashBits]
  /\ ~m.ext => m.room = Pow2[m.hbits]
  /\ m.size \in 0 .. MaxElems /\ m.size <= Pow2[m.hbits]
  /\ m.elem \in [0 .. m.size - 1 -> [key : Key, val : 0 .. ValMod - 1]]
  /\ \A i, j \in 0 .. m.size - 1 : m.elem[i].key = m.elem[j].key => i = j


----------------------------------------------------------------------------
(* Probing.                                                                *)

\* The first round of a probe goes to every bucket once.
LEMMA Round ==
  ASSUME NEW n \in Nat \ {0}, NEW m, m.mask = n - 1, NEW b \in 0 .. n - 1
  PROVE  /\ \A i \in 0 .. n : Place(m, b, i) \in 0 .. n - 1
         /\ \A l \in 0 .. n - 1 : \E i \in 0 .. n - 1 : Place(m, b, i) = l
         /\ \A i, j \in 0 .. n - 1 : Place(m, b, i) = Place(m, b, j) => i = j
<1>1. \A i \in 0 .. n - 1 : Place(m, b, i) = IF b + i < n THEN b + i ELSE b + i - n
  <2>1. SUFFICES ASSUME NEW i \in 0 .. n - 1
                 PROVE  Place(m, b, i) = IF b + i < n THEN b + i ELSE b + i - n
    OBVIOUS
  <2>2. CASE i = 0
    BY <2>2 DEF Place
  <2>3. CASE i # 0
    <3>1. Place(m, b, i) = (b + i) % n
      BY <2>3 DEF Place
    <3>2. CASE b + i < n
      <4>1. (b + i) % n = b + i
        BY <3>2
      <4>. QED
        BY <3>1, <3>2, <4>1
    <3>3. CASE b + i >= n
      <4>1. (b + i) % n = b + i - n
        BY <3>3
      <4>. QED
        BY <3>1, <3>3, <4>1
    <3>. QED
      BY <3>2, <3>3
  <2>. QED
    BY <2>2, <2>3
<1>2. \A i \in 0 .. n : Place(m, b, i) \in 0 .. n - 1
  <2>1. Place(m, b, n) = (b + n) % n
    BY DEF Place
  <2>2. (b + n) % n \in 0 .. n - 1
    OBVIOUS
  <2>. QED
    BY <1>1, <2>1, <2>2
<1>3. ASSUME NEW l \in 0 .. n - 1
      PROVE  \E i \in 0 .. n - 1 : Place(m, b, i) = l
  <2>1. CASE l >= b
    <3>1. l - b \in 0 .. n - 1 /\ b + (l - b) < n
      BY <2>1
    <3>2. Place(m, b, l - b) = b + (l - b)
      BY <1>1, <3>1
    <3>. QED
      BY <3>1, <3>2
  <2>2. CASE l < b
    <3>1. l - b + n \in 0 .. n - 1 /\ ~ (b + (l - b + n) < n)
      BY <2>2
    <3>2. Place(m, b, l - b + n) = b + (l - b + n) - n
      BY <1>1, <3>1
    <3>. QED
      BY <3>1, <3>2
  <2>. QED
    BY <2>1, <2>2
<1>4. ASSUME NEW i \in 0 .. n - 1, NEW j \in 0 .. n - 1, Place(m, b, i) = Place(m, b, j)
      PROVE  i = j
  BY <1>1, <1>4
<1>. QED
  BY <1>2, <1>3, <1>4

\* What is known of a table, in the words of its probes.
LEMMA TableIs ==
  ASSUME NEW m, NEW L, Table(m, L), NEW k \in Key
  PROVE  /\ Pow2[m.hbits] \in Nat \ {0} /\ m.mask = Pow2[m.hbits] - 1
         /\ h2bid(Hash[k], m.hbits) \in Buckets(m)
         /\ \A l \in Buckets(m) : Used(m, l) <=> l \in UsedSet(m)
         /\ IsFiniteSet(UsedSet(m))
         /\ \A b : IsFiniteSet(HomeSet(m, b))
<1>1. m.hbits \in 0 .. HashBits /\ m.mask = Pow2[m.hbits] - 1
  BY HashBitsNat DEF Table, Shape
<1>2. Pow2[m.hbits] \in Nat \ {0}
  BY <1>1, Pow2Nat
<1>3. Hash[k] \in 0 .. Pow2[HashBits] - 1
  BY HashMapAssumption
<1>4. h2bid(Hash[k], m.hbits) \in Buckets(m)
  BY <1>1, <1>3, HomeInTable DEF Buckets
<1>5. \A l \in Buckets(m) : Used(m, l) <=> l \in UsedSet(m)
  BY DEF Table, Shape, Used, UsedSet
<1>6. IsFiniteSet(Buckets(m))
  BY <1>1, <1>2, FS_Interval DEF Buckets
<1>7. IsFiniteSet(UsedSet(m)) /\ \A b : IsFiniteSet(HomeSet(m, b))
  <2>1. UsedSet(m) \in SUBSET Buckets(m)
    BY DEF UsedSet
  <2>2. \A b : HomeSet(m, b) \in SUBSET UsedSet(m)
    BY DEF HomeSet
  <2>. QED
    BY <1>6, <2>1, <2>2, FS_Subset
<1>. QED
  BY <1>1, <1>2, <1>4, <1>5, <1>7

\* A key in the table is found, where its element is.
LEMMA ProbeFinds ==
  ASSUME NEW m, NEW L, Table(m, L), NEW k \in Key, NEW a \in L, KeyAt(m, a) = k
  PROVE  Probe(m, k) \in UsedSet(m) /\ m.bucket[Probe(m, k)].loc = a
<1>. DEFINE n     == Pow2[m.hbits]
            home  == h2bid(Hash[k], m.hbits)
            count == m.bucket[home].cnt
            at(i) == Place(m, home, i)
            Here  == {i \in 0 .. m.mask + 1 :
                        /\ Used(m, at(i))
                        /\ h2bid(m.bucket[at(i)].hash, m.hbits) = home}
            Hit   == {i \in Here : /\ m.bucket[at(i)].hash = Hash[k]
                                   /\ ElemOf(m, at(i)).key = k
                                   /\ Cardinality({j \in Here : j < i}) < count}
<1>1. Probe(m, k) = IF Hit # {} THEN at(Min(Hit))
                    ELSE IF count > 0 /\ Here = {} THEN Fault ELSE None
  BY DEF Probe
<1>2. /\ n \in Nat \ {0} /\ m.mask = n - 1 /\ home \in 0 .. n - 1
      /\ \A l \in 0 .. n - 1 : Used(m, l) <=> l \in UsedSet(m)
  BY TableIs DEF Buckets
<1>3. /\ \A i \in 0 .. n : at(i) \in 0 .. n - 1
      /\ \A l \in 0 .. n - 1 : \E i \in 0 .. n - 1 : at(i) = l
      /\ \A i, j \in 0 .. n - 1 : at(i) = at(j) => i = j
  <2>. HIDE DEF n, home
  <2>1. /\ \A i \in 0 .. n : Place(m, home, i) \in 0 .. n - 1
        /\ \A l \in 0 .. n - 1 : \E i \in 0 .. n - 1 : Place(m, home, i) = l
        /\ \A i, j \in 0 .. n - 1 : Place(m, home, i) = Place(m, home, j) => i = j
    BY <1>2, Round
  <2>. QED
    BY <2>1
<1>4. count = Cardinality(HomeSet(m, home)) /\ IsFiniteSet(HomeSet(m, home))
  BY <1>2, TableIs DEF Table, Buckets
<1>5. PICK l \in UsedSet(m) : m.bucket[l].loc = a
  BY DEF Table
<1>0. \A b \in L : KeyAt(m, b) = k => b = a
  BY DEF Table
<1>6. l \in 0 .. n - 1 /\ m.bucket[l].hash = Hash[k] /\ ElemOf(m, l).key = k
      /\ l \in HomeSet(m, home)
  <2>1. l \in 0 .. n - 1
    BY <1>2 DEF UsedSet, Buckets
  <2>2. m.bucket[l].hash = Hash[k]
    BY <1>5 DEF Table
  <2>3. ElemOf(m, l).key = k
    BY <1>5 DEF ElemOf, KeyAt
  <2>4. Home(m, l) = home
    BY <2>2 DEF Home
  <2>. QED
    BY <2>1, <2>2, <2>3, <2>4 DEF HomeSet
<1>7. PICK i \in 0 .. n - 1 : at(i) = l
  BY <1>3, <1>6
<1>. HIDE DEF n, home, count, at
<1>8. \A j : j \in Here <=> /\ j \in 0 .. n /\ at(j) \in UsedSet(m)
                            /\ Home(m, at(j)) = home
  <2>1. 0 .. m.mask + 1 = 0 .. n
    BY <1>2
  <2>2. \A j : j \in Here <=> j \in 0 .. n /\ Used(m, at(j)) /\ Home(m, at(j)) = home
    BY <2>1 DEF Home
  <2>. QED
    BY <1>2, <1>3, <2>2
<1>. HIDE DEF Here
<1>9. i \in Here
  BY <1>2, <1>6, <1>7, <1>8 DEF HomeSet
<1>10. Cardinality({j \in Here : j < i}) < count
  <2>. DEFINE B == {j \in Here : j < i}
              T == HomeSet(m, home) \ {l}
              f == [j \in B |-> at(j)]
  <2>1. \A j \in B : j \in 0 .. n - 1 /\ at(j) \in T
    <3>1. SUFFICES ASSUME NEW j \in B PROVE j \in 0 .. n - 1 /\ at(j) \in T
      OBVIOUS
    <3>2. j \in 0 .. n /\ j < i /\ at(j) \in HomeSet(m, home)
      BY <1>8 DEF HomeSet
    <3>3. j \in 0 .. n - 1 /\ at(j) # l
      BY <1>2, <1>3, <1>7, <3>2
    <3>. QED
      BY <3>2, <3>3
  <2>2. f \in Injection(B, T)
    <3>1. f \in [B -> T]
      BY <2>1
    <3>2. \A x, y \in B : f[x] = f[y] => x = y
      BY <1>3, <2>1
    <3>. QED
      BY <3>1, <3>2 DEF Injection, IsInjective
  <2>3. IsFiniteSet(T) /\ Cardinality(T) = Cardinality(HomeSet(m, home)) - 1
    BY <1>4, <1>6, FS_RemoveElement
  <2>4. IsFiniteSet(B) /\ Cardinality(B) <= Cardinality(T)
    <3>. HIDE DEF B, T, f
    <3>. QED
      BY <2>2, <2>3, FS_Injection
  <2>5. Cardinality(HomeSet(m, home)) \in Nat /\ Cardinality(B) \in Nat
    BY <1>4, <2>4, FS_CardinalityType
  <2>. HIDE DEF B, T
  <2>6. Cardinality(B) < count
    BY <1>4, <2>3, <2>4, <2>5
  <2>. QED
    BY <2>6 DEF B
<1>11. i \in Hit
  BY <1>6, <1>7, <1>9, <1>10
<1>12. Min(Hit) \in Hit
  <2>1. Here \subseteq 0 .. n /\ Hit \subseteq Here /\ Hit # {}
    BY <1>8, <1>11
  <2>. HIDE DEF Hit
  <2>2. Hit \subseteq Nat
    BY <1>2, <2>1
  <2>. QED
    BY <2>1, <2>2, MinNat
<1>13. ASSUME NEW j \in Hit
       PROVE  at(j) \in UsedSet(m) /\ m.bucket[at(j)].loc = a
  <2>1. at(j) \in UsedSet(m) /\ ElemOf(m, at(j)).key = k
    BY <1>8
  <2>2. m.bucket[at(j)].loc \in L /\ KeyAt(m, m.bucket[at(j)].loc) = k
    BY <2>1 DEF Table, ElemOf, KeyAt
  <2>. QED
    BY <1>0, <2>1, <2>2
<1>. QED
  BY <1>1, <1>11, <1>12, <1>13

\* A key that is not in the table is not found, and its look-up ends.
LEMMA ProbeMisses ==
  ASSUME NEW m, NEW L, Table(m, L), NEW k \in Key, \A a \in L : KeyAt(m, a) # k
  PROVE  Probe(m, k) = None
<1>. DEFINE n     == Pow2[m.hbits]
            home  == h2bid(Hash[k], m.hbits)
            count == m.bucket[home].cnt
            at(i) == Place(m, home, i)
            Here  == {i \in 0 .. m.mask + 1 :
                        /\ Used(m, at(i))
                        /\ h2bid(m.bucket[at(i)].hash, m.hbits) = home}
            Hit   == {i \in Here : /\ m.bucket[at(i)].hash = Hash[k]
                                   /\ ElemOf(m, at(i)).key = k
                                   /\ Cardinality({j \in Here : j < i}) < count}
<1>1. Probe(m, k) = IF Hit # {} THEN at(Min(Hit))
                    ELSE IF count > 0 /\ Here = {} THEN Fault ELSE None
  BY DEF Probe
<1>2. /\ n \in Nat \ {0} /\ m.mask = n - 1 /\ home \in 0 .. n - 1
      /\ \A l \in 0 .. n - 1 : Used(m, l) <=> l \in UsedSet(m)
  BY TableIs DEF Buckets
<1>3. /\ \A i \in 0 .. n : at(i) \in 0 .. n - 1
      /\ \A l \in 0 .. n - 1 : \E i \in 0 .. n - 1 : at(i) = l
  <2>. HIDE DEF n, home
  <2>1. /\ \A i \in 0 .. n : Place(m, home, i) \in 0 .. n - 1
        /\ \A l \in 0 .. n - 1 : \E i \in 0 .. n - 1 : Place(m, home, i) = l
    BY <1>2, Round
  <2>. QED
    BY <2>1
<1>4. count = Cardinality(HomeSet(m, home)) /\ IsFiniteSet(HomeSet(m, home))
  BY <1>2, TableIs DEF Table, Buckets
<1>. HIDE DEF n, home, count, at
<1>5. \A j : j \in Here <=> /\ j \in 0 .. n /\ at(j) \in UsedSet(m)
                            /\ Home(m, at(j)) = home
  BY <1>2, <1>3 DEF Home
<1>. HIDE DEF Here
<1>6. Hit = {}
  <2>1. SUFFICES ASSUME NEW j \in Hit PROVE FALSE
    OBVIOUS
  <2>2. at(j) \in UsedSet(m) /\ ElemOf(m, at(j)).key = k
    BY <1>5
  <2>3. m.bucket[at(j)].loc \in L /\ KeyAt(m, m.bucket[at(j)].loc) = k
    BY <2>2 DEF Table, ElemOf, KeyAt
  <2>. QED
    BY <2>3
<1>7. count > 0 => Here # {}
  <2>1. SUFFICES ASSUME count > 0 PROVE Here # {}
    OBVIOUS
  <2>2. HomeSet(m, home) # {}
    BY <1>4, <2>1, FS_EmptySet
  <2>3. PICK l : l \in HomeSet(m, home)
    BY <2>2
  <2>4. l \in UsedSet(m) /\ Home(m, l) = home /\ l \in 0 .. n - 1
    BY <1>2, <2>3 DEF HomeSet, UsedSet, Buckets
  <2>5. PICK i \in 0 .. n - 1 : at(i) = l
    BY <1>3, <2>4
  <2>6. i \in Here
    BY <1>2, <1>5, <2>4, <2>5
  <2>. QED
    BY <2>6
<1>. QED
  BY <1>1, <1>6, <1>7

----------------------------------------------------------------------------
(* Tables that change.                                                     *)

\* The buckets, with one more entry, one less, or one that points elsewhere.
Enter(m, l, a, k) ==
  [b \in Buckets(m) |->
     [loc  |-> IF b = l THEN a ELSE m.bucket[b].loc,
      hash |-> IF b = l THEN Hash[k] ELSE m.bucket[b].hash,
      cnt  |-> IF b = h2bid(Hash[k], m.hbits) THEN m.bucket[b].cnt + 1
                                             ELSE m.bucket[b].cnt]]

Leave(m, l, k) ==
  [b \in Buckets(m) |->
     [loc  |-> IF b = l THEN 0 ELSE m.bucket[b].loc,
      hash |-> IF b = l THEN 0 ELSE m.bucket[b].hash,
      cnt  |-> IF b = h2bid(Hash[k], m.hbits) THEN m.bucket[b].cnt - 1
                                             ELSE m.bucket[b].cnt]]

Point(m, l, a) ==
  [b \in Buckets(m) |->
     [loc  |-> IF b = l THEN a ELSE m.bucket[b].loc,
      hash |-> m.bucket[b].hash,
      cnt  |-> m.bucket[b].cnt]]

\* What the fields of a bucket range over.
LEMMA BucketIs ==
  ASSUME NEW m, Shape(m), NEW b \in Buckets(m)
  PROVE  /\ m.bucket[b].loc \in Nat
         /\ m.bucket[b].hash \in 0 .. Pow2[HashBits] - 1
         /\ m.bucket[b].cnt \in Int
BY DEF Shape

\* A key that was not there gets a bucket.
LEMMA Entered ==
  ASSUME NEW m, NEW L, Table(m, L), NEW l \in Buckets(m) \ UsedSet(m),
         NEW a \in Nat \ {0}, a \notin L, NEW k \in Key, \A b \in L : KeyAt(m, b) # k,
         NEW o, o.hbits = m.hbits, o.mask = m.mask, o.bucket = Enter(m, l, a, k),
         \A b \in L : KeyAt(o, b) = KeyAt(m, b), KeyAt(o, a) = k
  PROVE  Table(o, L \cup {a})
<1>. DEFINE home == h2bid(Hash[k], m.hbits)
<1>0. /\ Shape(m) /\ IsFiniteSet(L) /\ Cardinality(UsedSet(m)) = Cardinality(L)
      /\ IsFiniteSet(UsedSet(m)) /\ \A b : IsFiniteSet(HomeSet(m, b))
      /\ home \in Buckets(m)
  BY TableIs DEF Table
<1>1. Buckets(o) = Buckets(m)
  BY DEF Buckets
<1>2. \A b \in Buckets(m) :
        /\ o.bucket[b].loc = IF b = l THEN a ELSE m.bucket[b].loc
        /\ o.bucket[b].hash = IF b = l THEN Hash[k] ELSE m.bucket[b].hash
        /\ o.bucket[b].cnt = IF b = home THEN m.bucket[b].cnt + 1 ELSE m.bucket[b].cnt
  BY DEF Enter
<1>3. Hash[k] \in 0 .. Pow2[HashBits] - 1
  BY HashMapAssumption
<1>4. Shape(o)
  <2>1. o.bucket = [b \in Buckets(o) |-> o.bucket[b]]
    BY <1>1 DEF Enter
  <2>2. o.bucket \in [Buckets(o) -> [loc : Nat, hash : 0 .. Pow2[HashBits] - 1, cnt : Int]]
    <3>1. ASSUME NEW b \in Buckets(m)
          PROVE  Enter(m, l, a, k)[b] \in [loc : Nat, hash : 0 .. Pow2[HashBits] - 1, cnt : Int]
      BY <1>0, <1>3, BucketIs DEF Enter
    <3>2. Enter(m, l, a, k) = [b \in Buckets(m) |-> Enter(m, l, a, k)[b]]
      BY DEF Enter
    <3>. QED
      BY <1>1, <3>1, <3>2
  <2>. QED
    BY <1>0, <2>1, <2>2 DEF Shape
<1>5. UsedSet(o) = UsedSet(m) \cup {l}
  BY <1>1, <1>2 DEF UsedSet
<1>6. l \notin UsedSet(m) /\ l \in Buckets(m)
  OBVIOUS
<1>7. \A b : HomeSet(o, b) = IF b = home THEN HomeSet(m, b) \cup {l} ELSE HomeSet(m, b)
  <2>1. \A x \in UsedSet(m) : Home(o, x) = Home(m, x)
    BY <1>2, <1>6 DEF Home, UsedSet
  <2>2. Home(o, l) = home
    BY <1>2 DEF Home
  <2>. QED
    BY <1>5, <2>1, <2>2 DEF HomeSet
<1>8. Cardinality(UsedSet(o)) = Cardinality(L \cup {a}) /\ IsFiniteSet(L \cup {a})
  <2>1. Cardinality(UsedSet(o)) = Cardinality(UsedSet(m)) + 1
    BY <1>0, <1>5, <1>6, FS_AddElement
  <2>2. Cardinality(L \cup {a}) = Cardinality(L) + 1 /\ IsFiniteSet(L \cup {a})
    BY <1>0, FS_AddElement
  <2>. QED
    BY <1>0, <2>1, <2>2
<1>9. \A b \in Buckets(o) : o.bucket[b].cnt = Cardinality(HomeSet(o, b))
  <2>1. SUFFICES ASSUME NEW b \in Buckets(m)
                 PROVE  o.bucket[b].cnt = Cardinality(HomeSet(o, b))
    BY <1>1
  <2>2. m.bucket[b].cnt = Cardinality(HomeSet(m, b))
    BY DEF Table
  <2>3. CASE b = home
    <3>1. l \notin HomeSet(m, b)
      BY <1>6 DEF HomeSet
    <3>2. Cardinality(HomeSet(m, b) \cup {l}) = Cardinality(HomeSet(m, b)) + 1
      BY <1>0, <3>1, FS_AddElement
    <3>. QED
      BY <1>2, <1>7, <2>2, <2>3, <3>2
  <2>4. CASE b # home
    BY <1>2, <1>7, <2>2, <2>4
  <2>. QED
    BY <2>3, <2>4
<1>10. \A x \in UsedSet(m) : /\ m.bucket[x].loc \in L
                             /\ o.bucket[x].loc = m.bucket[x].loc
                             /\ o.bucket[x].hash = m.bucket[x].hash
                             /\ m.bucket[x].hash = Hash[KeyAt(m, m.bucket[x].loc)]
  BY <1>2, <1>6 DEF Table, UsedSet
<1>11. o.bucket[l].loc = a /\ o.bucket[l].hash = Hash[k]
  BY <1>2, <1>6
<1>12. \A x \in UsedSet(o) : /\ o.bucket[x].loc \in L \cup {a}
                             /\ o.bucket[x].hash = Hash[KeyAt(o, o.bucket[x].loc)]
  BY <1>5, <1>10, <1>11
<1>13. \A x, y \in UsedSet(o) : o.bucket[x].loc = o.bucket[y].loc => x = y
  <2>1. \A x, y \in UsedSet(m) : m.bucket[x].loc = m.bucket[y].loc => x = y
    BY DEF Table
  <2>. QED
    BY <1>5, <1>10, <1>11, <2>1
<1>14. \A b \in L \cup {a} : \E x \in UsedSet(o) : o.bucket[x].loc = b
  <2>1. \A b \in L : \E x \in UsedSet(m) : m.bucket[x].loc = b
    BY DEF Table
  <2>. QED
    BY <1>5, <1>10, <1>11, <2>1
<1>15. /\ L \cup {a} \subseteq Nat \ {0}
       /\ \A b \in L \cup {a} : KeyAt(o, b) \in Key
       /\ \A b, c \in L \cup {a} : KeyAt(o, b) = KeyAt(o, c) => b = c
  <2>1. /\ L \subseteq Nat \ {0}
        /\ \A b \in L : KeyAt(m, b) \in Key
        /\ \A b, c \in L : KeyAt(m, b) = KeyAt(m, c) => b = c
    BY DEF Table
  <2>. QED
    BY <2>1
<1>. QED
  BY <1>4, <1>8, <1>9, <1>12, <1>13, <1>14, <1>15 DEF Table

\* The bucket of a key is freed.
LEMMA Left ==
  ASSUME NEW m, NEW L, Table(m, L), NEW l \in UsedSet(m),
         NEW a, m.bucket[l].loc = a, NEW k, k = KeyAt(m, a),
         NEW o, o.hbits = m.hbits, o.mask = m.mask, o.bucket = Leave(m, l, k),
         \A b \in L \ {a} : KeyAt(o, b) = KeyAt(m, b)
  PROVE  Table(o, L \ {a})
<1>. DEFINE home == h2bid(Hash[k], m.hbits)
<1>16. a \in L /\ k \in Key /\ m.bucket[l].hash = Hash[k]
  BY DEF Table
<1>0. /\ Shape(m) /\ IsFiniteSet(L) /\ Cardinality(UsedSet(m)) = Cardinality(L)
      /\ IsFiniteSet(UsedSet(m)) /\ \A b : IsFiniteSet(HomeSet(m, b))
      /\ home \in Buckets(m)
  BY <1>16, TableIs DEF Table
<1>1. Buckets(o) = Buckets(m) /\ l \in Buckets(m)
  BY DEF Buckets, UsedSet
<1>2. \A b \in Buckets(m) :
        /\ o.bucket[b].loc = IF b = l THEN 0 ELSE m.bucket[b].loc
        /\ o.bucket[b].hash = IF b = l THEN 0 ELSE m.bucket[b].hash
        /\ o.bucket[b].cnt = IF b = home THEN m.bucket[b].cnt - 1 ELSE m.bucket[b].cnt
  BY DEF Leave
<1>4. Shape(o)
  <2>1. o.bucket = [b \in Buckets(o) |-> o.bucket[b]]
    BY <1>1 DEF Leave
  <2>2. o.bucket \in [Buckets(o) -> [loc : Nat, hash : 0 .. Pow2[HashBits] - 1, cnt : Int]]
    <3>0. 0 \in 0 .. Pow2[HashBits] - 1
      BY Pow2Nat, HashBitsNat
    <3>1. ASSUME NEW b \in Buckets(m)
          PROVE  Leave(m, l, k)[b] \in [loc : Nat, hash : 0 .. Pow2[HashBits] - 1, cnt : Int]
      BY <1>0, <3>0, BucketIs DEF Leave
    <3>2. Leave(m, l, k) = [b \in Buckets(m) |-> Leave(m, l, k)[b]]
      BY DEF Leave
    <3>. QED
      BY <1>1, <3>1, <3>2
  <2>. QED
    BY <1>0, <2>1, <2>2 DEF Shape
<1>5. UsedSet(o) = UsedSet(m) \ {l}
  BY <1>1, <1>2 DEF UsedSet
<1>7. \A b : HomeSet(o, b) = IF b = home THEN HomeSet(m, b) \ {l} ELSE HomeSet(m, b)
  <2>1. \A x \in UsedSet(m) \ {l} : Home(o, x) = Home(m, x)
    BY <1>2 DEF Home, UsedSet
  <2>2. Home(m, l) = home
    BY <1>16 DEF Home
  <2>. QED
    BY <1>5, <2>1, <2>2 DEF HomeSet
<1>8. Cardinality(UsedSet(o)) = Cardinality(L \ {a}) /\ IsFiniteSet(L \ {a})
  <2>1. Cardinality(UsedSet(o)) = Cardinality(UsedSet(m)) - 1
    BY <1>0, <1>5, FS_RemoveElement
  <2>2. Cardinality(L \ {a}) = Cardinality(L) - 1 /\ IsFiniteSet(L \ {a})
    BY <1>0, <1>16, FS_RemoveElement
  <2>. QED
    BY <1>0, <2>1, <2>2
<1>9. \A b \in Buckets(o) : o.bucket[b].cnt = Cardinality(HomeSet(o, b))
  <2>1. SUFFICES ASSUME NEW b \in Buckets(m)
                 PROVE  o.bucket[b].cnt = Cardinality(HomeSet(o, b))
    BY <1>1
  <2>2. m.bucket[b].cnt = Cardinality(HomeSet(m, b))
    BY DEF Table
  <2>3. CASE b = home
    <3>1. l \in HomeSet(m, b)
      BY <1>16, <2>3 DEF HomeSet, Home
    <3>2. Cardinality(HomeSet(m, b) \ {l}) = Cardinality(HomeSet(m, b)) - 1
      BY <1>0, <3>1, FS_RemoveElement
    <3>. QED
      BY <1>2, <1>7, <2>2, <2>3, <3>2
  <2>4. CASE b # home
    BY <1>2, <1>7, <2>2, <2>4
  <2>. QED
    BY <2>3, <2>4
<1>10. \A x \in UsedSet(o) : /\ m.bucket[x].loc \in L \ {a}
                             /\ o.bucket[x].loc = m.bucket[x].loc
                             /\ o.bucket[x].hash = m.bucket[x].hash
                             /\ m.bucket[x].hash = Hash[KeyAt(m, m.bucket[x].loc)]
  <2>1. \A x, y \in UsedSet(m) : m.bucket[x].loc = m.bucket[y].loc => x = y
    BY DEF Table
  <2>2. \A x \in UsedSet(m) : /\ m.bucket[x].loc \in L /\ x \in Buckets(m)
                              /\ m.bucket[x].hash = Hash[KeyAt(m, m.bucket[x].loc)]
    BY DEF Table, UsedSet
  <2>. QED
    BY <1>2, <1>5, <2>1, <2>2
<1>12. \A x \in UsedSet(o) : /\ o.bucket[x].loc \in L \ {a}
                             /\ o.bucket[x].hash = Hash[KeyAt(o, o.bucket[x].loc)]
  BY <1>10
<1>13. \A x, y \in UsedSet(o) : o.bucket[x].loc = o.bucket[y].loc => x = y
  <2>1. \A x, y \in UsedSet(m) : m.bucket[x].loc = m.bucket[y].loc => x = y
    BY DEF Table
  <2>. QED
    BY <1>5, <1>10, <2>1
<1>14. \A b \in L \ {a} : \E x \in UsedSet(o) : o.bucket[x].loc = b
  <2>1. \A b \in L : \E x \in UsedSet(m) : m.bucket[x].loc = b
    BY DEF Table
  <2>. QED
    BY <1>5, <1>10, <2>1
<1>15. /\ L \ {a} \subseteq Nat \ {0}
       /\ \A b \in L \ {a} : KeyAt(o, b) \in Key
       /\ \A b, c \in L \ {a} : KeyAt(o, b) = KeyAt(o, c) => b = c
  <2>1. /\ L \subseteq Nat \ {0}
        /\ \A b \in L : KeyAt(m, b) \in Key
        /\ \A b, c \in L : KeyAt(m, b) = KeyAt(m, c) => b = c
    BY DEF Table
  <2>. QED
    BY <2>1
<1>. QED
  BY <1>4, <1>8, <1>9, <1>12, <1>13, <1>14, <1>15 DEF Table

\* An element moves from location s to location a, and its bucket follows.
LEMMA Moved ==
  ASSUME NEW m, NEW L, Table(m, L), NEW l \in UsedSet(m),
         NEW s, m.bucket[l].loc = s, NEW a \in Nat \ {0}, a \notin L,
         NEW o, o.hbits = m.hbits, o.mask = m.mask, o.bucket = Point(m, l, a),
         \A b \in L \ {s} : KeyAt(o, b) = KeyAt(m, b), KeyAt(o, a) = KeyAt(m, s)
  PROVE  Table(o, (L \ {s}) \cup {a})
<1>. DEFINE J == (L \ {s}) \cup {a}
<1>16. s \in L /\ m.bucket[l].hash = Hash[KeyAt(m, s)]
  BY DEF Table
<1>0. /\ Shape(m) /\ IsFiniteSet(L) /\ Cardinality(UsedSet(m)) = Cardinality(L)
  BY DEF Table
<1>1. Buckets(o) = Buckets(m) /\ l \in Buckets(m)
  BY DEF Buckets, UsedSet
<1>2. \A b \in Buckets(m) :
        /\ o.bucket[b].loc = IF b = l THEN a ELSE m.bucket[b].loc
        /\ o.bucket[b].hash = m.bucket[b].hash
        /\ o.bucket[b].cnt = m.bucket[b].cnt
  BY DEF Point
<1>4. Shape(o)
  <2>1. o.bucket = [b \in Buckets(o) |-> o.bucket[b]]
    BY <1>1 DEF Point
  <2>2. o.bucket \in [Buckets(o) -> [loc : Nat, hash : 0 .. Pow2[HashBits] - 1, cnt : Int]]
    <3>1. ASSUME NEW b \in Buckets(m)
          PROVE  Point(m, l, a)[b] \in [loc : Nat, hash : 0 .. Pow2[HashBits] - 1, cnt : Int]
      BY <1>0, BucketIs DEF Point
    <3>2. Point(m, l, a) = [b \in Buckets(m) |-> Point(m, l, a)[b]]
      BY DEF Point
    <3>. QED
      BY <1>1, <3>1, <3>2
  <2>. QED
    BY <1>0, <2>1, <2>2 DEF Shape
<1>5. UsedSet(o) = UsedSet(m)
  BY <1>1, <1>2 DEF UsedSet
<1>7. \A b : HomeSet(o, b) = HomeSet(m, b)
  <2>1. \A x \in UsedSet(m) : Home(o, x) = Home(m, x)
    BY <1>2 DEF Home, UsedSet
  <2>. QED
    BY <1>5, <2>1 DEF HomeSet
<1>8. Cardinality(UsedSet(o)) = Cardinality(J) /\ IsFiniteSet(J)
  <2>1. IsFiniteSet(L \ {s}) /\ Cardinality(L \ {s}) = Cardinality(L) - 1
    BY <1>0, <1>16, FS_RemoveElement
  <2>2. IsFiniteSet(J) /\ Cardinality(J) = Cardinality(L \ {s}) + 1
    BY <2>1, FS_AddElement
  <2>3. Cardinality(L) \in Nat
    BY <1>0, FS_CardinalityType
  <2>. QED
    BY <1>0, <1>5, <2>1, <2>2, <2>3
<1>9. \A b \in Buckets(o) : o.bucket[b].cnt = Cardinality(HomeSet(o, b))
  BY <1>1, <1>2, <1>7 DEF Table
<1>10. \A x \in UsedSet(m) \ {l} : /\ m.bucket[x].loc \in L \ {s}
                                   /\ o.bucket[x].loc = m.bucket[x].loc
                                   /\ o.bucket[x].hash = m.bucket[x].hash
                                   /\ m.bucket[x].hash = Hash[KeyAt(m, m.bucket[x].loc)]
  <2>1. \A x, y \in UsedSet(m) : m.bucket[x].loc = m.bucket[y].loc => x = y
    BY DEF Table
  <2>2. \A x \in UsedSet(m) : /\ m.bucket[x].loc \in L /\ x \in Buckets(m)
                              /\ m.bucket[x].hash = Hash[KeyAt(m, m.bucket[x].loc)]
    BY DEF Table, UsedSet
  <2>. QED
    BY <1>2, <2>1, <2>2
<1>11. o.bucket[l].loc = a /\ o.bucket[l].hash = Hash[KeyAt(o, a)]
  BY <1>1, <1>2, <1>16
<1>12. \A x \in UsedSet(o) : /\ o.bucket[x].loc \in J
                             /\ o.bucket[x].hash = Hash[KeyAt(o, o.bucket[x].loc)]
  BY <1>5, <1>10, <1>11
<1>13. \A x, y \in UsedSet(o) : o.bucket[x].loc = o.bucket[y].loc => x = y
  <2>1. \A x, y \in UsedSet(m) : m.bucket[x].loc = m.bucket[y].loc => x = y
    BY DEF Table
  <2>. QED
    BY <1>5, <1>10, <1>11, <2>1
<1>14. \A b \in J : \E x \in UsedSet(o) : o.bucket[x].loc = b
  <2>1. \A b \in L : \E x \in UsedSet(m) : m.bucket[x].loc = b
    BY DEF Table
  <2>. QED
    BY <1>5, <1>10, <1>11, <2>1
<1>15. /\ J \subseteq Nat \ {0}
       /\ \A b \in J : KeyAt(o, b) \in Key
       /\ \A b, c \in J : KeyAt(o, b) = KeyAt(o, c) => b = c
  <2>1. /\ L \subseteq Nat \ {0}
        /\ \A b \in L : KeyAt(m, b) \in Key
        /\ \A b, c \in L : KeyAt(m, b) = KeyAt(m, c) => b = c
    BY DEF Table
  <2>2. \A b \in L \ {s} : KeyAt(o, b) = KeyAt(m, b) /\ KeyAt(m, b) # KeyAt(m, s)
    BY <1>16, <2>1
  <2>3. KeyAt(o, a) = KeyAt(m, s) /\ KeyAt(m, s) \in Key
    BY <1>16, <2>1
  <2>4. \A b \in J : b = a \/ b \in L \ {s}
    OBVIOUS
  <2>5. J \subseteq Nat \ {0}
    BY <2>1
  <2>6. \A b \in J : KeyAt(o, b) \in Key
    BY <2>1, <2>2, <2>3, <2>4
  <2>7. ASSUME NEW b \in J, NEW c \in J, KeyAt(o, b) = KeyAt(o, c) PROVE b = c
    <3>. HIDE DEF J, KeyAt
    <3>. QED
      BY <2>1, <2>2, <2>3, <2>4, <2>7
  <2>. QED
    BY <2>5, <2>6, <2>7
<1>. QED
  BY <1>4, <1>8, <1>9, <1>12, <1>13, <1>14, <1>15 DEF Table

\* Only the buckets, and the keys of the elements they point to, matter.
LEMMA TableSame ==
  ASSUME NEW m, NEW L, Table(m, L),
         NEW o, o.hbits = m.hbits, o.mask = m.mask, o.bucket = m.bucket,
         \A b \in L : KeyAt(o, b) = KeyAt(m, b)
  PROVE  Table(o, L)
<1>1. Shape(o) /\ Buckets(o) = Buckets(m) /\ UsedSet(o) = UsedSet(m)
  BY DEF Table, Shape, Buckets, UsedSet
<1>2. \A b : HomeSet(o, b) = HomeSet(m, b)
  BY <1>1 DEF HomeSet, Home
<1>3. \A l \in UsedSet(m) : m.bucket[l].loc \in L
                            /\ m.bucket[l].hash = Hash[KeyAt(m, m.bucket[l].loc)]
  BY DEF Table
<1>4. \A l \in UsedSet(o) : o.bucket[l].loc \in L
                            /\ o.bucket[l].hash = Hash[KeyAt(o, o.bucket[l].loc)]
  BY <1>1, <1>3
<1>5. \A b \in Buckets(o) : o.bucket[b].cnt = Cardinality(HomeSet(o, b))
  BY <1>1, <1>2 DEF Table
<1>6. /\ \A a \in L : KeyAt(o, a) \in Key
      /\ \A a, b \in L : KeyAt(o, a) = KeyAt(o, b) => a = b
  BY DEF Table
<1>7. /\ L \subseteq Nat \ {0} /\ IsFiniteSet(L) /\ Cardinality(UsedSet(o)) = Cardinality(L)
      /\ \A k, l \in UsedSet(o) : o.bucket[k].loc = o.bucket[l].loc => k = l
      /\ \A a \in L : \E l \in UsedSet(o) : o.bucket[l].loc = a
  BY <1>1 DEF Table
<1>. QED
  BY <1>1, <1>4, <1>5, <1>6, <1>7 DEF Table

\* A table without elements.
LEMMA TableEmpty ==
  ASSUME NEW o, o.hbits \in 1 .. HashBits, o.mask = Pow2[o.hbits] - 1,
         o.bucket = [l \in 0 .. Pow2[o.hbits] - 1 |-> Empty]
  PROVE  Table(o, {})
<1>1. Buckets(o) = 0 .. Pow2[o.hbits] - 1 /\ Pow2[HashBits] \in Nat \ {0}
  BY Pow2Nat, HashBitsNat DEF Buckets
<1>2. \A b \in Buckets(o) : o.bucket[b] = Empty /\ o.bucket[b].loc = 0 /\ o.bucket[b].cnt = 0
  <2>1. Empty.loc = 0 /\ Empty.cnt = 0
    BY DEF Empty
  <2>2. \A b \in Buckets(o) : o.bucket[b] = Empty
    BY <1>1
  <2>. QED
    BY <2>1, <2>2
<1>3. UsedSet(o) = {} /\ \A b : HomeSet(o, b) = {}
  BY <1>2 DEF UsedSet, HomeSet
<1>4. Empty \in [loc : Nat, hash : 0 .. Pow2[HashBits] - 1, cnt : Int]
  BY <1>1 DEF Empty
<1>5. Shape(o)
  BY <1>1, <1>4 DEF Shape
<1>6. \A b \in Buckets(o) : o.bucket[b].cnt = Cardinality(HomeSet(o, b))
  BY <1>2, <1>3, FS_EmptySet
<1>. QED
  BY <1>3, <1>5, <1>6, FS_EmptySet DEF Table

----------------------------------------------------------------------------
(* Registering the elements.                                               *)

\* The map with other buckets.
WithBuckets(m, f) == [m EXCEPT !.bucket = f]

\* It is the map with other buckets, and nothing else changed.
LEMMA WithBucketsIs ==
  ASSUME NEW m, IsMap(m), NEW f
  PROVE  /\ IsMap(WithBuckets(m, f))
         /\ WithBuckets(m, f).bucket = f
         /\ WithBuckets(m, f).ext = m.ext
         /\ WithBuckets(m, f).hbits = m.hbits
         /\ WithBuckets(m, f).mask = m.mask
         /\ WithBuckets(m, f).limit = m.limit
         /\ WithBuckets(m, f).max = m.max
         /\ WithBuckets(m, f).room = m.room
         /\ WithBuckets(m, f).elem = m.elem
         /\ WithBuckets(m, f).size = m.size
BY DEF IsMap, WithBuckets

\* A table with fewer elements than buckets has a free bucket on every round.
LEMMA FreeOnRound ==
  ASSUME NEW m, NEW L, Table(m, L), Cardinality(L) < Pow2[m.hbits],
         NEW home \in Buckets(m)
  PROVE  \E j \in 0 .. Pow2[m.hbits] : ~Used(m, Place(m, home, j))
<1>. DEFINE n == Pow2[m.hbits]
<1>1. /\ n \in Nat \ {0} /\ m.mask = n - 1
      /\ IsFiniteSet(UsedSet(m)) /\ Cardinality(UsedSet(m)) < n
  <2>1. m.hbits \in 0 .. HashBits /\ m.mask = n - 1 /\ IsFiniteSet(L)
        /\ Cardinality(UsedSet(m)) = Cardinality(L)
    BY HashBitsNat DEF Table, Shape
  <2>2. n \in Nat \ {0}
    BY <2>1, Pow2Nat
  <2>3. IsFiniteSet(Buckets(m))
    BY <2>1, <2>2, FS_Interval DEF Buckets
  <2>4. UsedSet(m) \in SUBSET Buckets(m)
    BY DEF UsedSet
  <2>. QED
    BY <2>1, <2>2, <2>3, <2>4, FS_Subset
<1>. HIDE DEF n
<1>2. Buckets(m) = 0 .. n - 1
  BY <1>1 DEF Buckets
<1>3. Cardinality(0 .. n - 1) = n
  <2>1. Cardinality(0 .. n - 1) = (IF 0 > n - 1 THEN 0 ELSE (n - 1) - 0 + 1)
    BY <1>1, FS_Interval
  <2>. QED
    BY <1>1, <2>1
<1>4. PICK l \in 0 .. n - 1 : l \notin UsedSet(m)
  <2>1. SUFFICES ASSUME 0 .. n - 1 \subseteq UsedSet(m) PROVE FALSE
    OBVIOUS
  <2>2. UsedSet(m) = 0 .. n - 1
    BY <1>2, <2>1 DEF UsedSet
  <2>. QED
    BY <1>1, <1>3, <2>2
<1>5. home \in 0 .. n - 1
  BY <1>2
<1>6. PICK j \in 0 .. n - 1 : Place(m, home, j) = l
  <2>1. \A x \in 0 .. n - 1 : \E i \in 0 .. n - 1 : Place(m, home, i) = x
    BY <1>1, <1>5, Round
  <2>. QED
    BY <2>1
<1>7. ~Used(m, l)
  BY <1>2, <1>4 DEF Used, UsedSet
<1>8. j \in 0 .. n
  BY <1>1
<1>. QED
  BY <1>6, <1>7, <1>8 DEF n

\* aux_reg_hash, for a key that is not in the table: it takes a free bucket.
LEMMA Registers ==
  ASSUME NEW m, IsMap(m), NEW L, Table(m, L), Cardinality(L) < Pow2[m.hbits],
         NEW k \in Key, \A b \in L : KeyAt(m, b) # k, NEW i \in Nat
  PROVE  \E l \in Buckets(m) \ UsedSet(m) :
           aux_reg_hash(m, k, i) = WithBuckets(m, Enter(m, l, i + 1, k))
<1>. DEFINE h    == Hash[k]
            home == h2bid(h, m.hbits)
            own(l) == m.bucket[l].hash = h /\ ElemOf(m, l).key = k
            Stop == {j \in 0 .. Pow2[m.hbits] :
                       LET l == Place(m, home, j) IN ~Used(m, l) \/ own(l)}
            p    == Place(m, home, Min(Stop))
            b1   == IF Used(m, p) THEN m.bucket
                                  ELSE [m.bucket EXCEPT ![home].cnt = @ + 1]
<1>1. aux_reg_hash(m, k, i)
        = [m EXCEPT !.bucket = [b1 EXCEPT ![p].loc = i + 1, ![p].hash = h]]
  BY DEF aux_reg_hash
<1>2. /\ Pow2[m.hbits] \in Nat \ {0} /\ m.mask = Pow2[m.hbits] - 1
      /\ home \in Buckets(m)
      /\ \A l \in Buckets(m) : Used(m, l) <=> l \in UsedSet(m)
  BY TableIs
<1>3. \A j \in 0 .. Pow2[m.hbits] : Place(m, home, j) \in Buckets(m)
  <2>1. home \in 0 .. Pow2[m.hbits] - 1
    BY <1>2 DEF Buckets
  <2>. HIDE DEF home
  <2>2. \A j \in 0 .. Pow2[m.hbits] : Place(m, home, j) \in 0 .. Pow2[m.hbits] - 1
    BY <1>2, <2>1, Round
  <2>. QED
    BY <1>2, <2>2 DEF Buckets
<1>4. \E j \in 0 .. Pow2[m.hbits] : ~Used(m, Place(m, home, j))
  <2>. HIDE DEF home
  <2>. QED
    BY <1>2, FreeOnRound
<1>5. Stop \subseteq Nat /\ Stop # {}
  BY <1>2, <1>4
<1>6. Min(Stop) \in Stop
  <2>. HIDE DEF Stop
  <2>. QED
    BY <1>5, MinNat
<1>7. p \in Buckets(m)
  BY <1>3, <1>6
<1>8. ~Used(m, p)
  <2>1. ASSUME Used(m, p) PROVE ~own(p)
    <3>1. p \in UsedSet(m)
      BY <1>2, <1>7, <2>1
    <3>2. m.bucket[p].loc \in L
      BY <3>1 DEF Table
    <3>. QED
      BY <3>2 DEF ElemOf, KeyAt
  <2>2. ~Used(m, p) \/ own(p)
    BY <1>6
  <2>. QED
    BY <2>1, <2>2
<1>9. p \in Buckets(m) \ UsedSet(m)
  BY <1>2, <1>7, <1>8
<1>10. [b1 EXCEPT ![p].loc = i + 1, ![p].hash = h] = Enter(m, p, i + 1, k)
  <2>1. b1 = [m.bucket EXCEPT ![home].cnt = @ + 1]
    BY <1>8
  <2>2. m.bucket \in [Buckets(m) -> [loc : Nat, hash : 0 .. Pow2[HashBits] - 1, cnt : Int]]
    BY DEF Table, Shape
  <2>. HIDE DEF home, h, p, b1
  <2>3. [[m.bucket EXCEPT ![home].cnt = @ + 1] EXCEPT ![p].loc = i + 1, ![p].hash = h]
          = [b \in Buckets(m) |->
              [loc  |-> IF b = p THEN i + 1 ELSE m.bucket[b].loc,
               hash |-> IF b = p THEN h ELSE m.bucket[b].hash,
               cnt  |-> IF b = home THEN m.bucket[b].cnt + 1 ELSE m.bucket[b].cnt]]
    <3>. DEFINE c == [m.bucket EXCEPT ![home].cnt = @ + 1]
                d == [c EXCEPT ![p].loc = i + 1, ![p].hash = h]
    <3>1. c = [b \in Buckets(m) |->
                 IF b = home THEN [m.bucket[b] EXCEPT !.cnt = @ + 1] ELSE m.bucket[b]]
      BY <1>2, <2>2
    <3>2. \A b \in Buckets(m) :
            m.bucket[b] = [loc |-> m.bucket[b].loc, hash |-> m.bucket[b].hash,
                           cnt |-> m.bucket[b].cnt]
      BY <2>2
    <3>3. \A b \in Buckets(m) :
            c[b] = [loc |-> m.bucket[b].loc, hash |-> m.bucket[b].hash,
                    cnt |-> IF b = home THEN m.bucket[b].cnt + 1 ELSE m.bucket[b].cnt]
      BY <3>1, <3>2
    <3>4. c = [b \in Buckets(m) |-> c[b]]
      BY <3>1
    <3>. HIDE DEF c
    <3>. DEFINE e == [c EXCEPT ![p].loc = i + 1]
    <3>a. e = [b \in Buckets(m) |-> IF b = p THEN [c[b] EXCEPT !.loc = i + 1] ELSE c[b]]
      BY <1>7, <3>4
    <3>d. d = [e EXCEPT ![p].hash = h]
      OBVIOUS
    <3>. HIDE DEF e, d
    <3>b. ASSUME NEW b \in Buckets(m)
          PROVE  e[b] = [loc |-> IF b = p THEN i + 1 ELSE m.bucket[b].loc,
                         hash |-> m.bucket[b].hash,
                         cnt |-> IF b = home THEN m.bucket[b].cnt + 1 ELSE m.bucket[b].cnt]
      <4>1. CASE b = p
        <5>1. e[b] = [c[b] EXCEPT !.loc = i + 1]
          BY <3>a, <4>1
        <5>2. PICK x, y, z : /\ x = m.bucket[b].loc /\ y = m.bucket[b].hash
                             /\ z = IF b = home THEN m.bucket[b].cnt + 1 ELSE m.bucket[b].cnt
          OBVIOUS
        <5>3. c[b] = [loc |-> x, hash |-> y, cnt |-> z]
          BY <3>3, <5>2
        <5>4. e[b] = [loc |-> i + 1, hash |-> y, cnt |-> z]
          BY <5>1, <5>3
        <5>. QED
          BY <4>1, <5>2, <5>4
      <4>2. CASE b # p
        BY <3>3, <3>a, <4>2
      <4>. QED
        BY <4>1, <4>2
    <3>e. e = [b \in Buckets(m) |-> e[b]]
      BY <3>a
    <3>5. d = [b \in Buckets(m) |-> IF b = p THEN [e[b] EXCEPT !.hash = h] ELSE e[b]]
      BY <1>7, <3>d, <3>e
    <3>6. ASSUME NEW b \in Buckets(m)
          PROVE  d[b] = [loc  |-> IF b = p THEN i + 1 ELSE m.bucket[b].loc,
                         hash |-> IF b = p THEN h ELSE m.bucket[b].hash,
                         cnt  |-> IF b = home THEN m.bucket[b].cnt + 1 ELSE m.bucket[b].cnt]
      <4>1. CASE b = p
        <5>1. d[b] = [e[b] EXCEPT !.hash = h]
          BY <3>5, <4>1
        <5>2. PICK x, y, z : /\ x = i + 1 /\ y = m.bucket[b].hash
                             /\ z = IF b = home THEN m.bucket[b].cnt + 1 ELSE m.bucket[b].cnt
          OBVIOUS
        <5>3. e[b] = [loc |-> x, hash |-> y, cnt |-> z]
          BY <3>b, <4>1, <5>2
        <5>4. d[b] = [loc |-> x, hash |-> h, cnt |-> z]
          BY <5>1, <5>3
        <5>. QED
          BY <4>1, <5>2, <5>4
      <4>2. CASE b # p
        BY <3>b, <3>5, <4>2
      <4>. QED
        BY <4>1, <4>2
    <3>7. d = [b \in Buckets(m) |-> d[b]]
      BY <3>5
    <3>. HIDE DEF d
    <3>8. d = [b \in Buckets(m) |->
              [loc  |-> IF b = p THEN i + 1 ELSE m.bucket[b].loc,
               hash |-> IF b = p THEN h ELSE m.bucket[b].hash,
               cnt  |-> IF b = home THEN m.bucket[b].cnt + 1 ELSE m.bucket[b].cnt]]
      BY <3>6, <3>7
    <3>. QED
      BY <3>8 DEF c, d
  <2>. QED
    BY <2>1, <2>3 DEF home, h, Enter
<1>. QED
  BY <1>1, <1>9, <1>10 DEF WithBuckets

\* ... so the table then knows one more element.
LEMMA Registered ==
  ASSUME NEW m, IsMap(m), NEW L, Table(m, L), Cardinality(L) < Pow2[m.hbits],
         NEW i \in Nat, i + 1 \notin L, KeyAt(m, i + 1) \in Key,
         \A b \in L : KeyAt(m, b) # KeyAt(m, i + 1)
  PROVE  \E f : /\ aux_reg_hash(m, KeyAt(m, i + 1), i) = WithBuckets(m, f)
                /\ Table(WithBuckets(m, f), L \cup {i + 1})
<1>. DEFINE k == KeyAt(m, i + 1)
<1>1. PICK l \in Buckets(m) \ UsedSet(m) :
        aux_reg_hash(m, k, i) = WithBuckets(m, Enter(m, l, i + 1, k))
  BY Registers
<1>2. PICK o : o = WithBuckets(m, Enter(m, l, i + 1, k))
  OBVIOUS
<1>3. /\ o.hbits = m.hbits /\ o.mask = m.mask /\ o.bucket = Enter(m, l, i + 1, k)
      /\ o.elem = m.elem
  BY <1>2, WithBucketsIs
<1>4. \A b : KeyAt(o, b) = KeyAt(m, b)
  BY <1>3 DEF KeyAt
<1>5. i + 1 \in Nat \ {0}
  OBVIOUS
<1>6. k \in Key /\ \A b \in L : KeyAt(m, b) # k
  OBVIOUS
<1>7. KeyAt(o, i + 1) = k /\ \A b \in L : KeyAt(o, b) = KeyAt(m, b)
  BY <1>4
<1>. HIDE DEF k
<1>8. Table(o, L \cup {i + 1})
  BY <1>3, <1>5, <1>6, <1>7, Entered
<1>. QED
  BY <1>1, <1>2, <1>8 DEF k

\* The map aux_rehash leaves: what follows from hbits, and a table f.
Rehashed(m, f) ==
  [m EXCEPT !.mask = Pow2[m.hbits] - 1, !.limit = Threshold(Pow2[m.hbits]), !.bucket = f]

\* What aux_rehash sets, and what it leaves alone.
LEMMA RehashedIs ==
  ASSUME NEW m, IsMap(m), NEW f
  PROVE  /\ IsMap(Rehashed(m, f))
         /\ Rehashed(m, f).bucket = f
         /\ Rehashed(m, f).ext = m.ext
         /\ Rehashed(m, f).hbits = m.hbits
         /\ Rehashed(m, f).mask = Pow2[m.hbits] - 1
         /\ Rehashed(m, f).limit = Threshold(Pow2[m.hbits])
         /\ Rehashed(m, f).max = m.max
         /\ Rehashed(m, f).room = m.room
         /\ Rehashed(m, f).elem = m.elem
         /\ Rehashed(m, f).size = m.size
         /\ \A g : WithBuckets(Rehashed(m, f), g) = Rehashed(m, g)
<1>1. PICK e, h, k, q, x, r, b, t, z :
        m = [ext |-> e, hbits |-> h, mask |-> k, limit |-> q, max |-> x,
             room |-> r, bucket |-> b, elem |-> t, size |-> z]
  BY DEF IsMap
<1>2. ASSUME NEW g
      PROVE  Rehashed(m, g)
               = [ext |-> e, hbits |-> h, mask |-> Pow2[h] - 1, limit |-> Threshold(Pow2[h]),
                  max |-> x, room |-> r, bucket |-> g, elem |-> t, size |-> z]
  <2>1. m.hbits = h
    BY <1>1
  <2>2. PICK n, p : n = Pow2[h] - 1 /\ p = Threshold(Pow2[h])
    OBVIOUS
  <2>3. Rehashed(m, g) = [m EXCEPT !.mask = n, !.limit = p, !.bucket = g]
    BY <2>1, <2>2 DEF Rehashed
  <2>. QED
    BY <1>1, <2>2, <2>3
<1>3. \A g : WithBuckets(Rehashed(m, f), g) = Rehashed(m, g)
  BY <1>2 DEF WithBuckets
<1>4. m.ext = e /\ m.hbits = h /\ m.max = x /\ m.room = r /\ m.elem = t /\ m.size = z
  BY <1>1
<1>. QED
  BY <1>2, <1>3, <1>4 DEF IsMap

\* The tables aux_rehash goes through, one element after the other.
RehashSteps(m, F, n) ==
  F = [i \in 0 .. n |-> IF i = 0 THEN Emptied(m)
                        ELSE aux_reg_hash(F[i - 1], m.elem[i - 1].key, i - 1)]

\* The loop of aux_rehash registers one element per round.
LEMMA RehashStepsExist ==
  ASSUME NEW m, NEW n \in Nat
  PROVE  \E F : RehashSteps(m, F, n)
<1>. DEFINE S == {k \in Nat : \E F : RehashSteps(m, F, k)}
<1>1. 0 \in S
  <2>1. RehashSteps(m, [i \in 0 .. 0 |-> Emptied(m)], 0)
    BY DEF RehashSteps
  <2>. QED
    BY <2>1
<1>2. ASSUME NEW k \in Nat, k \in S
      PROVE  k + 1 \in S
  <2>1. PICK F : RehashSteps(m, F, k)
    BY <1>2
  <2>. DEFINE G == [i \in 0 .. k + 1 |->
                      IF i = k + 1 THEN aux_reg_hash(F[k], m.elem[k].key, k) ELSE F[i]]
  <2>2. ASSUME NEW i \in 0 .. k + 1
        PROVE  G[i] = IF i = 0 THEN Emptied(m)
                      ELSE aux_reg_hash(G[i - 1], m.elem[i - 1].key, i - 1)
    <3>1. \A j \in 0 .. k : F[j] = IF j = 0 THEN Emptied(m)
                                   ELSE aux_reg_hash(F[j - 1], m.elem[j - 1].key, j - 1)
      BY <2>1 DEF RehashSteps
    <3>2. CASE i = k + 1
      <4>1. i # 0 /\ i - 1 = k /\ k \in 0 .. k + 1 /\ k # k + 1
        BY <3>2
      <4>2. G[k] = F[k] /\ G[i] = aux_reg_hash(F[k], m.elem[k].key, k)
        BY <3>2, <4>1
      <4>. QED
        BY <4>1, <4>2
    <3>3. CASE i # k + 1
      <4>1. i \in 0 .. k /\ (i # 0 => i - 1 \in 0 .. k)
        BY <3>3
      <4>. QED
        BY <3>1, <3>3, <4>1
    <3>. QED
      BY <3>2, <3>3
  <2>3. G = [i \in 0 .. k + 1 |-> G[i]]
    OBVIOUS
  <2>. HIDE DEF G
  <2>4. RehashSteps(m, G, k + 1)
    BY <2>2, <2>3 DEF RehashSteps
  <2>. QED
    BY <2>4
<1>. HIDE DEF S
<1>3. \A i \in 0 .. n : i \in S
  BY <1>1, <1>2, UpTo
<1>. QED
  BY <1>3 DEF S

\* What aux_rehash leaves is what Rehashed says.
LEMMA RehashIs ==
  ASSUME NEW m, m.size \in Nat
  PROVE  \E F : RehashSteps(m, F, m.size) /\ aux_rehash(m) = F[m.size]
<1>. DEFINE reg[i \in 0 .. m.size] ==
              IF i = 0 THEN Emptied(m)
                       ELSE aux_reg_hash(reg[i - 1], m.elem[i - 1].key, i - 1)
<1>1. \E F : F = [i \in 0 .. m.size |->
                   IF i = 0 THEN Emptied(m)
                   ELSE aux_reg_hash(F[i - 1], m.elem[i - 1].key, i - 1)]
  BY RehashStepsExist DEF RehashSteps
<1>2. reg = [i \in 0 .. m.size |->
               IF i = 0 THEN Emptied(m)
               ELSE aux_reg_hash(reg[i - 1], m.elem[i - 1].key, i - 1)]
  BY <1>1, Zenon
<1>3. aux_rehash(m) = reg[m.size]
  BY DEF aux_rehash
<1>4. PICK F : F = reg
  OBVIOUS
<1>. HIDE DEF reg
<1>5. RehashSteps(m, F, m.size)
  BY <1>2, <1>4 DEF RehashSteps
<1>. QED
  BY <1>3, <1>4, <1>5

\* What a map whose table is to be filled again has to have.
Refillable(m) ==
  /\ IsMap(m)
  /\ m.hbits \in 1 .. HashBits
  /\ m.size \in Nat /\ m.size <= Pow2[m.hbits]
  /\ \A i \in 0 .. m.size - 1 : m.elem[i].key \in Key
  /\ \A i, j \in 0 .. m.size - 1 : m.elem[i].key = m.elem[j].key => i = j

\* aux_rehash: the table knows all the elements, whatever it knew.
LEMMA Rehash ==
  ASSUME NEW m, Refillable(m)
  PROVE  \E f : aux_rehash(m) = Rehashed(m, f) /\ Table(Rehashed(m, f), 1 .. m.size)
<1>1. PICK F : RehashSteps(m, F, m.size) /\ aux_rehash(m) = F[m.size]
  BY RehashIs DEF Refillable
<1>. DEFINE S == {i \in 0 .. m.size :
                    \E f : F[i] = Rehashed(m, f) /\ Table(Rehashed(m, f), 1 .. i)}
<1>2. 0 \in S
  <2>1. F[0] = Emptied(m) /\ 0 \in 0 .. m.size
    BY <1>1 DEF RehashSteps, Refillable
  <2>. DEFINE f == [l \in 0 .. Pow2[m.hbits] - 1 |-> Empty]
  <2>2. Emptied(m) = Rehashed(m, f)
    BY DEF Emptied, Rehashed
  <2>3. PICK o : o = Rehashed(m, f)
    OBVIOUS
  <2>4. o.hbits = m.hbits /\ o.mask = Pow2[m.hbits] - 1 /\ o.bucket = f
    <3>. HIDE DEF f
    <3>. QED
      BY <2>3, RehashedIs DEF Refillable
  <2>5. Table(o, {})
    BY <2>4, TableEmpty DEF Refillable
  <2>6. 1 .. 0 = {}
    OBVIOUS
  <2>. HIDE DEF f
  <2>. QED
    BY <2>1, <2>2, <2>3, <2>5, <2>6
<1>3. ASSUME NEW i \in 0 .. m.size - 1, i \in S
      PROVE  i + 1 \in S
  <2>1. PICK f : F[i] = Rehashed(m, f) /\ Table(Rehashed(m, f), 1 .. i)
    BY <1>3
  <2>2. PICK o : o = Rehashed(m, f)
    OBVIOUS
  <2>3. IsMap(o) /\ Table(o, 1 .. i) /\ o.elem = m.elem /\ o.hbits = m.hbits
    BY <2>1, <2>2, RehashedIs DEF Refillable
  <2>4. i \in Nat /\ m.size \in Nat /\ i + 1 \in 0 .. m.size /\ i + 1 # 0 /\ (i + 1) - 1 = i
        /\ i + 1 \notin 1 .. i /\ (1 .. i) \cup {i + 1} = 1 .. i + 1
    BY DEF Refillable
  <2>5. F[i + 1] = aux_reg_hash(o, m.elem[i].key, i)
    <3>1. F[i + 1] = aux_reg_hash(F[(i + 1) - 1], m.elem[(i + 1) - 1].key, (i + 1) - 1)
      BY <1>1, <2>4 DEF RehashSteps
    <3>. QED
      BY <2>1, <2>2, <2>4, <3>1
  <2>6. \A b \in 1 .. i + 1 : KeyAt(o, b) = m.elem[b - 1].key /\ b - 1 \in 0 .. m.size - 1
    BY <2>3, <2>4 DEF KeyAt
  <2>7. m.elem[i].key = KeyAt(o, i + 1) /\ KeyAt(o, i + 1) \in Key
    BY <2>4, <2>6 DEF Refillable
  <2>8. \A b \in 1 .. i : KeyAt(o, b) # KeyAt(o, i + 1)
    <3>1. SUFFICES ASSUME NEW b \in 1 .. i, KeyAt(o, b) = KeyAt(o, i + 1) PROVE FALSE
      OBVIOUS
    <3>2. b \in 1 .. i + 1 /\ i + 1 \in 1 .. i + 1 /\ (i + 1) - 1 = i /\ b - 1 # i
          /\ b - 1 \in 0 .. m.size - 1
      BY <2>4
    <3>3. m.elem[b - 1].key = m.elem[i].key
      BY <2>6, <2>7, <3>1, <3>2
    <3>. QED
      BY <3>2, <3>3 DEF Refillable
  <2>9. Cardinality(1 .. i) < Pow2[o.hbits]
    <3>1. Cardinality(1 .. i) = IF 1 > i THEN 0 ELSE i - 1 + 1
      BY <2>4, FS_Interval
    <3>2. m.hbits \in 0 .. HashBits
      BY HashBitsNat DEF Refillable
    <3>3. Pow2[m.hbits] \in Nat
      BY <3>2, Pow2Nat
    <3>. QED
      BY <2>3, <2>4, <3>1, <3>3 DEF Refillable
  <2>10. PICK g : /\ aux_reg_hash(o, KeyAt(o, i + 1), i) = WithBuckets(o, g)
                  /\ Table(WithBuckets(o, g), (1 .. i) \cup {i + 1})
    BY <2>3, <2>4, <2>7, <2>8, <2>9, Registered
  <2>11. WithBuckets(o, g) = Rehashed(m, g)
    BY <2>2, RehashedIs DEF Refillable
  <2>12. F[i + 1] = Rehashed(m, g) /\ Table(Rehashed(m, g), 1 .. i + 1)
    BY <2>4, <2>5, <2>7, <2>10, <2>11
  <2>. QED
    BY <2>4, <2>12
<1>. HIDE DEF S
<1>4. \A i \in 0 .. m.size : i \in S
  BY <1>2, <1>3, UpTo DEF Refillable
<1>5. m.size \in S
  BY <1>4 DEF Refillable
<1>. QED
  BY <1>1, <1>5 DEF S

----------------------------------------------------------------------------
(* Calls.                                                                  *)

\* A map between two calls.
MapOK(m) == Header(m) /\ Table(m, 1 .. m.size)

\* The sizes in a header, and how they compare.
LEMMA Sizes ==
  ASSUME NEW m, Header(m)
  PROVE  /\ m.size \in Nat /\ m.size <= MaxElems
         /\ m.hbits \in 0 .. HashBits /\ m.hbits # 0
         /\ Pow2[m.hbits] \in Nat /\ Pow2[m.hbits] >= 2
         /\ m.size <= Pow2[m.hbits] /\ Pow2[m.hbits] <= Pow2[HashBits]
         /\ Pow2[HashBits] \in Nat /\ MaxElems = Pow2[HashBits] - 1
         /\ m.limit \in Nat /\ m.limit < Pow2[m.hbits]
<1>1. m.hbits \in 0 .. HashBits /\ m.hbits # 0
  BY HashBitsNat DEF Header
<1>2. Pow2[m.hbits] \in Nat /\ Pow2[m.hbits] >= 2 /\ Pow2[m.hbits] <= Pow2[HashBits]
  BY <1>1, Pow2Nat, Pow2Order
<1>3. Pow2[HashBits] \in Nat /\ MaxElems = Pow2[HashBits] - 1
  BY Pow2Nat, HashBitsNat, MaxElemsIs
<1>4. Threshold(Pow2[m.hbits]) \in 0 .. Pow2[m.hbits] - 1
  BY <1>2, ThresholdIs
<1>5. m.limit \in Nat /\ m.limit < Pow2[m.hbits]
  BY <1>2, <1>3, <1>4 DEF Header
<1>. QED
  BY <1>1, <1>2, <1>3, <1>5 DEF Header

\* The keys of the elements, by location.
LEMMA Keys ==
  ASSUME NEW m, Header(m)
  PROVE  /\ \A a \in 1 .. m.size : KeyAt(m, a) \in Key /\ a - 1 \in 0 .. m.size - 1
         /\ \A a, b \in 1 .. m.size : KeyAt(m, a) = KeyAt(m, b) => a = b
         /\ \A i \in 0 .. m.size - 1 : /\ i + 1 \in 1 .. m.size
                                       /\ m.elem[i].key = KeyAt(m, i + 1)
                                       /\ m.elem[i].key \in Key
                                       /\ m.elem[i].val \in 0 .. ValMod - 1
<1>1. m.size \in Nat
  BY Sizes
<1>2. \A a \in 1 .. m.size : a - 1 \in 0 .. m.size - 1
  BY <1>1
<1>3. \A i \in 0 .. m.size - 1 : i + 1 \in 1 .. m.size /\ (i + 1) - 1 = i
  BY <1>1
<1>4. \A i \in 0 .. m.size - 1 : m.elem[i] \in [key : Key, val : 0 .. ValMod - 1]
  BY DEF Header
<1>5. \A a, b \in 1 .. m.size : KeyAt(m, a) = KeyAt(m, b) => a = b
  <2>1. SUFFICES ASSUME NEW a \in 1 .. m.size, NEW b \in 1 .. m.size,
                        m.elem[a - 1].key = m.elem[b - 1].key
                 PROVE  a = b
    BY DEF KeyAt
  <2>2. a - 1 = b - 1
    BY <1>2, <2>1 DEF Header
  <2>. QED
    BY <1>1, <2>2
<1>. QED
  BY <1>2, <1>3, <1>4, <1>5 DEF KeyAt

\* Larger exponents, larger powers.
LEMMA Pow2Grows ==
  ASSUME NEW a \in 0 .. HashBits, NEW b \in 0 .. HashBits, Pow2[a] = Pow2[b]
  PROVE  a = b
<1>. DEFINE S == {n \in 0 .. HashBits : \A i \in 0 .. HashBits : i < n => Pow2[i] < Pow2[n]}
<1>1. 0 \in S
  BY HashBitsNat
<1>2. ASSUME NEW n \in 0 .. HashBits - 1, n \in S
      PROVE  n + 1 \in S
  <2>1. n + 1 \in 0 .. HashBits /\ n \in 0 .. HashBits
    BY HashBitsNat
  <2>2. Pow2[n + 1] = 2 * Pow2[n] /\ Pow2[n] \in Nat \ {0}
    BY <2>1, Pow2Step, Pow2Nat
  <2>3. ASSUME NEW i \in 0 .. HashBits, i < n + 1
        PROVE  Pow2[i] < Pow2[n + 1]
    <3>1. Pow2[i] \in Nat
      BY Pow2Nat
    <3>2. CASE i = n
      BY <2>2, <3>2
    <3>3. CASE i # n
      <4>1. i < n
        BY <2>3, <3>3
      <4>2. Pow2[i] < Pow2[n]
        BY <1>2, <4>1
      <4>. QED
        BY <2>2, <3>1, <4>2
    <3>. QED
      BY <3>2, <3>3
  <2>. QED
    BY <2>1, <2>3
<1>. HIDE DEF S
<1>3. \A i \in 0 .. HashBits : i \in S
  BY <1>1, <1>2, HashBitsNat, UpTo
<1>4. (a < b => Pow2[a] < Pow2[b]) /\ (b < a => Pow2[b] < Pow2[a])
  BY <1>3 DEF S
<1>5. Pow2[a] \in Nat /\ Pow2[b] \in Nat
  BY Pow2Nat
<1>. QED
  BY <1>4, <1>5

\* aux_insert_check: a map that does not refuse has room for one more element.
LEMMA Checked ==
  ASSUME NEW m, MapOK(m), ~Refused(m), NEW c, c = aux_insert_check(m)
  PROVE  /\ MapOK(c)
         /\ c.size < Pow2[c.hbits] /\ c.size < MaxElems
         /\ c.ext = m.ext /\ c.max = m.max /\ c.elem = m.elem /\ c.size = m.size
         /\ m.ext => c.hbits = m.hbits /\ c.room = m.room
<1>0. IsMap(m) /\ m.ext \in BOOLEAN
  BY DEF MapOK, Header
<1>4. /\ m.size \in Nat /\ m.size <= MaxElems
      /\ m.hbits \in 0 .. HashBits /\ m.hbits # 0
      /\ Pow2[m.hbits] \in Nat /\ Pow2[m.hbits] >= 2
      /\ m.size <= Pow2[m.hbits] /\ Pow2[m.hbits] <= Pow2[HashBits]
      /\ Pow2[HashBits] \in Nat /\ MaxElems = Pow2[HashBits] - 1
      /\ m.limit \in Nat /\ m.limit < Pow2[m.hbits]
  BY Sizes DEF MapOK
<1>1. CASE m.size < m.limit
  <2>1. c = m
    BY <1>1 DEF aux_insert_check
  <2>. QED
    BY <1>1, <1>4, <2>1
<1>2. CASE ~(m.size < m.limit) /\ m.hbits = HashBits
  <2>1. m.size # MaxElems
    BY <1>2, <1>0, <1>4 DEF Refused
  <2>2. c = [m EXCEPT !.limit = MaxElems]
    BY <1>2 DEF aux_insert_check
  <2>3. /\ IsMap(c)
        /\ c.ext = m.ext /\ c.hbits = m.hbits /\ c.mask = m.mask /\ c.limit = MaxElems
        /\ c.max = m.max /\ c.room = m.room /\ c.bucket = m.bucket /\ c.elem = m.elem
        /\ c.size = m.size
    BY <1>0, <2>2 DEF IsMap
  <2>4. Header(c)
    BY <1>2, <2>1, <2>3 DEF MapOK, Header
  <2>5. \A b \in 1 .. m.size : KeyAt(c, b) = KeyAt(m, b)
    BY <2>3 DEF KeyAt
  <2>6. Table(c, 1 .. c.size)
    BY <2>3, <2>5, TableSame DEF MapOK
  <2>. QED
    BY <1>2, <1>4, <2>1, <2>3, <2>4, <2>6 DEF MapOK
<1>3. CASE ~(m.size < m.limit) /\ m.hbits # HashBits
  <2>1. ~m.ext
    BY <1>3, <1>0, <1>4 DEF Refused
  <2>2. PICK d : d = [m EXCEPT !.hbits = @ + 1, !.room = Pow2[m.hbits + 1]]
    OBVIOUS
  <2>3. c = aux_rehash(d)
    BY <1>3, <2>2 DEF aux_insert_check
  <2>4. /\ IsMap(d)
        /\ d.ext = m.ext /\ d.hbits = m.hbits + 1 /\ d.room = Pow2[m.hbits + 1]
        /\ d.max = m.max /\ d.elem = m.elem /\ d.size = m.size
    BY <1>0, <2>2 DEF IsMap
  <2>5. m.hbits \in 0 .. HashBits - 1 /\ m.hbits + 1 \in 1 .. HashBits
        /\ m.hbits + 1 \in 0 .. HashBits
    BY <1>3, <1>4, HashBitsNat
  <2>6. /\ Pow2[m.hbits + 1] = 2 * Pow2[m.hbits] /\ Pow2[m.hbits + 1] <= Pow2[HashBits]
    BY <2>5, Pow2Step, Pow2Order
  <2>7. Refillable(d)
    <3>1. d.size \in Nat /\ d.size <= Pow2[d.hbits] /\ d.hbits \in 1 .. HashBits
      BY <1>4, <2>4, <2>5, <2>6
    <3>2. \A i \in 0 .. d.size - 1 : d.elem[i].key \in Key
      BY <2>4, Keys DEF MapOK
    <3>3. \A i, j \in 0 .. d.size - 1 : d.elem[i].key = d.elem[j].key => i = j
      BY <2>4 DEF MapOK, Header
    <3>. QED
      BY <2>4, <3>1, <3>2, <3>3 DEF Refillable
  <2>8. PICK f : aux_rehash(d) = Rehashed(d, f) /\ Table(Rehashed(d, f), 1 .. d.size)
    BY <2>7, Rehash
  <2>9. /\ IsMap(c) /\ c.ext = d.ext /\ c.hbits = d.hbits /\ c.max = d.max
        /\ c.limit = Threshold(Pow2[c.hbits]) /\ c.room = d.room /\ c.elem = d.elem
        /\ c.size = d.size
    BY <2>3, <2>4, <2>8, RehashedIs
  <2>10. c.size <= Pow2[c.hbits] /\ c.room = Pow2[c.hbits] /\ c.room \in 0 .. Pow2[HashBits]
         /\ c.size < Pow2[c.hbits] /\ c.size < MaxElems
    BY <1>4, <2>4, <2>6, <2>9
  <2>11. Header(c)
    BY <2>4, <2>5, <2>9, <2>10 DEF MapOK, Header
  <2>. QED
    BY <2>1, <2>3, <2>4, <2>8, <2>9, <2>10, <2>11 DEF MapOK
<1>. QED
  BY <1>1, <1>2, <1>3

\* Two maps with the same header, but for the size.
SameHeader(o, m) ==
  /\ o.ext = m.ext /\ o.hbits = m.hbits /\ o.mask = m.mask /\ o.limit = m.limit
  /\ o.max = m.max /\ o.room = m.room

\* ... and the elements e, of which there are n.
LEMMA HeaderKept ==
  ASSUME NEW m, Header(m), NEW o, IsMap(o), SameHeader(o, m),
         o.size \in Nat, o.size <= Pow2[m.hbits], o.size <= MaxElems,
         o.elem \in [0 .. o.size - 1 -> [key : Key, val : 0 .. ValMod - 1]],
         \A i, j \in 0 .. o.size - 1 : o.elem[i].key = o.elem[j].key => i = j
  PROVE  Header(o)
<1>1. MaxElems \in Nat
  BY MaxElemsIs
<1>2. o.size \in 0 .. MaxElems
  BY <1>1
<1>. QED
  BY <1>2 DEF Header, SameHeader

\* A new key, with its value, comes after the last element.
LEMMA AppendIs ==
  ASSUME NEW m, MapOK(m), m.size < Pow2[m.hbits], m.size < MaxElems,
         NEW k \in Key, \A a \in 1 .. m.size : KeyAt(m, a) # k,
         NEW v \in 0 .. ValMod - 1, NEW o, o = Appended(m, k, v)
  PROVE  /\ MapOK(o) /\ SameHeader(o, m)
         /\ o.size = m.size + 1
         /\ o.elem = [i \in 0 .. m.size |->
                        IF i = m.size THEN [key |-> k, val |-> v] ELSE m.elem[i]]
<1>0. IsMap(m) /\ Header(m) /\ Table(m, 1 .. m.size)
  BY DEF MapOK, Header
<1>14. /\ m.size \in Nat /\ MaxElems \in Nat
      /\ Pow2[m.hbits] \in Nat
  BY <1>0, Sizes, MaxElemsIs
<1>1. Cardinality(1 .. m.size) < Pow2[m.hbits]
  <2>1. PICK n : n = m.size
    OBVIOUS
  <2>2. n \in Nat
    BY <1>14, <2>1
  <2>3. Cardinality(1 .. n) = IF 1 > n THEN 0 ELSE n - 1 + 1
    BY <2>2, FS_Interval
  <2>. QED
    BY <1>14, <2>1, <2>2, <2>3
<1>2. PICK l \in Buckets(m) \ UsedSet(m) :
        aux_reg_hash(m, k, m.size) = WithBuckets(m, Enter(m, l, m.size + 1, k))
  <2>1. PICK L, n : L = 1 .. m.size /\ n = m.size
    OBVIOUS
  <2>2. Table(m, L) /\ Cardinality(L) < Pow2[m.hbits] /\ (\A a \in L : KeyAt(m, a) # k)
        /\ n \in Nat
    BY <1>0, <1>1, <1>14, <2>1
  <2>3. \E l \in Buckets(m) \ UsedSet(m) :
           aux_reg_hash(m, k, n) = WithBuckets(m, Enter(m, l, n + 1, k))
    BY <1>0, <2>2, Registers
  <2>. QED
    BY <2>1, <2>3
<1>3. PICK p : p = WithBuckets(m, Enter(m, l, m.size + 1, k))
  OBVIOUS
<1>4. /\ IsMap(p) /\ p.ext = m.ext /\ p.hbits = m.hbits /\ p.mask = m.mask
      /\ p.limit = m.limit /\ p.max = m.max /\ p.room = m.room /\ p.elem = m.elem
      /\ p.size = m.size /\ p.bucket = Enter(m, l, m.size + 1, k)
  BY <1>0, <1>3, WithBucketsIs
<1>5. DOMAIN m.elem = 0 .. m.size - 1
  BY <1>0 DEF Header
<1>6. DOMAIN m.elem \cup {m.size} = 0 .. m.size
  BY <1>5, <1>14
<1>7. PICK e : e = [i \in 0 .. m.size |->
                      IF i = m.size THEN [key |-> k, val |-> v] ELSE m.elem[i]]
  OBVIOUS
<1>8. o = [p EXCEPT !.size = @ + 1, !.elem = e]
  BY <1>2, <1>3, <1>6, <1>7 DEF Appended
<1>9. /\ IsMap(o) /\ o.ext = m.ext /\ o.hbits = m.hbits /\ o.mask = m.mask
      /\ o.limit = m.limit /\ o.max = m.max /\ o.room = m.room /\ o.elem = e
      /\ o.size = m.size + 1 /\ o.bucket = Enter(m, l, m.size + 1, k)
  BY <1>4, <1>8 DEF IsMap
<1>10. SameHeader(o, m)
  BY <1>9 DEF SameHeader
<1>11. /\ \A b \in 1 .. m.size : KeyAt(o, b) = KeyAt(m, b)
       /\ KeyAt(o, m.size + 1) = k
  <2>1. ASSUME NEW b \in 1 .. m.size PROVE o.elem[b - 1] = m.elem[b - 1]
    BY <1>7, <1>9, <1>14
  <2>2. o.elem[(m.size + 1) - 1] = [key |-> k, val |-> v]
    BY <1>7, <1>9, <1>14
  <2>3. [key |-> k, val |-> v].key = k
    OBVIOUS
  <2>. QED
    BY <2>1, <2>2, <2>3 DEF KeyAt
<1>12. Table(o, 1 .. o.size)
  <2>1. m.size + 1 \in Nat \ {0} /\ m.size + 1 \notin 1 .. m.size
        /\ (1 .. m.size) \cup {m.size + 1} = 1 .. o.size
    BY <1>14, <1>9
  <2>2. PICK L, a : L = 1 .. m.size /\ a = m.size + 1
    OBVIOUS
  <2>3. /\ Table(m, L) /\ a \in Nat \ {0} /\ a \notin L
        /\ o.bucket = Enter(m, l, a, k) /\ o.hbits = m.hbits /\ o.mask = m.mask
        /\ \A b \in L : KeyAt(m, b) # k /\ KeyAt(o, b) = KeyAt(m, b)
        /\ KeyAt(o, a) = k
    BY <1>0, <1>9, <1>11, <2>1, <2>2
  <2>4. Table(o, L \cup {a})
    BY <2>3, Entered
  <2>. QED
    BY <2>1, <2>2, <2>4
<1>13. Header(o)
  <2>1. o.elem \in [0 .. o.size - 1 -> [key : Key, val : 0 .. ValMod - 1]]
    <3>1. 0 .. o.size - 1 = 0 .. m.size /\ DOMAIN o.elem = 0 .. m.size
      BY <1>7, <1>9, <1>14
    <3>2. \A i \in 0 .. m.size : o.elem[i] \in [key : Key, val : 0 .. ValMod - 1]
      <4>1. ASSUME NEW i \in 0 .. m.size PROVE o.elem[i] \in [key : Key, val : 0 .. ValMod - 1]
        <5>1. CASE i = m.size
          BY <1>7, <1>9, <5>1
        <5>2. CASE i # m.size
          <6>1. i \in 0 .. m.size - 1 /\ o.elem[i] = m.elem[i]
            BY <1>7, <1>9, <1>14, <5>2
          <6>. QED
            BY <1>0, <6>1 DEF Header
        <5>. QED
          BY <5>1, <5>2
      <4>. QED
        BY <4>1
    <3>3. o.elem = [i \in 0 .. m.size |-> o.elem[i]]
      BY <1>7, <1>9
    <3>. QED
      BY <3>1, <3>2, <3>3
  <2>2. ASSUME NEW i \in 0 .. o.size - 1, NEW j \in 0 .. o.size - 1,
               o.elem[i].key = o.elem[j].key
        PROVE  i = j
    <3>1. i + 1 \in 1 .. o.size /\ j + 1 \in 1 .. o.size /\ i \in Int /\ j \in Int
          /\ (i + 1) - 1 = i /\ (j + 1) - 1 = j
      BY <1>14, <1>9
    <3>2. KeyAt(o, i + 1) = KeyAt(o, j + 1)
      BY <2>2, <3>1 DEF KeyAt
    <3>3. \A a, b \in 1 .. o.size : KeyAt(o, a) = KeyAt(o, b) => a = b
      BY <1>12 DEF Table
    <3>. QED
      BY <3>1, <3>2, <3>3
  <2>3. o.size \in Nat /\ o.size <= Pow2[m.hbits] /\ o.size <= MaxElems
    BY <1>14, <1>9
  <2>. QED
    BY <1>0, <1>9, <1>10, <2>1, <2>2, <2>3, HeaderKept
<1>. QED
  BY <1>7, <1>9, <1>10, <1>12, <1>13 DEF MapOK

\* An element gets another value.
LEMMA WriteIs ==
  ASSUME NEW m, MapOK(m), NEW l \in UsedSet(m), NEW v \in 0 .. ValMod - 1,
         NEW o, o = Written(m, l, v), NEW a, a = m.bucket[l].loc
  PROVE  /\ MapOK(o) /\ SameHeader(o, m) /\ o.size = m.size
         /\ a \in 1 .. m.size
         /\ \A i \in 0 .. m.size - 1 :
              /\ o.elem[i].key = m.elem[i].key
              /\ o.elem[i].val = IF i = a - 1 THEN v ELSE m.elem[i].val
<1>0. IsMap(m) /\ Header(m) /\ Table(m, 1 .. m.size)
  BY DEF MapOK, Header
<1>13. m.size \in Nat
  BY <1>0, Sizes
<1>1. a \in 1 .. m.size /\ a - 1 \in 0 .. m.size - 1
  <2>1. a \in 1 .. m.size
    BY <1>0 DEF Table
  <2>. QED
    BY <1>13, <2>1
<1>2. m.elem \in [0 .. m.size - 1 -> [key : Key, val : 0 .. ValMod - 1]]
  BY <1>0 DEF Header
<1>3. PICK e : e = [m.elem EXCEPT ![a - 1].val = v]
  OBVIOUS
<1>4. o = [m EXCEPT !.elem = e]
  BY <1>3 DEF Written
<1>5. /\ IsMap(o) /\ o.ext = m.ext /\ o.hbits = m.hbits /\ o.mask = m.mask
      /\ o.limit = m.limit /\ o.max = m.max /\ o.room = m.room /\ o.elem = e
      /\ o.size = m.size /\ o.bucket = m.bucket
  BY <1>0, <1>4 DEF IsMap
<1>6. SameHeader(o, m)
  BY <1>5 DEF SameHeader
<1>7. e = [i \in 0 .. m.size - 1 |->
             IF i = a - 1 THEN [m.elem[i] EXCEPT !.val = v] ELSE m.elem[i]]
  BY <1>1, <1>2, <1>3
<1>8. ASSUME NEW i \in 0 .. m.size - 1
      PROVE  /\ e[i] \in [key : Key, val : 0 .. ValMod - 1]
             /\ e[i].key = m.elem[i].key
             /\ e[i].val = IF i = a - 1 THEN v ELSE m.elem[i].val
  <2>1. PICK x \in Key, y \in 0 .. ValMod - 1 : m.elem[i] = [key |-> x, val |-> y]
    BY <1>2
  <2>2. CASE i = a - 1
    <3>1. e[i] = [key |-> x, val |-> v]
      BY <1>7, <2>1, <2>2
    <3>. QED
      BY <2>1, <2>2, <3>1
  <2>3. CASE i # a - 1
    BY <1>7, <2>1, <2>3
  <2>. QED
    BY <2>2, <2>3
<1>9. e = [i \in 0 .. m.size - 1 |-> e[i]]
  BY <1>7
<1>10. e \in [0 .. m.size - 1 -> [key : Key, val : 0 .. ValMod - 1]]
  BY <1>8, <1>9
<1>11. Header(o)
  <2>1. \A i, j \in 0 .. o.size - 1 : o.elem[i].key = o.elem[j].key => i = j
    BY <1>0, <1>5, <1>8 DEF Header
  <2>2. o.size <= Pow2[m.hbits] /\ o.size <= MaxElems
    BY <1>0, <1>5, Sizes
  <2>. QED
    BY <1>0, <1>5, <1>6, <1>10, <1>13, <2>1, <2>2, HeaderKept
<1>12. Table(o, 1 .. m.size)
  <2>1. \A b \in 1 .. m.size : KeyAt(o, b) = KeyAt(m, b)
    BY <1>0, <1>5, <1>8, Keys DEF KeyAt
  <2>. QED
    BY <1>0, <1>5, <2>1, TableSame
<1>. QED
  BY <1>1, <1>5, <1>6, <1>8, <1>11, <1>12 DEF MapOK

\* A function from places to buckets, bucket by bucket.
Bucketed(f, B) ==
  f = [b \in B |-> [loc |-> f[b].loc, hash |-> f[b].hash, cnt |-> f[b].cnt]]

\* The buckets of a map are such a function.
LEMMA BucketedIs ==
  ASSUME NEW m, Shape(m)
  PROVE  Bucketed(m.bucket, Buckets(m))
<1>1. m.bucket = [b \in Buckets(m) |-> m.bucket[b]]
  BY DEF Shape
<1>2. \A b \in Buckets(m) : m.bucket[b] = [loc |-> m.bucket[b].loc,
                                           hash |-> m.bucket[b].hash,
                                           cnt |-> m.bucket[b].cnt]
  BY DEF Shape
<1>. QED
  BY <1>1, <1>2 DEF Bucketed

\* What the assignments to one field of one bucket do.
WithLoc(f, p, x) == [f EXCEPT ![p].loc = x]
WithHash(f, p, x) == [f EXCEPT ![p].hash = x]
CountedLess(f, p) == [f EXCEPT ![p].cnt = @ - 1]

\* A bucket that points elsewhere.
LEMMA SetLoc ==
  ASSUME NEW B, NEW f, Bucketed(f, B), NEW p \in B, NEW x
  PROVE  /\ Bucketed(WithLoc(f, p, x), B)
         /\ \A b \in B : /\ WithLoc(f, p, x)[b].loc = IF b = p THEN x ELSE f[b].loc
                         /\ WithLoc(f, p, x)[b].hash = f[b].hash /\ WithLoc(f, p, x)[b].cnt = f[b].cnt
<1>1. f = [b \in B |-> f[b]]
  BY DEF Bucketed
<1>0. PICK g : g = [f EXCEPT ![p].loc = x]
  OBVIOUS
<1>6. g = WithLoc(f, p, x)
  BY <1>0 DEF WithLoc
<1>2. g = [b \in B |-> IF b = p THEN [f[b] EXCEPT !.loc = x] ELSE f[b]]
  BY <1>0, <1>1
<1>3. ASSUME NEW b \in B
      PROVE  /\ g[b] = [loc |-> g[b].loc, hash |-> g[b].hash, cnt |-> g[b].cnt]
             /\ g[b].loc = IF b = p THEN x ELSE f[b].loc
             /\ g[b].hash = f[b].hash /\ g[b].cnt = f[b].cnt
  <2>1. PICK u, v, w : u = f[b].loc /\ v = f[b].hash /\ w = f[b].cnt
    OBVIOUS
  <2>2. f[b] = [loc |-> u, hash |-> v, cnt |-> w]
    BY <2>1 DEF Bucketed
  <2>3. CASE b = p
    <3>1. g[b] = [loc |-> x, hash |-> v, cnt |-> w]
      BY <1>2, <2>2, <2>3
    <3>. QED
      BY <2>1, <2>3, <3>1
  <2>4. CASE b # p
    BY <1>2, <2>1, <2>2, <2>4
  <2>. QED
    BY <2>3, <2>4
<1>4. g = [b \in B |-> g[b]]
  BY <1>2
<1>5. Bucketed(g, B)
  BY <1>3, <1>4 DEF Bucketed
<1>. QED
  BY <1>6, <1>3, <1>5

\* A bucket with another hash.
LEMMA SetHash ==
  ASSUME NEW B, NEW f, Bucketed(f, B), NEW p \in B, NEW x
  PROVE  /\ Bucketed(WithHash(f, p, x), B)
         /\ \A b \in B : /\ WithHash(f, p, x)[b].hash = IF b = p THEN x ELSE f[b].hash
                         /\ WithHash(f, p, x)[b].loc = f[b].loc /\ WithHash(f, p, x)[b].cnt = f[b].cnt
<1>1. f = [b \in B |-> f[b]]
  BY DEF Bucketed
<1>0. PICK g : g = [f EXCEPT ![p].hash = x]
  OBVIOUS
<1>6. g = WithHash(f, p, x)
  BY <1>0 DEF WithHash
<1>2. g = [b \in B |-> IF b = p THEN [f[b] EXCEPT !.hash = x] ELSE f[b]]
  BY <1>0, <1>1
<1>3. ASSUME NEW b \in B
      PROVE  /\ g[b] = [loc |-> g[b].loc, hash |-> g[b].hash, cnt |-> g[b].cnt]
             /\ g[b].hash = IF b = p THEN x ELSE f[b].hash
             /\ g[b].loc = f[b].loc /\ g[b].cnt = f[b].cnt
  <2>1. PICK u, v, w : u = f[b].loc /\ v = f[b].hash /\ w = f[b].cnt
    OBVIOUS
  <2>2. f[b] = [loc |-> u, hash |-> v, cnt |-> w]
    BY <2>1 DEF Bucketed
  <2>3. CASE b = p
    <3>1. g[b] = [loc |-> u, hash |-> x, cnt |-> w]
      BY <1>2, <2>2, <2>3
    <3>. QED
      BY <2>1, <2>3, <3>1
  <2>4. CASE b # p
    BY <1>2, <2>1, <2>2, <2>4
  <2>. QED
    BY <2>3, <2>4
<1>4. g = [b \in B |-> g[b]]
  BY <1>2
<1>5. Bucketed(g, B)
  BY <1>3, <1>4 DEF Bucketed
<1>. QED
  BY <1>6, <1>3, <1>5

\* A home bucket that counts one element less.
LEMMA SetCount ==
  ASSUME NEW B, NEW f, Bucketed(f, B), NEW p \in B, NEW x, x = f[p].cnt - 1
  PROVE  /\ Bucketed(CountedLess(f, p), B)
         /\ \A b \in B : /\ CountedLess(f, p)[b].cnt = IF b = p THEN x ELSE f[b].cnt
                         /\ CountedLess(f, p)[b].loc = f[b].loc /\ CountedLess(f, p)[b].hash = f[b].hash
<1>1. f = [b \in B |-> f[b]]
  BY DEF Bucketed
<1>0. PICK g : g = [f EXCEPT ![p].cnt = x]
  OBVIOUS
<1>6. g = CountedLess(f, p)
  BY <1>0 DEF CountedLess
<1>2. g = [b \in B |-> IF b = p THEN [f[b] EXCEPT !.cnt = x] ELSE f[b]]
  BY <1>0, <1>1
<1>3. ASSUME NEW b \in B
      PROVE  /\ g[b] = [loc |-> g[b].loc, hash |-> g[b].hash, cnt |-> g[b].cnt]
             /\ g[b].cnt = IF b = p THEN x ELSE f[b].cnt
             /\ g[b].loc = f[b].loc /\ g[b].hash = f[b].hash
  <2>1. PICK u, v, w : u = f[b].loc /\ v = f[b].hash /\ w = f[b].cnt
    OBVIOUS
  <2>2. f[b] = [loc |-> u, hash |-> v, cnt |-> w]
    BY <2>1 DEF Bucketed
  <2>3. CASE b = p
    <3>1. g[b] = [loc |-> u, hash |-> v, cnt |-> x]
      BY <1>2, <2>2, <2>3
    <3>. QED
      BY <2>1, <2>3, <3>1
  <2>4. CASE b # p
    BY <1>2, <2>1, <2>2, <2>4
  <2>. QED
    BY <2>3, <2>4
<1>4. g = [b \in B |-> g[b]]
  BY <1>2
<1>5. Bucketed(g, B)
  BY <1>3, <1>4 DEF Bucketed
<1>. QED
  BY <1>6, <1>3, <1>5

\* The bucket of a key is freed.
LEMMA UnregisteredIs ==
  ASSUME NEW m, IsMap(m), NEW L, Table(m, L), NEW a \in L
  PROVE  \E l \in UsedSet(m) :
           /\ l = Probe(m, KeyAt(m, a)) /\ m.bucket[l].loc = a
           /\ Unregistered(m, KeyAt(m, a)) = WithBuckets(m, Leave(m, l, KeyAt(m, a)))
<1>1. PICK k : k = KeyAt(m, a)
  OBVIOUS
<1>2. PICK l : l = Probe(m, k)
  OBVIOUS
<1>3. k \in Key
  BY <1>1 DEF Table
<1>4. l \in UsedSet(m) /\ m.bucket[l].loc = a
  BY <1>1, <1>2, <1>3, ProbeFinds
<1>5. PICK home : home = h2bid(Hash[k], m.hbits)
  OBVIOUS
<1>6. home \in Buckets(m) /\ l \in Buckets(m)
  BY <1>3, <1>4, <1>5, TableIs DEF UsedSet
<1>7. PICK d, B, z : d = m.bucket /\ B = Buckets(m) /\ z = 0
  OBVIOUS
<1>8. PICK f : f = WithLoc(d, l, z)
  OBVIOUS
<1>9. PICK g : g = WithHash(f, l, z)
  OBVIOUS
<1>10. PICK h : h = CountedLess(g, home)
  OBVIOUS
<1>11. Bucketed(d, B) /\ home \in B /\ l \in B
  BY <1>6, <1>7, BucketedIs DEF Table
<1>12. /\ Bucketed(f, B)
       /\ \A b \in B : /\ f[b].loc = IF b = l THEN z ELSE d[b].loc
                       /\ f[b].hash = d[b].hash /\ f[b].cnt = d[b].cnt
  BY <1>8, <1>11, SetLoc
<1>13. /\ Bucketed(g, B)
       /\ \A b \in B : /\ g[b].hash = IF b = l THEN z ELSE f[b].hash
                       /\ g[b].loc = f[b].loc /\ g[b].cnt = f[b].cnt
  BY <1>9, <1>11, <1>12, SetHash
<1>16. PICK x : x = g[home].cnt - 1
  OBVIOUS
<1>17. /\ Bucketed(h, B)
      /\ \A b \in B : /\ h[b].cnt = IF b = home THEN x ELSE g[b].cnt
                      /\ h[b].loc = g[b].loc /\ h[b].hash = g[b].hash
  BY <1>16, <1>10, <1>11, <1>13, SetCount
<1>18. \A b \in B :
        /\ h[b].loc = IF b = l THEN 0 ELSE m.bucket[b].loc
        /\ h[b].hash = IF b = l THEN 0 ELSE m.bucket[b].hash
        /\ h[b].cnt = IF b = home THEN m.bucket[b].cnt - 1 ELSE m.bucket[b].cnt
  BY <1>7, <1>11, <1>12, <1>13, <1>16, <1>17
<1>14. h = Leave(m, l, k)
  <2>1. h = [b \in Buckets(m) |-> [loc |-> h[b].loc, hash |-> h[b].hash, cnt |-> h[b].cnt]]
    BY <1>7, <1>17 DEF Bucketed
  <2>2. \A b \in Buckets(m) :
          [loc |-> h[b].loc, hash |-> h[b].hash, cnt |-> h[b].cnt]
            = [loc |-> IF b = l THEN 0 ELSE m.bucket[b].loc,
               hash |-> IF b = l THEN 0 ELSE m.bucket[b].hash,
               cnt |-> IF b = h2bid(Hash[k], m.hbits) THEN m.bucket[b].cnt - 1
                                                     ELSE m.bucket[b].cnt]
    BY <1>5, <1>7, <1>18
  <2>. QED
    BY <2>1, <2>2 DEF Leave
<1>15. Unregistered(m, k) = [m EXCEPT !.bucket = h]
  BY <1>2, <1>5, <1>7, <1>8, <1>9, <1>10
     DEF Unregistered, WithLoc, WithHash, CountedLess
<1>. QED
  BY <1>1, <1>2, <1>4, <1>14, <1>15 DEF WithBuckets

\* A bucket that points at the new place of its element.
LEMMA PointIs ==
  ASSUME NEW m, Shape(m), NEW l \in Buckets(m), NEW a
  PROVE  WithLoc(m.bucket, l, a) = Point(m, l, a)
<1>1. PICK d, B : d = m.bucket /\ B = Buckets(m)
  OBVIOUS
<1>2. PICK f : f = WithLoc(d, l, a)
  OBVIOUS
<1>3. Bucketed(d, B) /\ l \in B
  BY <1>1, BucketedIs
<1>4. /\ Bucketed(f, B)
      /\ \A b \in B : /\ f[b].loc = IF b = l THEN a ELSE d[b].loc
                      /\ f[b].hash = d[b].hash /\ f[b].cnt = d[b].cnt
  BY <1>2, <1>3, SetLoc
<1>5. f = [b \in Buckets(m) |-> [loc |-> f[b].loc, hash |-> f[b].hash, cnt |-> f[b].cnt]]
  BY <1>1, <1>4 DEF Bucketed
<1>6. \A b \in Buckets(m) :
        [loc |-> f[b].loc, hash |-> f[b].hash, cnt |-> f[b].cnt]
          = [loc |-> IF b = l THEN a ELSE m.bucket[b].loc,
             hash |-> m.bucket[b].hash, cnt |-> m.bucket[b].cnt]
  BY <1>1, <1>4
<1>7. f = Point(m, l, a)
  BY <1>5, <1>6 DEF Point
<1>. QED
  BY <1>1, <1>2, <1>7

\* The hole at location a is filled with the last element, if it is not the
\* last: the table knows the locations up to one less.
LEMMA HoleFilledIs ==
  ASSUME NEW m, IsMap(m), m.size \in Nat \ {0}, NEW a \in 1 .. m.size,
         Table(m, (1 .. m.size) \ {a}),
         DOMAIN m.elem = 0 .. m.size - 1, m.elem = [i \in DOMAIN m.elem |-> m.elem[i]],
         NEW o, o = HoleFilled(m, a)
  PROVE  /\ IsMap(o) /\ SameHeader(o, m) /\ o.size = m.size
         /\ Table(o, 1 .. m.size - 1)
         /\ DOMAIN o.elem = 0 .. m.size - 1
         /\ \A i \in 0 .. m.size - 2 :
              o.elem[i] = IF i = a - 1 THEN m.elem[m.size - 1] ELSE m.elem[i]
<1>1. CASE m.size > 1 /\ m.size # a
  <2>1. PICK last, tl : last = m.elem[m.size - 1] /\ tl = Probe(m, last.key)
    OBVIOUS
  <2>2. PICK n, L : n = m.size /\ L = (1 .. m.size) \ {a}
    OBVIOUS
  <2>3. n \in L /\ n \in Nat /\ Table(m, L) /\ KeyAt(m, n) = last.key
    BY <1>1, <2>1, <2>2 DEF KeyAt
  <2>4. last.key \in Key
    BY <2>3 DEF Table
  <2>5. tl \in UsedSet(m) /\ m.bucket[tl].loc = n
    BY <2>1, <2>3, <2>4, ProbeFinds
  <2>6. tl \in Buckets(m) /\ Shape(m)
    BY <2>3, <2>5 DEF UsedSet, Table
  <2>7. PICK e, f : e = [m.elem EXCEPT ![a - 1] = last] /\ f = [m.bucket EXCEPT ![tl].loc = a]
    OBVIOUS
  <2>8. o = [m EXCEPT !.elem = e, !.bucket = f]
    BY <1>1, <2>1, <2>7 DEF HoleFilled
  <2>9. f = Point(m, tl, a)
    <3>1. f = WithLoc(m.bucket, tl, a)
      BY <2>7 DEF WithLoc
    <3>. QED
      BY <2>6, <3>1, PointIs
  <2>10. /\ IsMap(o) /\ o.ext = m.ext /\ o.hbits = m.hbits /\ o.mask = m.mask
         /\ o.limit = m.limit /\ o.max = m.max /\ o.room = m.room /\ o.elem = e
         /\ o.size = m.size /\ o.bucket = f
    BY <2>8 DEF IsMap
  <2>11. a - 1 \in 0 .. m.size - 1
    OBVIOUS
  <2>12. e = [i \in 0 .. m.size - 1 |-> IF i = a - 1 THEN last ELSE m.elem[i]]
    BY <2>7, <2>11
  <2>13. /\ \A b \in L \ {n} : KeyAt(o, b) = KeyAt(m, b)
         /\ KeyAt(o, a) = KeyAt(m, n)
    <3>1. ASSUME NEW b \in L \ {n} PROVE e[b - 1] = m.elem[b - 1]
      <4>1. b - 1 \in 0 .. m.size - 1 /\ b - 1 # a - 1
        BY <2>2
      <4>. QED
        BY <2>12, <4>1
    <3>2. e[a - 1] = last
      BY <2>11, <2>12
    <3>. QED
      BY <2>3, <2>10, <3>1, <3>2 DEF KeyAt
  <2>14. a \in Nat \ {0} /\ a \notin L
    BY <2>2
  <2>15. o.bucket = Point(m, tl, a) /\ o.hbits = m.hbits /\ o.mask = m.mask
    BY <2>9, <2>10
  <2>16. Table(o, (L \ {n}) \cup {a})
    <3>1. /\ Table(m, L) /\ tl \in UsedSet(m) /\ m.bucket[tl].loc = n
          /\ a \in Nat \ {0} /\ a \notin L
          /\ o.hbits = m.hbits /\ o.mask = m.mask /\ o.bucket = Point(m, tl, a)
          /\ (\A b \in L \ {n} : KeyAt(o, b) = KeyAt(m, b)) /\ KeyAt(o, a) = KeyAt(m, n)
      BY <2>3, <2>5, <2>13, <2>14, <2>15
    <3>. QED
      BY <3>1, Moved
  <2>17. (L \ {n}) \cup {a} = 1 .. m.size - 1
    BY <1>1, <2>2
  <2>18. \A i \in 0 .. m.size - 2 : i \in 0 .. m.size - 1
    OBVIOUS
  <2>19. ASSUME NEW i \in 0 .. m.size - 2
         PROVE  o.elem[i] = IF i = a - 1 THEN m.elem[m.size - 1] ELSE m.elem[i]
    <3>1. o.elem[i] = IF i = a - 1 THEN last ELSE m.elem[i]
      BY <2>10, <2>12, <2>18
    <3>. QED
      BY <2>1, <3>1
  <2>20. DOMAIN o.elem = 0 .. m.size - 1
    BY <2>10, <2>12
  <2>21. SameHeader(o, m)
    BY <2>10 DEF SameHeader
  <2>22. Table(o, 1 .. m.size - 1)
    BY <2>16, <2>17
  <2>. QED
    BY <2>10, <2>19, <2>20, <2>21, <2>22
<1>2. CASE ~(m.size > 1 /\ m.size # a)
  <2>1. o = m
    BY <1>2 DEF HoleFilled
  <2>2. a = m.size /\ (1 .. m.size) \ {a} = 1 .. m.size - 1
    BY <1>2
  <2>3. \A i \in 0 .. m.size - 2 : i # a - 1
    BY <2>2
  <2>. QED
    BY <2>1, <2>2, <2>3 DEF SameHeader
<1>. QED
  BY <1>1, <1>2

\* A deletion: the table and the elements without the key's.
LEMMA DeleteIs ==
  ASSUME NEW m, MapOK(m), NEW a \in 1 .. m.size, NEW l, l = Probe(m, KeyAt(m, a)),
         NEW o, o = Shortened(HoleFilled(Unregistered(m, KeyAt(m, a)), m.bucket[l].loc))
  PROVE  /\ l \in UsedSet(m)
         /\ MapOK(o) /\ SameHeader(o, m) /\ o.size = m.size - 1
         /\ \A i \in 0 .. o.size - 1 :
              o.elem[i] = IF i = a - 1 THEN m.elem[m.size - 1] ELSE m.elem[i]
<1>0. IsMap(m) /\ Header(m) /\ Table(m, 1 .. m.size)
  BY DEF MapOK, Header
<1>20. m.size \in Nat \ {0} /\ m.size <= MaxElems /\ MaxElems \in Nat
      /\ Pow2[m.hbits] \in Nat /\ m.size <= Pow2[m.hbits]
  BY <1>0, Sizes, MaxElemsIs
<1>1. PICK k : k = KeyAt(m, a)
  OBVIOUS
<1>2. PICK L : L = 1 .. m.size
  OBVIOUS
<1>3. /\ l \in UsedSet(m) /\ m.bucket[l].loc = a
      /\ Unregistered(m, k) = WithBuckets(m, Leave(m, l, k))
  <2>1. Table(m, L) /\ a \in L
    BY <1>0, <1>2
  <2>2. \E x \in UsedSet(m) :
           /\ x = Probe(m, KeyAt(m, a)) /\ m.bucket[x].loc = a
           /\ Unregistered(m, KeyAt(m, a)) = WithBuckets(m, Leave(m, x, KeyAt(m, a)))
    BY <1>0, <2>1, UnregisteredIs
  <2>. QED
    BY <1>1, <2>2
<1>4. PICK p : p = Unregistered(m, k)
  OBVIOUS
<1>5. /\ IsMap(p) /\ p.ext = m.ext /\ p.hbits = m.hbits /\ p.mask = m.mask
      /\ p.limit = m.limit /\ p.max = m.max /\ p.room = m.room /\ p.elem = m.elem
      /\ p.size = m.size /\ p.bucket = Leave(m, l, k)
  BY <1>0, <1>3, <1>4, WithBucketsIs
<1>6. \A b : KeyAt(p, b) = KeyAt(m, b)
  BY <1>5 DEF KeyAt
<1>7. Table(p, L \ {a})
  <2>1. Table(m, L)
    BY <1>0, <1>2
  <2>2. p.bucket = Leave(m, l, k) /\ p.hbits = m.hbits /\ p.mask = m.mask
    BY <1>5
  <2>3. \A b \in L \ {a} : KeyAt(p, b) = KeyAt(m, b)
    BY <1>6
  <2>. QED
    BY <1>1, <1>3, <2>1, <2>2, <2>3, Left
<1>8. PICK q : q = HoleFilled(p, a)
  OBVIOUS
<1>9. DOMAIN m.elem = 0 .. m.size - 1 /\ m.elem = [i \in DOMAIN m.elem |-> m.elem[i]]
  BY <1>0 DEF Header
<1>10. /\ IsMap(q) /\ SameHeader(q, p) /\ q.size = p.size
       /\ Table(q, 1 .. p.size - 1)
       /\ DOMAIN q.elem = 0 .. p.size - 1
       /\ \A i \in 0 .. p.size - 2 :
            q.elem[i] = IF i = a - 1 THEN p.elem[p.size - 1] ELSE p.elem[i]
  <2>1. Table(p, (1 .. p.size) \ {a}) /\ p.size \in Nat \ {0} /\ a \in 1 .. p.size
    BY <1>2, <1>5, <1>7, <1>20
  <2>2. DOMAIN p.elem = 0 .. p.size - 1 /\ p.elem = [i \in DOMAIN p.elem |-> p.elem[i]]
    BY <1>5, <1>9
  <2>. QED
    BY <1>5, <1>8, <2>1, <2>2, HoleFilledIs
<1>11. o = Shortened(q)
  BY <1>1, <1>3, <1>4, <1>8
<1>12. PICK e : e = [i \in 0 .. m.size - 2 |-> q.elem[i]]
  OBVIOUS
<1>13. (0 .. m.size - 1) \ {m.size - 1} = 0 .. m.size - 2
  BY <1>20
<1>14. o = [q EXCEPT !.size = m.size - 1, !.elem = e]
  BY <1>5, <1>10, <1>11, <1>12, <1>13 DEF Shortened
<1>15. /\ IsMap(o) /\ o.ext = q.ext /\ o.hbits = q.hbits /\ o.mask = q.mask
       /\ o.limit = q.limit /\ o.max = q.max /\ o.room = q.room /\ o.elem = e
       /\ o.size = m.size - 1 /\ o.bucket = q.bucket
  BY <1>10, <1>14 DEF IsMap
<1>16. SameHeader(o, m)
  BY <1>5, <1>10, <1>15 DEF SameHeader
<1>17. Table(o, 1 .. o.size)
  <2>1. \A b \in 1 .. m.size - 1 : b - 1 \in 0 .. m.size - 2
    BY <1>20
  <2>2. \A b \in 1 .. m.size - 1 : KeyAt(o, b) = KeyAt(q, b)
    BY <1>12, <1>15, <2>1 DEF KeyAt
  <2>3. PICK K : K = 1 .. m.size - 1
    OBVIOUS
  <2>4. Table(q, K) /\ (\A b \in K : KeyAt(o, b) = KeyAt(q, b))
    BY <1>5, <1>10, <2>2, <2>3
  <2>5. Table(o, K)
    BY <1>15, <2>4, TableSame
  <2>. QED
    BY <1>15, <2>3, <2>5
<1>18. \A i \in 0 .. o.size - 1 :
         o.elem[i] = IF i = a - 1 THEN m.elem[m.size - 1] ELSE m.elem[i]
  <2>1. 0 .. o.size - 1 = 0 .. m.size - 2
    BY <1>15, <1>20
  <2>2. ASSUME NEW i \in 0 .. m.size - 2
        PROVE  o.elem[i] = IF i = a - 1 THEN m.elem[m.size - 1] ELSE m.elem[i]
    <3>1. o.elem[i] = q.elem[i]
      BY <1>12, <1>15
    <3>2. q.elem[i] = IF i = a - 1 THEN p.elem[p.size - 1] ELSE p.elem[i]
      BY <1>5, <1>10
    <3>. QED
      BY <1>5, <3>1, <3>2
  <2>. QED
    BY <2>1, <2>2
<1>19. Header(o)
  <2>1. o.elem \in [0 .. o.size - 1 -> [key : Key, val : 0 .. ValMod - 1]]
    <3>1. 0 .. o.size - 1 = 0 .. m.size - 2
      BY <1>15, <1>20
    <3>2. m.size - 1 \in 0 .. m.size - 1 /\ \A i \in 0 .. m.size - 2 : i \in 0 .. m.size - 1
      BY <1>20
    <3>3. ASSUME NEW i \in 0 .. m.size - 2
          PROVE  o.elem[i] \in [key : Key, val : 0 .. ValMod - 1]
      <4>1. o.elem[i] = IF i = a - 1 THEN m.elem[m.size - 1] ELSE m.elem[i]
        BY <1>18, <3>1
      <4>2. /\ m.elem[m.size - 1] \in [key : Key, val : 0 .. ValMod - 1]
            /\ m.elem[i] \in [key : Key, val : 0 .. ValMod - 1]
        BY <1>0, <3>2 DEF Header
      <4>. QED
        BY <4>1, <4>2
    <3>4. o.elem = [i \in 0 .. m.size - 2 |-> o.elem[i]]
      BY <1>12, <1>15
    <3>. QED
      BY <3>1, <3>3, <3>4
  <2>2. ASSUME NEW i \in 0 .. o.size - 1, NEW j \in 0 .. o.size - 1,
               o.elem[i].key = o.elem[j].key
        PROVE  i = j
    <3>1. i + 1 \in 1 .. o.size /\ j + 1 \in 1 .. o.size /\ i \in Int /\ j \in Int
          /\ (i + 1) - 1 = i /\ (j + 1) - 1 = j
      BY <1>20, <1>15
    <3>2. KeyAt(o, i + 1) = KeyAt(o, j + 1)
      BY <2>2, <3>1 DEF KeyAt
    <3>3. \A x, y \in 1 .. o.size : KeyAt(o, x) = KeyAt(o, y) => x = y
      BY <1>17 DEF Table
    <3>. QED
      BY <3>1, <3>2, <3>3
  <2>3. o.size \in Nat /\ o.size <= Pow2[m.hbits] /\ o.size <= MaxElems
    BY <1>15, <1>20
  <2>. QED
    BY <1>0, <1>15, <1>16, <2>1, <2>2, <2>3, HeaderKept
<1>. QED
  BY <1>3, <1>15, <1>16, <1>17, <1>18, <1>19 DEF MapOK

\* The header of a new map of a given size.
LEMMA AllocatedIs ==
  ASSUME NEW ext \in BOOLEAN, NEW n \in 0 .. Pow2[HashBits], NEW o, o = Allocated(ext, n)
  PROVE  /\ MapOK(o) /\ o.ext = ext /\ o.size = 0 /\ o.hbits = shm_s2hb(n)
         /\ o.mask = Pow2[o.hbits] - 1
         /\ o.limit = Threshold(Pow2[o.hbits])
         /\ ext => o.max = n
<1>1. PICK h, none, r, x :
        /\ h = shm_s2hb(n) /\ none = << >>
        /\ r = (IF ext THEN snextpow2(n) ELSE Pow2[shm_s2hb(n)])
        /\ x = (IF ext THEN n ELSE 0)
  OBVIOUS
<1>2. PICK d : d = [ext |-> ext, hbits |-> h, mask |-> 0, limit |-> 0, max |-> x,
                    room |-> r, bucket |-> none, elem |-> none, size |-> 0]
  OBVIOUS
<1>3. o = aux_rehash(d)
  BY <1>1, <1>2 DEF Allocated
<1>4. /\ IsMap(d) /\ d.ext = ext /\ d.hbits = h /\ d.max = x /\ d.room = r
      /\ d.elem = none /\ d.size = 0
  BY <1>2 DEF IsMap
<1>5. /\ h \in 1 .. HashBits /\ h \in 0 .. HashBits
      /\ Pow2[h] \in Nat \ {0} /\ Pow2[h] <= Pow2[HashBits] /\ Pow2[HashBits] \in Nat
  <2>1. h \in 1 .. HashBits /\ h \in 0 .. HashBits
    BY <1>1, TableBits, HashBitsNat
  <2>. QED
    BY <2>1, Pow2Nat, Pow2Order, HashBitsNat
<1>6. Refillable(d)
  BY <1>4, <1>5 DEF Refillable
<1>7. PICK f : aux_rehash(d) = Rehashed(d, f) /\ Table(Rehashed(d, f), 1 .. d.size)
  BY <1>6, Rehash
<1>8. /\ IsMap(o) /\ o.ext = ext /\ o.hbits = h /\ o.max = x /\ o.room = r
      /\ o.limit = Threshold(Pow2[h]) /\ o.elem = none /\ o.size = 0
      /\ o.mask = Pow2[h] - 1
  BY <1>3, <1>4, <1>7, RehashedIs
<1>9. r \in 0 .. Pow2[HashBits] /\ x \in 0 .. Pow2[HashBits] /\ (~ext => r = Pow2[h])
  <2>1. snextpow2(n) \in 0 .. Pow2[HashBits]
    BY NextPow2
  <2>. QED
    BY <1>1, <1>5, <2>1
<1>10. none \in [0 .. 0 - 1 -> [key : Key, val : 0 .. ValMod - 1]]
  BY <1>1
<1>11. 0 \in 0 .. MaxElems /\ 0 <= Pow2[h]
  BY <1>5, MaxElemsIs
<1>12. Header(o)
  BY <1>5, <1>8, <1>9, <1>10, <1>11 DEF Header
<1>13. Table(o, 1 .. o.size)
  BY <1>3, <1>4, <1>7, <1>8
<1>. QED
  BY <1>1, <1>8, <1>12, <1>13 DEF MapOK

\* The elements of a map on the heap, copied into a new one with room for them.
LEMMA CopiedIntoIs ==
  ASSUME NEW m, MapOK(m), ~m.ext,
         NEW p, MapOK(p), ~p.ext, m.size <= Pow2[p.hbits],
         p.mask = Pow2[p.hbits] - 1, p.limit = Threshold(Pow2[p.hbits]),
         NEW o, o = CopiedInto(p, m)
  PROVE  MapOK(o) /\ ~o.ext /\ o.size = m.size /\ o.elem = m.elem
<1>0. IsMap(m) /\ Header(m) /\ Table(m, 1 .. m.size)
  BY DEF MapOK, Header
<1>12. m.size \in Nat /\ m.size <= MaxElems /\ m.hbits \in 0 .. HashBits
  BY <1>0, Sizes
<1>4. /\ IsMap(p) /\ p.hbits \in 0 .. HashBits /\ p.hbits \in 1 .. HashBits
      /\ p.room = Pow2[p.hbits] /\ p.ext = FALSE
  BY HashBitsNat DEF MapOK, Header
<1>5. m.elem = [i \in 0 .. m.size - 1 |-> m.elem[i]]
  BY <1>0 DEF Header
<1>6. PICK e : e = m.elem
  OBVIOUS
<1>7. PICK d : d = [p EXCEPT !.size = m.size, !.elem = e]
  OBVIOUS
<1>8. /\ IsMap(d) /\ d.ext = p.ext /\ d.hbits = p.hbits /\ d.mask = p.mask
      /\ d.limit = p.limit /\ d.max = p.max /\ d.room = p.room /\ d.elem = m.elem
      /\ d.size = m.size
  BY <1>4, <1>6, <1>7 DEF IsMap
<1>9. o = IF d.room = m.room THEN WithBuckets(d, m.bucket) ELSE aux_rehash(d)
  <2>1. e = [i \in 0 .. m.size - 1 |-> m.elem[i]]
    BY <1>5, <1>6
  <2>. QED
    BY <1>7, <2>1 DEF CopiedInto, WithBuckets
<1>10. CASE d.room = m.room
  <2>1. Pow2[p.hbits] = Pow2[m.hbits]
    BY <1>0, <1>4, <1>8, <1>10 DEF Header
  <2>2. PICK x, y : x = p.hbits /\ y = m.hbits
    OBVIOUS
  <2>3. x = y
    BY <1>4, <1>12, <2>1, <2>2, Pow2Grows
  <2>4. d.hbits = m.hbits /\ d.mask = m.mask
    <3>1. m.mask = Pow2[m.hbits] - 1
      BY <1>0 DEF Table, Shape
    <3>. QED
      BY <1>4, <1>8, <2>2, <2>3, <3>1
  <2>5. o = WithBuckets(d, m.bucket)
    BY <1>9, <1>10
  <2>6. /\ IsMap(o) /\ o.ext = d.ext /\ o.hbits = d.hbits /\ o.mask = d.mask
        /\ o.limit = d.limit /\ o.max = d.max /\ o.room = d.room /\ o.elem = d.elem
        /\ o.size = d.size /\ o.bucket = m.bucket
    <3>1. PICK g : g = m.bucket
      OBVIOUS
    <3>2. IsMap(d) /\ o = WithBuckets(d, g)
      BY <1>8, <2>5, <3>1
    <3>. QED
      BY <3>1, <3>2, WithBucketsIs
  <2>7. PICK L : L = 1 .. m.size
    OBVIOUS
  <2>8. Table(m, L) /\ o.hbits = m.hbits /\ o.mask = m.mask /\ o.bucket = m.bucket
        /\ \A b \in L : KeyAt(o, b) = KeyAt(m, b)
    BY <1>0, <1>8, <2>4, <2>6, <2>7 DEF KeyAt
  <2>9. Table(o, L)
    BY <2>8, TableSame
  <2>10. Header(o)
    <3>1. /\ o.ext = FALSE /\ o.hbits \in 1 .. HashBits
          /\ o.limit = Threshold(Pow2[o.hbits])
          /\ o.room = Pow2[o.hbits] /\ o.room = m.room /\ o.max = p.max
          /\ o.size = m.size /\ o.elem = m.elem /\ o.size <= Pow2[o.hbits]
      BY <1>4, <1>8, <1>10, <2>6
    <3>2. o.room \in 0 .. Pow2[HashBits] /\ o.max \in 0 .. Pow2[HashBits]
      BY <1>0, <3>1 DEF MapOK, Header
    <3>3. /\ o.size \in 0 .. MaxElems
          /\ o.elem \in [0 .. o.size - 1 -> [key : Key, val : 0 .. ValMod - 1]]
          /\ \A i, j \in 0 .. o.size - 1 : o.elem[i].key = o.elem[j].key => i = j
      BY <1>0, <3>1 DEF Header
    <3>4. IsMap(o) /\ o.ext \in BOOLEAN /\ (~o.ext => o.room = Pow2[o.hbits])
      BY <2>6, <3>1
    <3>. QED
      BY <3>1, <3>2, <3>3, <3>4 DEF Header
  <2>. QED
    BY <1>4, <1>8, <2>6, <2>7, <2>9, <2>10 DEF MapOK
<1>11. CASE d.room # m.room
  <2>1. o = aux_rehash(d)
    BY <1>9, <1>11
  <2>2. Refillable(d)
    <3>1. \A i \in 0 .. d.size - 1 : d.elem[i].key \in Key
      BY <1>0, <1>8, Keys
    <3>2. \A i, j \in 0 .. d.size - 1 : d.elem[i].key = d.elem[j].key => i = j
      BY <1>0, <1>8 DEF Header
    <3>3. d.hbits \in 1 .. HashBits /\ d.size \in Nat /\ d.size <= Pow2[d.hbits]
      BY <1>4, <1>8, <1>12
    <3>. QED
      BY <1>8, <3>1, <3>2, <3>3 DEF Refillable
  <2>3. PICK f : aux_rehash(d) = Rehashed(d, f) /\ Table(Rehashed(d, f), 1 .. d.size)
    BY <2>2, Rehash
  <2>4. /\ IsMap(o) /\ o.ext = d.ext /\ o.hbits = d.hbits /\ o.max = d.max /\ o.room = d.room
        /\ o.limit = Threshold(Pow2[d.hbits]) /\ o.elem = d.elem /\ o.size = d.size
    <3>1. IsMap(d) /\ o = Rehashed(d, f)
      BY <1>8, <2>1, <2>3
    <3>. QED
      BY <3>1, RehashedIs
  <2>5. Header(o)
    <3>1. /\ o.ext = FALSE /\ o.hbits \in 1 .. HashBits
          /\ o.limit = Threshold(Pow2[o.hbits])
          /\ o.room = Pow2[o.hbits] /\ o.room = p.room /\ o.max = p.max
          /\ o.size = m.size /\ o.elem = m.elem /\ o.size <= Pow2[o.hbits]
      BY <1>4, <1>8, <2>4
    <3>2. o.room \in 0 .. Pow2[HashBits] /\ o.max \in 0 .. Pow2[HashBits]
      BY <3>1 DEF MapOK, Header
    <3>3. /\ o.size \in 0 .. MaxElems
          /\ o.elem \in [0 .. o.size - 1 -> [key : Key, val : 0 .. ValMod - 1]]
          /\ \A i, j \in 0 .. o.size - 1 : o.elem[i].key = o.elem[j].key => i = j
      BY <1>0, <3>1 DEF Header
    <3>4. IsMap(o) /\ o.ext \in BOOLEAN /\ (~o.ext => o.room = Pow2[o.hbits])
      BY <2>4, <3>1
    <3>. QED
      BY <3>1, <3>2, <3>3, <3>4 DEF Header
  <2>6. Table(o, 1 .. o.size)
    BY <2>1, <2>3, <2>4
  <2>. QED
    BY <1>4, <1>8, <2>4, <2>5, <2>6 DEF MapOK
<1>. QED
  BY <1>10, <1>11

\* A duplicate has the same elements.
LEMMA DuplicateIs ==
  ASSUME NEW m, MapOK(m), ~m.ext, NEW no, no = FALSE,
         NEW o, o = CopiedInto(Allocated(no, m.size), m)
  PROVE  MapOK(o) /\ ~o.ext /\ o.size = m.size /\ o.elem = m.elem
<1>1. PICK n : n = m.size
  OBVIOUS
<1>2. PICK p : p = Allocated(no, n)
  OBVIOUS
<1>3. n \in 0 .. Pow2[HashBits]
  BY <1>1, Sizes DEF MapOK
<1>4. /\ MapOK(p) /\ p.ext = no /\ p.hbits = shm_s2hb(n)
      /\ p.mask = Pow2[p.hbits] - 1 /\ p.limit = Threshold(Pow2[p.hbits])
  <2>1. no \in BOOLEAN
    OBVIOUS
  <2>. QED
    BY <1>2, <1>3, <2>1, AllocatedIs
<1>5. m.size <= Pow2[p.hbits]
  BY <1>1, <1>3, <1>4, TableBits
<1>6. o = CopiedInto(p, m)
  BY <1>1, <1>2
<1>. QED
  BY <1>4, <1>5, <1>6, CopiedIntoIs

----------------------------------------------------------------------------
(* Contents.                                                               *)

\* The keys a map has, and what it binds them to.
KeysOf(m) == {m.elem[i].key : i \in 0 .. m.size - 1}
Dict(m) ==
  [k \in KeysOf(m) |-> m.elem[CHOOSE i \in 0 .. m.size - 1 : m.elem[i].key = k].val]

\* A partial function with one more binding, and without a key.
Bound(d, k, v) == [x \in DOMAIN d \cup {k} |-> IF x = k THEN v ELSE d[x]]
Without(d, k) == [x \in DOMAIN d \ {k} |-> d[x]]

\* A map binds the key of every element to its value.
LEMMA DictIs ==
  ASSUME NEW m, Header(m)
  PROVE  /\ Dict(m) = [k \in KeysOf(m) |-> Dict(m)[k]]
         /\ DOMAIN Dict(m) = KeysOf(m)
         /\ \A i \in 0 .. m.size - 1 : /\ m.elem[i].key \in KeysOf(m)
                                       /\ Dict(m)[m.elem[i].key] = m.elem[i].val
         /\ \A k \in KeysOf(m) : \E i \in 0 .. m.size - 1 : m.elem[i].key = k
<1>1. Dict(m) = [k \in KeysOf(m) |-> Dict(m)[k]] /\ DOMAIN Dict(m) = KeysOf(m)
  BY DEF Dict
<1>2. ASSUME NEW i \in 0 .. m.size - 1
      PROVE  m.elem[i].key \in KeysOf(m) /\ Dict(m)[m.elem[i].key] = m.elem[i].val
  <2>1. PICK k : k = m.elem[i].key
    OBVIOUS
  <2>2. k \in KeysOf(m)
    BY <2>1 DEF KeysOf
  <2>3. PICK j : j = CHOOSE x \in 0 .. m.size - 1 : m.elem[x].key = k
    OBVIOUS
  <2>4. j \in 0 .. m.size - 1 /\ m.elem[j].key = k
    BY <2>1, <2>3
  <2>5. j = i
    BY <2>1, <2>4 DEF Header
  <2>6. Dict(m)[k] = m.elem[j].val
    BY <2>2, <2>3 DEF Dict
  <2>. QED
    BY <2>1, <2>2, <2>5, <2>6
<1>3. \A k \in KeysOf(m) : \E i \in 0 .. m.size - 1 : m.elem[i].key = k
  BY DEF KeysOf
<1>. QED
  BY <1>1, <1>2, <1>3

\* The contents are what the elements say.
LEMMA DictUnique ==
  ASSUME NEW m, Header(m), NEW d, d = [k \in KeysOf(m) |-> d[k]],
         \A i \in 0 .. m.size - 1 : d[m.elem[i].key] = m.elem[i].val
  PROVE  Dict(m) = d
<1>1. \A k \in KeysOf(m) : Dict(m)[k] = d[k]
  BY DictIs
<1>2. Dict(m) = [k \in KeysOf(m) |-> Dict(m)[k]]
  BY DictIs
<1>. QED
  BY <1>1, <1>2

\* Maps with the same elements have the same contents.
LEMMA DictSame ==
  ASSUME NEW m, NEW o, o.size = m.size, o.elem = m.elem
  PROVE  Dict(o) = Dict(m) /\ KeysOf(o) = KeysOf(m)
BY DEF Dict, KeysOf

\* An element at the end, with a new key, is one more binding.
LEMMA DictAppended ==
  ASSUME NEW m, Header(m), NEW k, k \notin KeysOf(m), NEW v, NEW o, Header(o),
         o.size = m.size + 1,
         \A i \in 0 .. m.size :
           o.elem[i] = IF i = m.size THEN [key |-> k, val |-> v] ELSE m.elem[i]
  PROVE  Dict(o) = Bound(Dict(m), k, v)
<1>1. m.size \in Nat
  BY Sizes
<1>2. 0 .. o.size - 1 = 0 .. m.size
  BY <1>1
<1>3. \A i \in 0 .. m.size - 1 : i \in 0 .. m.size /\ o.elem[i] = m.elem[i]
  BY <1>1
<1>4. m.size \in 0 .. m.size /\ o.elem[m.size].key = k /\ o.elem[m.size].val = v
  <2>1. m.size \in 0 .. m.size
    BY <1>1
  <2>2. o.elem[m.size] = [key |-> k, val |-> v]
    BY <2>1
  <2>. QED
    BY <2>1, <2>2
<1>5. \A i \in 0 .. m.size : i = m.size \/ i \in 0 .. m.size - 1
  BY <1>1
<1>6. KeysOf(o) = KeysOf(m) \cup {k}
  <2>1. ASSUME NEW x \in KeysOf(o) PROVE x \in KeysOf(m) \cup {k}
    <3>1. PICK i \in 0 .. m.size : o.elem[i].key = x
      BY <1>2, <2>1 DEF KeysOf
    <3>. QED
      BY <1>3, <1>4, <1>5, <3>1 DEF KeysOf
  <2>2. ASSUME NEW x \in KeysOf(m) PROVE x \in KeysOf(o)
    <3>1. PICK i \in 0 .. m.size - 1 : m.elem[i].key = x
      BY <2>2 DEF KeysOf
    <3>. QED
      BY <1>2, <1>3, <3>1 DEF KeysOf
  <2>3. k \in KeysOf(o)
    BY <1>2, <1>4 DEF KeysOf
  <2>. QED
    BY <2>1, <2>2, <2>3
<1>7. PICK d : d = Bound(Dict(m), k, v)
  OBVIOUS
<1>8. /\ d = [x \in KeysOf(o) |-> d[x]]
      /\ \A x \in KeysOf(o) : d[x] = IF x = k THEN v ELSE Dict(m)[x]
  BY <1>6, <1>7, DictIs DEF Bound
<1>9. ASSUME NEW i \in 0 .. o.size - 1 PROVE d[o.elem[i].key] = o.elem[i].val
  <2>1. CASE i = m.size
    BY <1>4, <1>6, <1>8, <2>1
  <2>2. CASE i # m.size
    <3>1. i \in 0 .. m.size - 1
      BY <1>2, <1>5, <2>2
    <3>2. /\ m.elem[i].key \in KeysOf(m) /\ m.elem[i].key # k
          /\ Dict(m)[m.elem[i].key] = m.elem[i].val
      BY <3>1, DictIs
    <3>. QED
      BY <1>3, <1>6, <1>8, <3>1, <3>2
  <2>. QED
    BY <2>1, <2>2
<1>10. Dict(o) = d
  BY <1>8, <1>9, DictUnique
<1>. QED
  BY <1>7, <1>10

\* A value written over an element is written over its binding.
LEMMA DictWritten ==
  ASSUME NEW m, Header(m), NEW a \in 1 .. m.size, NEW k, k = KeyAt(m, a), NEW v,
         NEW o, Header(o), o.size = m.size,
         \A i \in 0 .. m.size - 1 :
           /\ o.elem[i].key = m.elem[i].key
           /\ o.elem[i].val = IF i = a - 1 THEN v ELSE m.elem[i].val
  PROVE  Dict(o) = Bound(Dict(m), k, v) /\ k \in KeysOf(m)
<1>1. m.size \in Nat
  BY Sizes
<1>2. a - 1 \in 0 .. m.size - 1 /\ m.elem[a - 1].key = k
  BY <1>1 DEF KeyAt
<1>3. k \in KeysOf(m)
  BY <1>2 DEF KeysOf
<1>4. KeysOf(o) = KeysOf(m) /\ KeysOf(m) \cup {k} = KeysOf(m)
  <2>1. \A x : x \in KeysOf(o) <=> x \in KeysOf(m)
    BY DEF KeysOf
  <2>. QED
    BY <1>3, <2>1
<1>5. PICK d : d = Bound(Dict(m), k, v)
  OBVIOUS
<1>6. /\ d = [x \in KeysOf(o) |-> d[x]]
      /\ \A x \in KeysOf(o) : d[x] = IF x = k THEN v ELSE Dict(m)[x]
  BY <1>4, <1>5, DictIs DEF Bound
<1>7. ASSUME NEW i \in 0 .. o.size - 1 PROVE d[o.elem[i].key] = o.elem[i].val
  <2>1. CASE i = a - 1
    BY <1>2, <1>3, <1>4, <1>6, <2>1
  <2>2. CASE i # a - 1
    <3>1. m.elem[i].key # k
      BY <1>2, <2>2 DEF Header
    <3>2. m.elem[i].key \in KeysOf(m) /\ Dict(m)[m.elem[i].key] = m.elem[i].val
      BY DictIs
    <3>. QED
      BY <1>4, <1>6, <2>2, <3>1, <3>2
  <2>. QED
    BY <2>1, <2>2
<1>8. Dict(o) = d
  BY <1>6, <1>7, DictUnique
<1>. QED
  BY <1>3, <1>5, <1>8

\* The last element moved over a deleted one is a binding less.
LEMMA DictDeleted ==
  ASSUME NEW m, Header(m), NEW a \in 1 .. m.size, NEW k, k = KeyAt(m, a),
         NEW o, Header(o), o.size = m.size - 1,
         \A i \in 0 .. o.size - 1 :
           o.elem[i] = IF i = a - 1 THEN m.elem[m.size - 1] ELSE m.elem[i]
  PROVE  Dict(o) = Without(Dict(m), k) /\ k \in KeysOf(m)
<1>1. m.size \in Nat \ {0}
  BY Sizes
<1>2. a - 1 \in 0 .. m.size - 1 /\ m.elem[a - 1].key = k /\ m.size - 1 \in 0 .. m.size - 1
  BY <1>1 DEF KeyAt
<1>3. k \in KeysOf(m)
  BY <1>2 DEF KeysOf
<1>4. 0 .. o.size - 1 = 0 .. m.size - 2
      /\ \A i \in 0 .. m.size - 2 : i \in 0 .. m.size - 1 /\ i # m.size - 1
  BY <1>1
<1>5. \A i \in 0 .. m.size - 1 :
        i = m.size - 1 \/ i \in 0 .. m.size - 2
  BY <1>1
<1>6. KeysOf(o) = KeysOf(m) \ {k}
  <2>1. ASSUME NEW x \in KeysOf(o) PROVE x \in KeysOf(m) \ {k}
    <3>1. PICK i \in 0 .. m.size - 2 : o.elem[i].key = x
      BY <1>4, <2>1 DEF KeysOf
    <3>2. CASE i = a - 1
      <4>1. m.elem[m.size - 1].key = x /\ m.size - 1 # a - 1
        BY <1>4, <3>1, <3>2
      <4>2. x # k
        BY <1>2, <4>1 DEF Header
      <4>. QED
        BY <1>2, <4>1, <4>2 DEF KeysOf
    <3>3. CASE i # a - 1
      <4>1. m.elem[i].key = x /\ i \in 0 .. m.size - 1
        BY <1>4, <3>1, <3>3
      <4>2. x # k
        BY <1>2, <3>3, <4>1 DEF Header
      <4>. QED
        BY <4>1, <4>2 DEF KeysOf
    <3>. QED
      BY <3>2, <3>3
  <2>2. ASSUME NEW x \in KeysOf(m) \ {k} PROVE x \in KeysOf(o)
    <3>1. PICK i \in 0 .. m.size - 1 : m.elem[i].key = x
      BY <2>2 DEF KeysOf
    <3>2. i # a - 1
      BY <1>2, <2>2, <3>1
    <3>3. CASE i = m.size - 1
      <4>1. a - 1 \in 0 .. m.size - 2
        BY <1>2, <1>5, <3>2, <3>3
      <4>2. o.elem[a - 1].key = x
        BY <1>4, <3>1, <3>3, <4>1
      <4>. QED
        BY <1>4, <4>1, <4>2 DEF KeysOf
    <3>4. CASE i # m.size - 1
      <4>1. i \in 0 .. m.size - 2
        BY <1>5, <3>4
      <4>2. o.elem[i].key = x
        BY <1>4, <3>1, <3>2, <4>1
      <4>. QED
        BY <1>4, <4>1, <4>2 DEF KeysOf
    <3>. QED
      BY <3>3, <3>4
  <2>. QED
    BY <2>1, <2>2
<1>7. PICK d : d = Without(Dict(m), k)
  OBVIOUS
<1>8. /\ d = [x \in KeysOf(o) |-> d[x]]
      /\ \A x \in KeysOf(o) : d[x] = Dict(m)[x]
  BY <1>6, <1>7, DictIs DEF Without
<1>9. ASSUME NEW i \in 0 .. o.size - 1 PROVE d[o.elem[i].key] = o.elem[i].val
  <2>1. o.elem[i].key \in KeysOf(o)
    BY DEF KeysOf
  <2>2. \E j \in 0 .. m.size - 1 : o.elem[i] = m.elem[j]
    BY <1>2, <1>4
  <2>3. Dict(m)[o.elem[i].key] = o.elem[i].val
    BY <2>2, DictIs
  <2>. QED
    BY <1>8, <2>1, <2>3
<1>10. Dict(o) = d
  BY <1>8, <1>9, DictUnique
<1>. QED
  BY <1>3, <1>7, <1>10

\* There are as many keys as elements.
LEMMA KeysCount ==
  ASSUME NEW m, Header(m)
  PROVE  Cardinality(KeysOf(m)) = m.size
<1>1. PICK n : n = m.size
  OBVIOUS
<1>2. n \in Nat
  BY <1>1, Sizes
<1>3. PICK f : f = [i \in 0 .. n - 1 |-> m.elem[i].key]
  OBVIOUS
<1>4. f \in Bijection(0 .. n - 1, KeysOf(m))
  <2>1. f \in [0 .. n - 1 -> KeysOf(m)]
    BY <1>1, <1>3 DEF KeysOf
  <2>2. \A i, j \in 0 .. n - 1 : f[i] = f[j] => i = j
    BY <1>1, <1>3 DEF Header
  <2>3. \A k \in KeysOf(m) : \E i \in 0 .. n - 1 : f[i] = k
    BY <1>1, <1>3 DEF KeysOf
  <2>. QED
    BY <2>1, <2>2, <2>3 DEF Bijection, Injection, Surjection, IsInjective
<1>5. IsFiniteSet(0 .. n - 1) /\ Cardinality(0 .. n - 1) = IF 0 > n - 1 THEN 0 ELSE (n - 1) - 0 + 1
  BY <1>2, FS_Interval
<1>6. PICK S, T : S = 0 .. n - 1 /\ T = KeysOf(m)
  OBVIOUS
<1>7. IsFiniteSet(S) /\ f \in Bijection(S, T)
  BY <1>4, <1>5, <1>6
<1>8. Cardinality(T) = Cardinality(S)
  <2>1. ExistsBijection(S, T)
    BY <1>7 DEF ExistsBijection
  <2>. QED
    BY <1>7, <2>1, FS_Bijection
<1>. QED
  BY <1>1, <1>2, <1>5, <1>6, <1>8

----------------------------------------------------------------------------
(* Calls, map by map.                                                      *)

\* What a call leaves alone.
Keeps(o, m) ==
  /\ o.ext = m.ext
  /\ m.ext => o.max = m.max /\ o.hbits = m.hbits /\ o.room = m.room

\* A look-up finds the key's element, or says there is none.
LEMMA LookUp ==
  ASSUME NEW m, MapOK(m), NEW k \in Key, NEW l, l = Probe(m, k)
  PROVE  \/ l = None /\ k \notin KeysOf(m) /\ \A a \in 1 .. m.size : KeyAt(m, a) # k
         \/ /\ l \in UsedSet(m) /\ l \in Nat /\ k \in KeysOf(m)
            /\ m.bucket[l].loc \in 1 .. m.size /\ KeyAt(m, m.bucket[l].loc) = k
            /\ ElemOf(m, l).val = Dict(m)[k] /\ ElemOf(m, l).val \in 0 .. ValMod - 1
<1>0. Header(m) /\ Table(m, 1 .. m.size)
  BY DEF MapOK
<1>1. CASE \A a \in 1 .. m.size : KeyAt(m, a) # k
  <2>1. PICK L : L = 1 .. m.size
    OBVIOUS
  <2>2. Table(m, L) /\ \A a \in L : KeyAt(m, a) # k
    BY <1>0, <1>1, <2>1
  <2>3. l = None
    BY <2>2, ProbeMisses
  <2>4. k \notin KeysOf(m)
    BY <1>0, <1>1, Keys DEF KeysOf
  <2>. QED
    BY <1>1, <2>3, <2>4
<1>2. ASSUME NEW a \in 1 .. m.size, KeyAt(m, a) = k
      PROVE  /\ l \in UsedSet(m) /\ l \in Nat /\ k \in KeysOf(m)
             /\ m.bucket[l].loc = a
             /\ ElemOf(m, l).val = Dict(m)[k] /\ ElemOf(m, l).val \in 0 .. ValMod - 1
  <2>1. PICK L : L = 1 .. m.size
    OBVIOUS
  <2>2. Table(m, L) /\ a \in L
    BY <1>0, <2>1
  <2>3. l \in UsedSet(m) /\ m.bucket[l].loc = a
    BY <1>2, <2>2, ProbeFinds
  <2>4. l \in Nat
    BY <2>3 DEF UsedSet, Buckets
  <2>5. PICK i : i = a - 1
    OBVIOUS
  <2>6. i \in 0 .. m.size - 1 /\ m.elem[i].key = k
    BY <1>0, <1>2, <2>5, Keys DEF KeyAt
  <2>7. ElemOf(m, l) = m.elem[i]
    BY <2>3, <2>5 DEF ElemOf
  <2>8. k \in KeysOf(m) /\ Dict(m)[k] = m.elem[i].val
    BY <1>0, <2>6, DictIs
  <2>9. m.elem[i].val \in 0 .. ValMod - 1
    BY <1>0, <2>6, Keys
  <2>. QED
    BY <2>3, <2>4, <2>7, <2>8, <2>9
<1>. QED
  BY <1>1, <1>2

\* A key that is not there, after the check.
LEMMA AppendedIs ==
  ASSUME NEW m, MapOK(m), ~Refused(m), NEW c, c = aux_insert_check(m),
         NEW k \in Key, k \notin KeysOf(m), NEW v \in 0 .. ValMod - 1,
         NEW o, o = Appended(c, k, v)
  PROVE  MapOK(o) /\ Keeps(o, m) /\ Dict(o) = Bound(Dict(m), k, v)
<1>1. /\ MapOK(c)
      /\ c.size < Pow2[c.hbits] /\ c.size < MaxElems
      /\ c.ext = m.ext /\ c.max = m.max /\ c.elem = m.elem /\ c.size = m.size
      /\ m.ext => c.hbits = m.hbits /\ c.room = m.room
  BY Checked
<1>2. Header(c) /\ Dict(c) = Dict(m) /\ KeysOf(c) = KeysOf(m)
  BY <1>1, DictSame DEF MapOK
<1>3. \A a \in 1 .. c.size : KeyAt(c, a) # k
  BY <1>2, Keys DEF KeysOf, KeyAt
<1>4. /\ MapOK(o) /\ SameHeader(o, c)
      /\ o.size = c.size + 1
      /\ o.elem = [i \in 0 .. c.size |->
                     IF i = c.size THEN [key |-> k, val |-> v] ELSE c.elem[i]]
  BY <1>1, <1>3, AppendIs
<1>5. \A i \in 0 .. c.size :
        o.elem[i] = IF i = c.size THEN [key |-> k, val |-> v] ELSE c.elem[i]
  BY <1>4
<1>6. Header(o) /\ k \notin KeysOf(c) /\ o.size = c.size + 1
  BY <1>2, <1>4 DEF MapOK
<1>7. Dict(o) = Bound(Dict(c), k, v)
  BY <1>2, <1>5, <1>6, DictAppended
<1>8. Keeps(o, m)
  BY <1>1, <1>4 DEF Keeps, SameHeader
<1>. QED
  BY <1>2, <1>4, <1>7, <1>8

\* A key that is there.
LEMMA WrittenIs ==
  ASSUME NEW m, MapOK(m), ~Refused(m), NEW c, c = aux_insert_check(m),
         NEW k \in Key, k \in KeysOf(m), NEW v \in 0 .. ValMod - 1,
         NEW o, o = Written(c, Probe(c, k), v)
  PROVE  MapOK(o) /\ Keeps(o, m) /\ Dict(o) = Bound(Dict(m), k, v)
<1>1. /\ MapOK(c)
      /\ c.ext = m.ext /\ c.max = m.max /\ c.elem = m.elem /\ c.size = m.size
      /\ m.ext => c.hbits = m.hbits /\ c.room = m.room
  BY Checked
<1>2. Header(c) /\ Dict(c) = Dict(m) /\ KeysOf(c) = KeysOf(m)
  BY <1>1, DictSame DEF MapOK
<1>3. PICK l : l = Probe(c, k)
  OBVIOUS
<1>4. PICK a : a = c.bucket[l].loc
  OBVIOUS
<1>5. l \in UsedSet(c) /\ a \in 1 .. c.size /\ KeyAt(c, a) = k
  BY <1>1, <1>2, <1>3, <1>4, LookUp
<1>6. o = Written(c, l, v)
  BY <1>3
<1>7. /\ MapOK(o) /\ SameHeader(o, c) /\ o.size = c.size
      /\ \A i \in 0 .. c.size - 1 :
           /\ o.elem[i].key = c.elem[i].key
           /\ o.elem[i].val = IF i = a - 1 THEN v ELSE c.elem[i].val
  BY <1>1, <1>4, <1>5, <1>6, WriteIs
<1>8. Header(o)
  BY <1>7 DEF MapOK
<1>9. Dict(o) = Bound(Dict(c), k, v)
  BY <1>2, <1>5, <1>7, <1>8, DictWritten
<1>10. Keeps(o, m)
  BY <1>1, <1>7 DEF Keeps, SameHeader
<1>. QED
  BY <1>2, <1>7, <1>9, <1>10

\* After one check the next one finds nothing to refuse.
LEMMA CheckedTwice ==
  ASSUME NEW m, MapOK(m), ~Refused(m), NEW c, c = aux_insert_check(m)
  PROVE  /\ MapOK(c) /\ ~Refused(c)
         /\ c.ext = m.ext /\ c.max = m.max /\ (m.ext => c.hbits = m.hbits /\ c.room = m.room)
         /\ Dict(c) = Dict(m) /\ KeysOf(c) = KeysOf(m)
<1>1. /\ MapOK(c)
      /\ c.size < Pow2[c.hbits] /\ c.size < MaxElems
      /\ c.ext = m.ext /\ c.max = m.max /\ c.elem = m.elem /\ c.size = m.size
      /\ m.ext => c.hbits = m.hbits /\ c.room = m.room
  BY Checked
<1>2. Dict(c) = Dict(m) /\ KeysOf(c) = KeysOf(m)
  BY <1>1, DictSame
<1>3. MaxElems \in Nat /\ c.size \in Nat
  BY <1>1, MaxElemsIs, Sizes DEF MapOK
<1>4. ~Refused(c)
  <2>1. CASE m.size < m.limit
    <3>1. c = m
      BY <2>1 DEF aux_insert_check
    <3>. QED
      BY <3>1
  <2>2. CASE ~(m.size < m.limit)
    <3>1. m.ext \in BOOLEAN /\ m.size \in Nat /\ m.limit \in Nat
      BY Sizes DEF MapOK, Header
    <3>2. m.ext => m.hbits = HashBits /\ ~(m.size >= m.max)
      BY <2>2, <3>1 DEF Refused
    <3>3. m.ext => c.hbits = HashBits /\ ~(c.size >= c.max)
      BY <1>1, <3>1, <3>2
    <3>4. c.size # MaxElems /\ c.ext = m.ext
      BY <1>1, <1>3
    <3>. QED
      BY <3>1, <3>3, <3>4 DEF Refused
  <2>. QED
    BY <2>1, <2>2
<1>. QED
  BY <1>1, <1>2, <1>4

\* A deletion.
LEMMA DeletedIs ==
  ASSUME NEW m, MapOK(m), NEW k \in Key, k \in KeysOf(m), NEW l, l = Probe(m, k),
         NEW o, o = Shortened(HoleFilled(Unregistered(m, k), m.bucket[l].loc))
  PROVE  MapOK(o) /\ Keeps(o, m) /\ Dict(o) = Without(Dict(m), k)
<1>1. PICK a : a = m.bucket[l].loc
  OBVIOUS
<1>2. a \in 1 .. m.size /\ KeyAt(m, a) = k
  BY <1>1, LookUp
<1>3. l = Probe(m, KeyAt(m, a))
      /\ o = Shortened(HoleFilled(Unregistered(m, KeyAt(m, a)), m.bucket[l].loc))
  BY <1>2
<1>4. /\ MapOK(o) /\ SameHeader(o, m) /\ o.size = m.size - 1
      /\ \A i \in 0 .. o.size - 1 :
           o.elem[i] = IF i = a - 1 THEN m.elem[m.size - 1] ELSE m.elem[i]
  BY <1>2, <1>3, DeleteIs
<1>5. Header(m) /\ Header(o)
  BY <1>4 DEF MapOK
<1>6. Dict(o) = Without(Dict(m), k)
  BY <1>2, <1>4, <1>5, DictDeleted
<1>. QED
  BY <1>4, <1>6 DEF Keeps, SameHeader

----------------------------------------------------------------------------
(* Calls.                                                                  *)

MapInv == MapOK(hm) /\ res \in 0 .. ValMod

\* The contents of hm, in the words of these lemmas.
LEMMA ContentsAre == Contents = Dict(hm) /\ Contents' = Dict(hm')
BY DEF Contents, Dict, KeysOf

\* Values are in the range that increments wrap around.
LEMMA ValMods == ValMod \in Nat \ {0} /\ \A v \in Val : v \in 0 .. ValMod - 1
BY HashMapAssumption

\* The elements a table takes before it has to be doubled.
Limit(m) == IF m.hbits = HashBits THEN MaxElems ELSE Threshold(Pow2[m.hbits])

\* The room of a map is fixed when it is made.
LEMMA RoomKept ==
  ASSUME MapInv, Keeps(hm', hm)
  PROVE  Room' = Room
<1>1. CASE hm.ext
  <2>1. hm'.ext /\ hm'.max = hm.max /\ hm'.hbits = hm.hbits
    BY <1>1 DEF Keeps
  <2>2. Room = Min({hm.max, Limit(hm)})
    BY <1>1 DEF Room, Limit
  <2>3. Room' = Min({hm'.max, Limit(hm')})
    BY <2>1 DEF Room, Limit
  <2>. QED
    BY <2>1, <2>2, <2>3 DEF Limit
<1>2. CASE ~hm.ext
  <2>1. ~hm'.ext
    BY <1>2 DEF Keeps
  <2>. QED
    BY <1>2, <2>1 DEF Room
<1>. QED
  BY <1>1, <1>2

\* shm_insert is an insertion, or a refusal, of the abstract map.
LEMMA InsertStep ==
  ASSUME MapInv, NEW k \in Key, NEW v \in Val, shm_insert(k, v)
  PROVE  MapInv' /\ Keeps(hm', hm) /\ Abstract!Insert(k, v)
<1>1. MapOK(hm) /\ ~Refused(hm) /\ v \in 0 .. ValMod - 1 /\ ValMod \in Nat \ {0}
  BY ValMods DEF MapInv, shm_insert
<1>2. PICK c, l : c = aux_insert_check(hm) /\ l = Probe(c, k)
  OBVIOUS
<1>3. /\ MapOK(c) /\ ~Refused(c) /\ Dict(c) = Dict(hm) /\ KeysOf(c) = KeysOf(hm)
  BY <1>1, <1>2, CheckedTwice
<1>4. /\ hm' = CASE l = None  -> Appended(c, k, v)
                 [] l = Fault -> c
                 [] OTHER     -> Written(c, l, v)
      /\ Answer("insert", k, v, IF l = Fault THEN Fault ELSE 1)
  BY <1>2 DEF shm_insert
<1>5. PICK o : o = hm'
  OBVIOUS
<1>6. MapOK(o) /\ Keeps(o, hm) /\ Dict(o) = Bound(Dict(hm), k, v) /\ l # Fault
  <2>1. CASE k \in KeysOf(hm)
    <3>1. l \in Nat
      BY <1>2, <1>3, <2>1, LookUp
    <3>2. o = Written(c, Probe(c, k), v)
      BY <1>2, <1>4, <1>5, <3>1 DEF None, Fault
    <3>3. MapOK(o) /\ Keeps(o, hm) /\ Dict(o) = Bound(Dict(hm), k, v)
      BY <1>1, <1>2, <2>1, <3>2, WrittenIs
    <3>. QED
      BY <3>1, <3>3 DEF Fault
  <2>2. CASE k \notin KeysOf(hm)
    <3>1. l = None
      BY <1>2, <1>3, <2>2, LookUp
    <3>2. o = Appended(c, k, v)
      BY <1>4, <1>5, <3>1 DEF Fault, None
    <3>3. MapOK(o) /\ Keeps(o, hm) /\ Dict(o) = Bound(Dict(hm), k, v)
      BY <1>1, <1>2, <2>2, <3>2, AppendedIs
    <3>. QED
      BY <3>1, <3>3 DEF Fault, None
  <2>. QED
    BY <2>1, <2>2
<1>7. call' = [op |-> "insert", key |-> k, val |-> v] /\ res' = 1
  BY <1>4, <1>6 DEF Answer
<1>8. MapInv'
  BY <1>1, <1>5, <1>6, <1>7 DEF MapInv
<1>9. Contents' = Bound(Contents, k, v)
  BY <1>5, <1>6, ContentsAre
<1>10. Abstract!Bind(k, v)
  BY <1>9 DEF Bound, Abstract!Bind
<1>. QED
  BY <1>5, <1>6, <1>7, <1>8, <1>10 DEF Abstract!Insert, Abstract!Answer

\* The increment adds to a binding, or makes one.
LEMMA IncStep ==
  ASSUME MapInv, NEW k \in Key, NEW v \in Val, shm_inc(k, v)
  PROVE  MapInv' /\ Keeps(hm', hm) /\ Abstract!Inc(k, v)
<1>1. MapOK(hm) /\ ~Refused(hm) /\ v \in 0 .. ValMod - 1 /\ ValMod \in Nat \ {0}
  BY ValMods DEF MapInv, shm_inc
<1>2. PICK c, l : c = aux_insert_check(hm) /\ l = Probe(c, k)
  OBVIOUS
<1>3. /\ MapOK(c) /\ ~Refused(c) /\ Dict(c) = Dict(hm) /\ KeysOf(c) = KeysOf(hm)
      /\ c.ext = hm.ext /\ c.max = hm.max /\ (hm.ext => c.hbits = hm.hbits /\ c.room = hm.room)
  BY <1>1, <1>2, CheckedTwice
<1>4. /\ hm' = CASE l = None  -> Appended(aux_insert_check(c), k, v)
                 [] l = Fault -> c
                 [] OTHER     -> Written(c, l, (ElemOf(c, l).val + v) % ValMod)
      /\ Answer("inc", k, v, IF l = Fault THEN Fault ELSE 1)
  BY <1>2 DEF shm_inc
<1>5. PICK o : o = hm'
  OBVIOUS
<1>0. PICK w : w = IF k \in KeysOf(hm) THEN (Dict(hm)[k] + v) % ValMod ELSE v
  OBVIOUS
<1>6. MapOK(o) /\ Keeps(o, hm) /\ Dict(o) = Bound(Dict(hm), k, w) /\ l # Fault
  <2>1. CASE k \in KeysOf(hm)
    <3>1. /\ l \in Nat /\ ElemOf(c, l).val = Dict(hm)[k]
          /\ ElemOf(c, l).val \in 0 .. ValMod - 1
      BY <1>2, <1>3, <2>1, LookUp
    <3>2. (ElemOf(c, l).val + v) % ValMod \in 0 .. ValMod - 1
      BY <1>1, <3>1
    <3>3. w = (ElemOf(c, l).val + v) % ValMod /\ w \in 0 .. ValMod - 1
      BY <1>0, <2>1, <3>1, <3>2
    <3>4. o = Written(c, Probe(c, k), w)
      BY <1>2, <1>4, <1>5, <3>1, <3>3 DEF None, Fault
    <3>5. MapOK(o) /\ Keeps(o, hm) /\ Dict(o) = Bound(Dict(hm), k, w)
      BY <1>1, <1>2, <2>1, <3>3, <3>4, WrittenIs
    <3>. QED
      BY <3>1, <3>5 DEF Fault
  <2>2. CASE k \notin KeysOf(hm)
    <3>1. l = None
      BY <1>2, <1>3, <2>2, LookUp
    <3>2. PICK c2 : c2 = aux_insert_check(c)
      OBVIOUS
    <3>3. o = Appended(c2, k, v) /\ w = v
      BY <1>4, <1>5, <1>0, <2>2, <3>1, <3>2 DEF Fault, None
    <3>4. MapOK(o) /\ Keeps(o, c) /\ Dict(o) = Bound(Dict(c), k, v)
      BY <1>1, <1>3, <2>2, <3>2, <3>3, AppendedIs
    <3>5. Keeps(o, hm)
      BY <1>3, <3>4 DEF Keeps
    <3>. QED
      BY <1>3, <3>1, <3>3, <3>4, <3>5 DEF Fault, None
  <2>. QED
    BY <2>1, <2>2
<1>7. call' = [op |-> "inc", key |-> k, val |-> v] /\ res' = 1
  BY <1>4, <1>6 DEF Answer
<1>8. MapInv'
  BY <1>1, <1>5, <1>6, <1>7 DEF MapInv
<1>9. Contents' = Bound(Contents, k, w)
  BY <1>5, <1>6, ContentsAre
<1>10. w = IF k \in DOMAIN Contents THEN (Contents[k] + v) % ValMod ELSE v
  BY <1>1, <1>0, ContentsAre, DictIs DEF MapOK
<1>11. Abstract!Bind(k, IF k \in DOMAIN Contents THEN (Contents[k] + v) % ValMod ELSE v)
  BY <1>9, <1>10 DEF Bound, Abstract!Bind
<1>. QED
  BY <1>5, <1>6, <1>7, <1>8, <1>11 DEF Abstract!Inc, Abstract!Answer

\* The abstract map counts as this one does.
LEMMA SameCardinality == \A S : Abstract!Cardinality(S) = Cardinality(S)
BY DEF Cardinality, Abstract!Cardinality

\* A refusal changes nothing, and the abstract map has no room either.
LEMMA RefuseStep ==
  ASSUME MapInv, NEW k \in Key, NEW v \in Val, NEW op \in {"insert", "inc"}, Refuse(op, k, v)
  PROVE  MapInv' /\ Keeps(hm', hm) /\ Abstract!Refuse(op, k, v)
<1>1. (Refused(hm) \/ ~hm.ext) /\ hm' = hm /\ Answer(op, k, v, 0)
  BY DEF Refuse, MemoryWanted
<1>2. Header(hm) /\ ValMod \in Nat \ {0}
  BY ValMods DEF MapInv, MapOK
<1>3. Cardinality(DOMAIN Contents) = hm.size /\ hm.size \in Nat
  BY <1>2, ContentsAre, DictIs, KeysCount, Sizes
<1>4. hm.size >= Room
  <2>1. CASE ~hm.ext
    BY <1>3, <2>1 DEF Room
  <2>2. CASE hm.ext
    <3>1. PICK t : t = Limit(hm)
      OBVIOUS
    <3>2. t \in Nat /\ hm.max \in Nat /\ (hm.hbits # HashBits => hm.limit = t)
      <4>1. hm.limit \in Nat /\ Pow2[HashBits] \in Nat /\ MaxElems \in Nat
        BY <1>2, Sizes, MaxElemsIs
      <4>2. hm.max \in 0 .. Pow2[HashBits] /\ (hm.hbits # HashBits => hm.limit = t)
        BY <1>2, <3>1 DEF Header, Limit
      <4>3. hm.hbits = HashBits => t = MaxElems
        BY <3>1 DEF Limit
      <4>. QED
        BY <4>1, <4>2, <4>3
    <3>3. PICK T : T = {hm.max, t}
      OBVIOUS
    <3>4. T \subseteq Nat /\ T # {}
      BY <3>2, <3>3
    <3>5. Min(T) \in T /\ \A y \in T : Min(T) <= y
      BY <3>4, MinNat
    <3>6. Room = Min(T) /\ Min(T) <= hm.max /\ Min(T) <= t /\ Min(T) \in Nat
      BY <2>2, <3>1, <3>3, <3>4, <3>5 DEF Room, Limit
    <3>7. hm.size >= hm.max \/ hm.size >= t
      BY <1>1, <1>3, <2>2, <3>1, <3>2 DEF Refused, Limit
    <3>. QED
      BY <1>3, <3>2, <3>6, <3>7
  <2>. QED
    BY <2>1, <2>2
<1>5. call' = [op |-> op, key |-> k, val |-> v] /\ res' = 0
  BY <1>1 DEF Answer
<1>6. MapInv'
  BY <1>1, <1>2, <1>5 DEF MapInv
<1>7. Keeps(hm', hm) /\ Contents' = Contents
  BY <1>1, ContentsAre DEF Keeps
<1>8. Abstract!Answer(op, k, v, 0)
  BY <1>5 DEF Abstract!Answer
<1>9. Abstract!Cardinality(DOMAIN Contents) >= Room
  BY <1>3, <1>4, SameCardinality
<1>. QED
  BY <1>6, <1>7, <1>8, <1>9 DEF Abstract!Refuse

\* A deletion takes the binding away, and says whether there was one.
LEMMA DeleteStep ==
  ASSUME MapInv, NEW k \in Key, shm_delete(k)
  PROVE  MapInv' /\ Keeps(hm', hm) /\ Abstract!Delete(k)
<1>1. MapOK(hm) /\ ValMod \in Nat \ {0}
  BY ValMods DEF MapInv
<1>2. PICK l : l = Probe(hm, k)
  OBVIOUS
<1>3. PICK o : o = hm'
  OBVIOUS
<1>4. /\ hm' = IF l < 0 THEN hm
               ELSE Shortened(HoleFilled(Unregistered(hm, k), hm.bucket[l].loc))
      /\ Answer("delete", k, 0, IF l = Fault THEN Fault ELSE IF l = None THEN 0 ELSE 1)
  BY <1>2 DEF shm_delete
<1>5. DOMAIN Contents = KeysOf(hm) /\ Contents = Dict(hm) /\ Contents' = Dict(hm')
      /\ Dict(hm) = [x \in KeysOf(hm) |-> Dict(hm)[x]]
  BY <1>1, ContentsAre, DictIs DEF MapOK
<1>6. /\ MapOK(o) /\ Keeps(o, hm)
      /\ Dict(o) = Without(Dict(hm), k)
      /\ res' = IF k \in KeysOf(hm) THEN 1 ELSE 0
  <2>1. CASE k \in KeysOf(hm)
    <3>1. l \in Nat
      BY <1>1, <1>2, <2>1, LookUp
    <3>2. o = Shortened(HoleFilled(Unregistered(hm, k), hm.bucket[l].loc))
      BY <1>3, <1>4, <3>1
    <3>3. MapOK(o) /\ Keeps(o, hm) /\ Dict(o) = Without(Dict(hm), k)
      BY <1>1, <1>2, <2>1, <3>2, DeletedIs
    <3>. QED
      BY <1>4, <2>1, <3>1, <3>3 DEF Answer, Fault, None
  <2>2. CASE k \notin KeysOf(hm)
    <3>1. l = None
      BY <1>1, <1>2, <2>2, LookUp
    <3>2. o = hm /\ res' = 0
      BY <1>3, <1>4, <3>1 DEF None, Fault, Answer
    <3>3. Dict(hm) = Without(Dict(hm), k)
      <4>1. KeysOf(hm) \ {k} = KeysOf(hm) /\ DOMAIN Dict(hm) = KeysOf(hm)
        BY <1>5, <2>2
      <4>. QED
        BY <1>5, <4>1 DEF Without
    <3>. QED
      BY <1>1, <2>2, <3>2, <3>3 DEF Keeps
  <2>. QED
    BY <2>1, <2>2
<1>7. call' = [op |-> "delete", key |-> k, val |-> 0]
  BY <1>4 DEF Answer
<1>8. MapInv'
  BY <1>1, <1>3, <1>6 DEF MapInv
<1>9. Contents' = Abstract!Restrict(Contents, DOMAIN Contents \ {k})
  BY <1>3, <1>5, <1>6 DEF Without, Abstract!Restrict
<1>. QED
  BY <1>3, <1>5, <1>6, <1>7, <1>8, <1>9 DEF Abstract!Delete, Abstract!Answer

\* A look-up answers what the abstract map holds.
LEMMA AtStep ==
  ASSUME MapInv, NEW k \in Key, shm_at(k)
  PROVE  MapInv' /\ Keeps(hm', hm) /\ Abstract!At(k)
<1>1. MapOK(hm) /\ ValMod \in Nat \ {0}
  BY ValMods DEF MapInv
<1>2. PICK l : l = Probe(hm, k)
  OBVIOUS
<1>3. /\ Answer("at", k, 0, IF l = Fault THEN Fault
                            ELSE IF l = None THEN 0 ELSE ElemOf(hm, l).val)
      /\ hm' = hm
  BY <1>2 DEF shm_at
<1>4. DOMAIN Contents = KeysOf(hm) /\ Contents = Dict(hm) /\ Contents' = Dict(hm')
  BY <1>1, ContentsAre, DictIs DEF MapOK
<1>5. res' = (IF k \in DOMAIN Contents THEN Contents[k] ELSE 0) /\ res' \in 0 .. ValMod
  <2>1. CASE k \in KeysOf(hm)
    <3>1. l \in Nat /\ ElemOf(hm, l).val = Dict(hm)[k] /\ ElemOf(hm, l).val \in 0 .. ValMod - 1
      BY <1>1, <1>2, <2>1, LookUp
    <3>2. res' = ElemOf(hm, l).val
      BY <1>3, <3>1 DEF Answer, Fault, None
    <3>3. res' \in 0 .. ValMod
      BY <1>1, <3>1, <3>2
    <3>. QED
      BY <1>4, <2>1, <3>1, <3>2, <3>3
  <2>2. CASE k \notin KeysOf(hm)
    <3>1. l = None
      BY <1>1, <1>2, <2>2, LookUp
    <3>2. res' = 0
      BY <1>3, <3>1 DEF Answer, Fault, None
    <3>. QED
      BY <1>1, <1>4, <2>2, <3>2
  <2>. QED
    BY <2>1, <2>2
<1>6. call' = [op |-> "at", key |-> k, val |-> 0] /\ Contents' = Contents
  BY <1>3, <1>4 DEF Answer
<1>7. MapInv' /\ Keeps(hm', hm)
  BY <1>1, <1>3, <1>5 DEF MapInv, Keeps
<1>. QED
  BY <1>5, <1>6, <1>7 DEF Abstract!At, Abstract!Answer

\* A copy keeps the contents, in a map of its own size.
LEMMA CopyStep ==
  ASSUME MapInv, GoOnWithCopy
  PROVE  MapInv' /\ Keeps(hm', hm) /\ Contents' = Contents
<1>1. MapOK(hm) /\ ~hm.ext /\ res' = res
  BY DEF MapInv, GoOnWithCopy
<1>2. PICK no : no = FALSE
  OBVIOUS
<1>3. hm' = CopiedInto(Allocated(no, hm.size), hm)
  BY <1>2 DEF GoOnWithCopy, Duplicate
<1>4. PICK m, o : m = hm /\ o = hm'
  OBVIOUS
<1>5. MapOK(m) /\ ~m.ext /\ o = CopiedInto(Allocated(no, m.size), m)
  BY <1>1, <1>3, <1>4
<1>6. MapOK(o) /\ ~o.ext /\ o.size = m.size /\ o.elem = m.elem
  BY <1>2, <1>5, DuplicateIs
<1>7. Contents' = Contents
  BY <1>4, <1>6, ContentsAre, DictSame
<1>8. o.ext = m.ext
  BY <1>5, <1>6 DEF MapOK, Header
<1>9. Keeps(hm', hm)
  BY <1>4, <1>5, <1>8 DEF Keeps
<1>10. MapInv'
  BY <1>1, <1>4, <1>6 DEF MapInv
<1>. QED
  BY <1>7, <1>9, <1>10

----------------------------------------------------------------------------
(* The inductive invariant.                                                *)

\* Every new map is as MapInv says, and empty.
LEMMA InitInv == Init => MapInv /\ Abstract!Init
<1>1. SUFFICES ASSUME Init PROVE MapInv /\ Abstract!Init
  OBVIOUS
<1>2. PICK s \in Start : hm = Allocated(s.ext, s.size)
  BY <1>1 DEF Init
<1>3. PICK e, n : e = s.ext /\ n = s.size
  OBVIOUS
<1>4. e \in BOOLEAN /\ n \in 0 .. Pow2[HashBits]
  BY <1>3, HashMapAssumption
<1>5. PICK m : m = hm
  OBVIOUS
<1>6. /\ MapOK(m) /\ m.size = 0 /\ m.limit = Threshold(Pow2[m.hbits])
  <2>1. m = Allocated(e, n)
    BY <1>2, <1>3, <1>5
  <2>. QED
    BY <1>4, <2>1, AllocatedIs
<1>7. call = NoCall /\ res = 0 /\ ValMod \in Nat \ {0}
  BY <1>1, ValMods DEF Init
<1>8. MapInv
  BY <1>5, <1>6, <1>7 DEF MapInv
<1>9. Contents = << >>
  <2>1. KeysOf(m) = {}
    BY <1>6 DEF KeysOf
  <2>2. Dict(m) = [k \in {} |-> 0]
    BY <2>1 DEF Dict
  <2>3. Contents = [k \in {} |-> 0]
    BY <1>5, <2>2, ContentsAre
  <2>4. [k \in {} |-> 0] = << >>
    OBVIOUS
  <2>. QED
    BY <2>3, <2>4
<1>10. Room \in Nat
  <2>1. CASE ~hm.ext
    BY <2>1 DEF Room
  <2>2. CASE hm.ext
    <3>1. PICK t, T : t = Limit(hm) /\ T = {hm.max, t}
      OBVIOUS
    <3>2. Header(hm)
      BY <1>5, <1>6 DEF MapOK
    <3>3. t \in Nat /\ Pow2[HashBits] \in Nat
      BY <1>5, <1>6, <3>1, <3>2, Sizes, MaxElemsIs DEF Limit
    <3>4. hm.max \in Nat
      BY <3>2, <3>3 DEF Header
    <3>5. T \subseteq Nat /\ T # {}
      BY <3>1, <3>3, <3>4
    <3>6. Min(T) \in Nat
      BY <3>5, MinNat
    <3>. QED
      BY <2>2, <3>1, <3>6 DEF Room, Limit
  <2>. QED
    BY <2>1, <2>2
<1>11. NoCall = Abstract!NoCall
  BY DEF NoCall, Abstract!NoCall
<1>. QED
  BY <1>7, <1>8, <1>9, <1>10, <1>11 DEF Abstract!Init

\* Every step keeps it, and does what KeyMap does, or nothing KeyMap sees.
LEMMA NextInv ==
  MapInv /\ [Next]_vars => MapInv' /\ Keeps(hm', hm) /\ [Abstract!Next]_(Abstract!vars)
<1>1. SUFFICES ASSUME MapInv, [Next]_vars
               PROVE  MapInv' /\ Keeps(hm', hm) /\ [Abstract!Next]_(Abstract!vars)
  OBVIOUS
<1>2. ASSUME NEW k \in Key, NEW v \in Val, shm_insert(k, v)
      PROVE  MapInv' /\ Keeps(hm', hm) /\ Abstract!Calls
  BY <1>1, <1>2, InsertStep DEF Abstract!Calls
<1>3. ASSUME NEW k \in Key, NEW v \in Val, shm_inc(k, v)
      PROVE  MapInv' /\ Keeps(hm', hm) /\ Abstract!Calls
  BY <1>1, <1>3, IncStep DEF Abstract!Calls
<1>4. ASSUME NEW k \in Key, NEW v \in Val, NEW op \in {"insert", "inc"}, Refuse(op, k, v)
      PROVE  MapInv' /\ Keeps(hm', hm) /\ Abstract!Calls
  BY <1>1, <1>4, RefuseStep DEF Abstract!Calls
<1>5. ASSUME NEW k \in Key, shm_delete(k)
      PROVE  MapInv' /\ Keeps(hm', hm) /\ Abstract!Calls
  BY <1>1, <1>5, DeleteStep DEF Abstract!Calls
<1>6. ASSUME NEW k \in Key, shm_at(k)
      PROVE  MapInv' /\ Keeps(hm', hm) /\ Abstract!Calls
  BY <1>1, <1>6, AtStep DEF Abstract!Calls
<1>7. CASE Calls
  <2>1. MapInv' /\ Keeps(hm', hm) /\ Abstract!Calls
    BY <1>2, <1>3, <1>4, <1>5, <1>6, <1>7 DEF Calls
  <2>2. Room' = Room
    BY <1>1, <2>1, RoomKept
  <2>. QED
    BY <2>1, <2>2 DEF Abstract!Next
<1>8. CASE GoOnWithCopy
  <2>1. MapInv' /\ Keeps(hm', hm) /\ Contents' = Contents
    BY <1>1, <1>8, CopyStep
  <2>2. Room' = Room
    BY <1>1, <2>1, RoomKept
  <2>3. UNCHANGED <<call, res>>
    BY <1>8 DEF GoOnWithCopy
  <2>. QED
    BY <2>1, <2>2, <2>3 DEF Abstract!vars
<1>9. CASE UNCHANGED vars
  <2>1. hm' = hm /\ call' = call /\ res' = res
    BY <1>9 DEF vars
  <2>2. MapInv' /\ Keeps(hm', hm) /\ Contents' = Contents
    BY <1>1, <2>1, ContentsAre DEF MapInv, Keeps
  <2>3. Room' = Room
    BY <1>1, <2>2, RoomKept
  <2>. QED
    BY <2>1, <2>2, <2>3 DEF Abstract!vars
<1>. QED
  BY <1>1, <1>7, <1>8, <1>9 DEF Next

\* The invariant holds in every reachable state.
LEMMA MapInvHolds == Spec => []MapInv
<1>1. Init => MapInv
  BY InitInv
<1>2. MapInv /\ [Next]_vars => MapInv'
  BY NextInv
<1>. QED
  BY <1>1, <1>2, PTL DEF Spec

----------------------------------------------------------------------------
(* What MapInv says, in the words of the properties.                       *)

\* The table of hm, in the words the properties use.
LEMMA TableHas ==
  ASSUME MapInv
  PROVE  /\ Header(hm) /\ Table(hm, 1 .. hm.size) /\ Shape(hm)
         /\ Buckets(hm) = 0 .. Pow2[hm.hbits] - 1
         /\ UsedSet(hm) = {l \in 0 .. Pow2[hm.hbits] - 1 : Used(hm, l)}
         /\ IsFiniteSet(UsedSet(hm)) /\ Cardinality(UsedSet(hm)) = hm.size
         /\ hm.size \in Nat
<1>1. Header(hm) /\ Table(hm, 1 .. hm.size) /\ Shape(hm) /\ hm.size \in Nat
  BY Sizes DEF MapInv, MapOK, Table
<1>2. Buckets(hm) = 0 .. Pow2[hm.hbits] - 1
  BY <1>1 DEF Shape, Buckets
<1>3. DOMAIN hm.bucket = Buckets(hm)
  BY <1>1 DEF Shape
<1>4. UsedSet(hm) = {l \in 0 .. Pow2[hm.hbits] - 1 : Used(hm, l)}
  BY <1>2, <1>3 DEF UsedSet, Used
<1>5. IsFiniteSet(UsedSet(hm))
  <2>1. PICK n, S, U : /\ n = Pow2[hm.hbits] - 1 /\ S = 0 .. n
                       /\ U = UsedSet(hm)
    OBVIOUS
  <2>2. n \in Int
    BY <1>1, <2>1, Sizes
  <2>3. 0 \in Int /\ IsFiniteSet(0 .. n)
    BY <2>2, FS_Interval
  <2>4. IsFiniteSet(S) /\ U \in SUBSET S
    BY <1>4, <2>1, <2>3
  <2>5. IsFiniteSet(U)
    BY <2>4, FS_Subset
  <2>. QED
    BY <2>1, <2>5
<1>6. Cardinality(UsedSet(hm)) = hm.size
  <2>1. PICK n : n = hm.size
    OBVIOUS
  <2>2. n \in Nat
    BY <1>1, <2>1
  <2>3. Cardinality(1 .. n) = IF 1 > n THEN 0 ELSE n - 1 + 1
    BY <2>2, FS_Interval
  <2>4. Cardinality(UsedSet(hm)) = Cardinality(1 .. n)
    BY <1>1, <2>1 DEF Table
  <2>. QED
    BY <2>1, <2>2, <2>3, <2>4
<1>. QED
  BY <1>1, <1>2, <1>4, <1>5, <1>6

\* The fields are in the ranges TypeOK gives.
LEMMA InvTypeOK == MapInv => TypeOK
<1>1. SUFFICES ASSUME MapInv PROVE TypeOK
  OBVIOUS
<1>2. /\ Header(hm) /\ Table(hm, 1 .. hm.size) /\ Shape(hm)
      /\ Buckets(hm) = 0 .. Pow2[hm.hbits] - 1
      /\ IsFiniteSet(UsedSet(hm)) /\ Cardinality(UsedSet(hm)) = hm.size
      /\ hm.size \in Nat
  BY <1>1, TableHas
<1>3. /\ hm.hbits \in 0 .. HashBits
      /\ Pow2[hm.hbits] \in Nat /\ Pow2[hm.hbits] >= 2
      /\ Pow2[hm.hbits] <= Pow2[HashBits]
      /\ Pow2[HashBits] \in Nat /\ hm.limit \in Nat /\ hm.limit < Pow2[hm.hbits]
  BY <1>2, Sizes
<1>4. hm.mask \in 0 .. Pow2[HashBits] - 1 /\ hm.limit \in 0 .. Pow2[HashBits]
  BY <1>2, <1>3 DEF Shape
<1>5. ASSUME NEW b \in Buckets(hm)
      PROVE  hm.bucket[b] \in [loc : 0 .. hm.size, hash : 0 .. Pow2[HashBits] - 1,
                               cnt : 0 .. hm.size]
  <2>1. /\ hm.bucket[b] \in [loc : Nat, hash : 0 .. Pow2[HashBits] - 1, cnt : Int]
        /\ hm.bucket[b].cnt = Cardinality(HomeSet(hm, b))
    BY <1>2 DEF Table, Shape
  <2>2. hm.bucket[b].loc \in 0 .. hm.size
    <3>1. CASE b \in UsedSet(hm)
      <4>1. hm.bucket[b].loc \in 1 .. hm.size
        BY <1>2, <3>1 DEF Table
      <4>. QED
        BY <1>2, <4>1
    <3>2. CASE b \notin UsedSet(hm)
      BY <1>2, <3>2 DEF UsedSet
    <3>. QED
      BY <3>1, <3>2
  <2>3. HomeSet(hm, b) \in SUBSET UsedSet(hm)
    BY DEF HomeSet
  <2>4. IsFiniteSet(HomeSet(hm, b)) /\ Cardinality(HomeSet(hm, b)) <= hm.size
    BY <1>2, <2>3, FS_Subset
  <2>5. Cardinality(HomeSet(hm, b)) \in Nat
    BY <2>4, FS_CardinalityType
  <2>6. hm.bucket[b].cnt \in 0 .. hm.size
    BY <1>2, <2>1, <2>4, <2>5
  <2>. QED
    BY <2>1, <2>2, <2>6
<1>6. hm.bucket = [b \in Buckets(hm) |-> hm.bucket[b]]
  BY <1>2 DEF Shape
<1>7. hm.bucket \in [0 .. Pow2[hm.hbits] - 1 ->
                       [loc : 0 .. hm.size, hash : 0 .. Pow2[HashBits] - 1,
                        cnt : 0 .. hm.size]]
  BY <1>2, <1>5, <1>6
<1>8. /\ hm.ext \in BOOLEAN /\ hm.room \in 0 .. Pow2[HashBits]
      /\ hm.max \in 0 .. Pow2[HashBits] /\ hm.size \in 0 .. MaxElems
      /\ \A i \in 0 .. hm.size - 1 : hm.elem[i] \in [key : Key, val : 0 .. ValMod - 1]
  BY <1>2 DEF Header
<1>9. res \in 0 .. ValMod
  BY <1>1 DEF MapInv
<1>. QED
  BY <1>3, <1>4, <1>7, <1>8, <1>9 DEF TypeOK

\* The counts are exact.
LEMMA InvCounts == MapInv => CountsExact
<1>1. SUFFICES ASSUME MapInv, NEW b \in 0 .. Pow2[hm.hbits] - 1
               PROVE  hm.bucket[b].cnt =
                        Cardinality({l \in 0 .. Pow2[hm.hbits] - 1 :
                                       Used(hm, l) /\ Home(hm, l) = b})
  BY DEF CountsExact
<1>2. /\ b \in Buckets(hm) /\ Table(hm, 1 .. hm.size)
      /\ UsedSet(hm) = {l \in 0 .. Pow2[hm.hbits] - 1 : Used(hm, l)}
  BY <1>1, TableHas
<1>3. HomeSet(hm, b) = {l \in 0 .. Pow2[hm.hbits] - 1 : Used(hm, l) /\ Home(hm, l) = b}
  BY <1>2 DEF HomeSet
<1>. QED
  BY <1>2, <1>3 DEF Table

\* Used buckets index the elements.
LEMMA InvIndex == MapInv => IndexExact
<1>1. SUFFICES ASSUME MapInv PROVE IndexExact
  OBVIOUS
<1>2. /\ Table(hm, 1 .. hm.size)
      /\ UsedSet(hm) = {l \in 0 .. Pow2[hm.hbits] - 1 : Used(hm, l)}
      /\ Cardinality(UsedSet(hm)) = hm.size
  BY <1>1, TableHas
<1>3. {hm.bucket[l].loc : l \in UsedSet(hm)} = 1 .. hm.size
  BY <1>2 DEF Table
<1>4. \A l \in UsedSet(hm) : hm.bucket[l].hash = Hash[ElemOf(hm, l).key]
  BY <1>2 DEF Table, ElemOf, KeyAt
<1>. QED
  BY <1>2, <1>3, <1>4 DEF IndexExact

\* An insertion let through has a bucket to go to.
LEMMA InvFree == MapInv => FreeBucket
<1>1. SUFFICES ASSUME MapInv, ~Refused(hm)
               PROVE  hm.size < Pow2[aux_insert_check(hm).hbits]
  BY DEF FreeBucket
<1>2. PICK m, c : m = hm /\ c = aux_insert_check(m)
  OBVIOUS
<1>3. MapOK(m) /\ ~Refused(m)
  BY <1>1, <1>2 DEF MapInv
<1>4. c.size < Pow2[c.hbits] /\ c.size = m.size
  BY <1>2, <1>3, Checked
<1>. QED
  BY <1>2, <1>4

\* The mask and the limit agree with the table.
LEMMA InvDerived == MapInv => DerivedFields
BY DEF MapInv, MapOK, Header, Table, Shape, DerivedFields

\* No look-up runs on.
LEMMA InvReturns == MapInv => NoFault
BY ValMods DEF MapInv, NoFault, Fault

----------------------------------------------------------------------------
(* Theorems.                                                               *)

\* Every field of a map has its type: locations and counts are at most the
\* number of elements, the mask and the limit fit the hash.
THEOREM HashMapTypeOK == Spec => []TypeOK
BY MapInvHolds, InvTypeOK, PTL

\* The home bucket of any key counts exactly the used buckets it is home to,
\* after any calls: what shm_at and del rely on to stop.
THEOREM HashMapCountsExact == Spec => []CountsExact
BY MapInvHolds, InvCounts, PTL

\* Used buckets and elements correspond one to one, whatever deletions moved,
\* and a bucket has its key's hash.
THEOREM HashMapIndexExact == Spec => []IndexExact
BY MapInvHolds, InvIndex, PTL

\* An insertion that aux_insert_check accepts finds a free bucket, so the loop
\* of aux_reg_hash ends.
THEOREM HashMapFreeBucket == Spec => []FreeBucket
BY MapInvHolds, InvFree, PTL

\* Every look-up ends: the count of its home never asks for a key the round
\* does not meet.
THEOREM HashMapReturns == Spec => []NoFault
BY MapInvHolds, InvReturns, PTL

\* The mask and the limit agree with the size of the table, after every call and
\* in every duplicate.  (Not after shm_cpy onto a map, which is not of Spec.)
THEOREM HashMapDerived == Spec => []DerivedFields
BY MapInvHolds, InvDerived, PTL

\* The table of a map in the caller's buffer is never moved or doubled.
THEOREM HashMapExtTableFixed == Spec => ExtTableFixed
<1>1. MapInv /\ [Next]_vars
        => [hm.ext => hm'.hbits = hm.hbits /\ hm'.room = hm.room]_vars
  BY NextInv DEF Keeps
<1>. QED
  BY <1>1, MapInvHolds, PTL DEF Spec, ExtTableFixed

\* A hash map implements the map KeyMap specifies: every call answers and
\* changes what it should, and refuses only when the map is full or memory is.
THEOREM HashMapImplements == Spec => Implements
<1>1. Init => Abstract!Init
  BY InitInv
<1>2. MapInv /\ [Next]_vars => [Abstract!Next]_(Abstract!vars)
  BY NextInv
<1>. QED
  BY <1>1, <1>2, MapInvHolds, PTL DEF Spec, Implements, Abstract!Spec
=============================================================================
