---------------------------- MODULE SString_proofs ----------------------------
(***************************************************************************)
(* For strings of any length and any number of them: no call cuts a        *)
(* character, the cached number of characters is that of the bytes, and a  *)
(* call does the same in place, into another string and at the end of one. *)
(*                                                                         *)
(* A character is a byte that is not a tail: Chars counts those, and is    *)
(* what the loop of sc_unicode_count_to_utf8_size counts, too.  Every call *)
(* puts together parts of texts that begin and end at offsets; such parts  *)
(* are texts, and their characters add up.                                 *)
(***************************************************************************)
EXTENDS SString, SequenceTheorems, FiniteSetTheorems, WellFoundedInduction, TLAPS

----------------------------------------------------------------------------
(* Induction over the naturals.                                            *)

\* The order of the naturals is well-founded, as a set of pairs.
LEMMA NatOrder == IsWellFoundedOn({p \in Nat \X Nat : p[1] < p[2]}, Nat)
BY NatLessThanWellFounded DEF OpToRel

\* A set of naturals that is not empty has a least element.
LEMMA LeastNat ==
  ASSUME NEW T, T \subseteq Nat, T # {}
  PROVE  \E x \in T : \A y \in T : x <= y
<1>1. PICK x \in T : \A y \in T : <<y, x>> \notin {p \in Nat \X Nat : p[1] < p[2]}
  BY NatOrder, WFMin
<1>2. ASSUME NEW y \in T PROVE x <= y
  <2>1. <<y, x>> \in Nat \X Nat
    OBVIOUS
  <2>2. ~ (y < x)
    BY <1>1, <2>1
  <2>. QED
    BY <2>2
<1>. QED
  BY <1>2

\* What holds of 0, and of i + 1 when it holds of i, holds up to n.
LEMMA UpTo ==
  ASSUME NEW n \in Nat, NEW S, 0 \in S, \A i \in 0 .. n - 1 : i \in S => i + 1 \in S
  PROVE  \A i \in 0 .. n : i \in S
<1>. DEFINE T == (0 .. n) \ S
<1>1. SUFFICES ASSUME T # {} PROVE FALSE
  OBVIOUS
<1>2. PICK x \in T : \A y \in T : x <= y
  <2>1. T \subseteq Nat
    OBVIOUS
  <2>. HIDE DEF T
  <2>. QED
    BY <1>1, <2>1, LeastNat
<1>3. x # 0 /\ x \in 1 .. n
  BY <1>2
<1>4. x - 1 \in 0 .. n - 1 /\ x - 1 \notin T
  BY <1>2, <1>3
<1>5. x - 1 \in S
  BY <1>4
<1>6. (x - 1) + 1 \in S
  BY <1>4, <1>5
<1>. QED
  BY <1>3, <1>6

\* A set of naturals that is not empty and has a bound has a greatest element.
LEMMA GreatestNat ==
  ASSUME NEW n \in Nat, NEW T, T \subseteq 0 .. n, T # {}
  PROVE  \E x \in T : \A y \in T : y <= x
<1>1. PICK U : U = {n - i : i \in T}
  OBVIOUS
<1>2. U \subseteq Nat /\ U # {}
  <2>1. ASSUME NEW i \in T PROVE n - i \in Nat
    <3>1. i \in 0 .. n
      OBVIOUS
    <3>. QED
      BY <3>1
  <2>2. PICK i \in T : TRUE
    OBVIOUS
  <2>3. n - i \in U
    BY <1>1
  <2>. QED
    BY <1>1, <2>1, <2>3
<1>3. PICK u \in U : \A v \in U : u <= v
  BY <1>2, LeastNat
<1>4. PICK x \in T : u = n - x
  BY <1>1, <1>3
<1>5. ASSUME NEW y \in T PROVE y <= x
  <2>1. n - y \in U /\ x \in 0 .. n /\ y \in 0 .. n
    BY <1>1
  <2>2. n - x <= n - y
    BY <1>3, <1>4, <2>1
  <2>. QED
    BY <2>2
<1>. QED
  BY <1>5

----------------------------------------------------------------------------
(* Characters: a byte that is not a tail starts one.                       *)

Byte == {Space, Lead} \cup Tails

\* Bytes of which no character is cut.
Text(b) == b \in Seq(Byte) /\ Whole(b)

\* Characters that start at the bytes i + 1 to j.
Starts(b, i, j) == {k \in i + 1 .. j : b[k] \notin Tails}
Heads(b, i, j) == Cardinality(Starts(b, i, j))
Chars(b) == Heads(b, 0, Len(b))

\* There are no more of them than bytes.
LEMMA HeadsNat ==
  ASSUME NEW b, NEW i \in Nat, NEW j \in Nat
  PROVE  /\ IsFiniteSet(Starts(b, i, j))
         /\ Heads(b, i, j) \in Nat
         /\ i <= j => Heads(b, i, j) <= j - i
         /\ j <= i => Heads(b, i, j) = 0
<1>1. PICK m : m = i + 1
  OBVIOUS
<1>2. m \in Int /\ j \in Int
  BY <1>1
<1>3. IsFiniteSet(m .. j) /\ Cardinality(m .. j) = IF m > j THEN 0 ELSE j - m + 1
  BY <1>2, FS_Interval
<1>4. PICK S, T : S = Starts(b, i, j) /\ T = m .. j
  OBVIOUS
<1>5. S \subseteq T
  BY <1>4, <1>1 DEF Starts
<1>6. IsFiniteSet(T)
  BY <1>3, <1>4
<1>7. IsFiniteSet(S) /\ Cardinality(S) <= Cardinality(T)
  BY <1>5, <1>6, FS_Subset
<1>8. Cardinality(S) \in Nat
  BY <1>7, FS_CardinalityType
<1>. QED
  BY <1>1, <1>3, <1>4, <1>7, <1>8 DEF Heads

\* The characters of two neighbouring parts add up.
LEMMA HeadsSplit ==
  ASSUME NEW b, NEW i \in Nat, NEW j \in Nat, NEW k \in Nat, i <= j, j <= k
  PROVE  Heads(b, i, k) = Heads(b, i, j) + Heads(b, j, k)
<1>1. PICK S, T : S = Starts(b, i, j) /\ T = Starts(b, j, k)
  OBVIOUS
<1>2. IsFiniteSet(S) /\ IsFiniteSet(T)
  BY <1>1, HeadsNat
<1>3. S \cap T = {}
  BY <1>1 DEF Starts
<1>4. Starts(b, i, k) = S \cup T
  BY <1>1 DEF Starts
<1>5. Cardinality(S \cup T) = Cardinality(S) + Cardinality(T) - Cardinality(S \cap T)
  BY <1>2, FS_Union
<1>6. Cardinality({}) = 0
  BY FS_EmptySet
<1>7. Cardinality(S) \in Nat /\ Cardinality(T) \in Nat
  BY <1>2, FS_CardinalityType
<1>8. Cardinality(S \cup T) = Cardinality(S) + Cardinality(T)
  <2>1. Cardinality(S \cap T) = 0
    BY <1>3, <1>6
  <2>. QED
    BY <1>5, <1>7, <2>1
<1>. QED
  BY <1>1, <1>4, <1>8 DEF Heads

\* One byte.
LEMMA HeadsOne ==
  ASSUME NEW b, NEW i \in Nat
  PROVE  /\ b[i + 1] \in Tails => Heads(b, i, i + 1) = 0
         /\ b[i + 1] \notin Tails => Heads(b, i, i + 1) = 1
<1>1. PICK k, S : k = i + 1 /\ S = Starts(b, i, i + 1)
  OBVIOUS
<1>2. k \in Nat
  BY <1>1
<1>3. b[k] \in Tails => S = {}
  BY <1>1 DEF Starts
<1>4. b[k] \notin Tails => S = {k}
  BY <1>1 DEF Starts
<1>5. Cardinality({}) = 0
  BY FS_EmptySet
<1>6. Cardinality({k}) = 1
  BY FS_Singleton
<1>. QED
  BY <1>1, <1>3, <1>4, <1>5, <1>6 DEF Heads

\* The n bytes of c after d are those of b after i.
Alike(c, d, b, i, n) == \A k \in 1 .. n : c[d + k] = b[i + k]

\* The characters only depend on the bytes, wherever these are.
LEMMA HeadsShift ==
  ASSUME NEW b, NEW c, NEW i \in Nat, NEW d \in Nat, NEW n \in Nat,
         NEW p, NEW q, p = d + n, q = i + n,
         Alike(c, d, b, i, n)
  PROVE  Heads(c, d, p) = Heads(b, i, q)
<1>1. PICK S : S = {u \in Nat : Heads(c, d, d + u) = Heads(b, i, i + u)}
  OBVIOUS
<1>2. 0 \in S
  BY <1>1, HeadsNat
<1>3. ASSUME NEW u \in 0 .. n - 1, u \in S PROVE u + 1 \in S
  <2>1. PICK f, g : f = d + u /\ g = i + u
    OBVIOUS
  <2>2. f \in Nat /\ g \in Nat /\ f + 1 = d + (u + 1) /\ g + 1 = i + (u + 1)
    BY <2>1
  <2>3. PICK f1, g1 : f1 = f + 1 /\ g1 = g + 1
    OBVIOUS
  <2>4. /\ f1 \in Nat /\ g1 \in Nat /\ d <= f /\ f <= f1 /\ i <= g /\ g <= g1
    BY <2>1, <2>2, <2>3
  <2>5. Heads(c, d, f1) = Heads(c, d, f) + Heads(c, f, f1)
    BY <2>2, <2>4, HeadsSplit
  <2>6. Heads(b, i, g1) = Heads(b, i, g) + Heads(b, g, g1)
    BY <2>2, <2>4, HeadsSplit
  <2>7. Heads(c, d, f) = Heads(b, i, g)
    BY <1>1, <1>3, <2>1
  <2>8. c[f + 1] = b[g + 1]
    <3>1. u + 1 \in 1 .. n
      OBVIOUS
    <3>. QED
      BY <3>1, <2>2 DEF Alike
  <2>9. Heads(c, f, f1) = Heads(b, g, g1)
    BY <2>2, <2>3, <2>8, HeadsOne
  <2>10. Heads(c, d, d + (u + 1)) = Heads(b, i, i + (u + 1))
    BY <2>2, <2>3, <2>5, <2>6, <2>7, <2>9
  <2>. QED
    BY <1>1, <2>10
<1>4. \A u \in 0 .. n : u \in S
  BY <1>2, <1>3, UpTo
<1>5. n \in S
  BY <1>4
<1>. QED
  BY <1>1, <1>5

----------------------------------------------------------------------------
(* Parts of a text, and texts put together.                                *)

\* The bytes i + 1 to j.
Cut(b, i, j) == SubSeq(b, i + 1, j)

\* A part of a sequence.
LEMMA CutIs ==
  ASSUME NEW S, NEW b \in Seq(S), NEW i \in 0 .. Len(b), NEW j \in i .. Len(b)
  PROVE  /\ Cut(b, i, j) \in Seq(S)
         /\ Len(Cut(b, i, j)) = j - i
         /\ \A k \in 1 .. j - i : Cut(b, i, j)[k] = b[i + k]
<1>1. PICK m : m = i + 1
  OBVIOUS
<1>2. m \in Int /\ j \in Int /\ \A k \in m .. j : b[k] \in S
  <2>1. \A k \in 1 .. Len(b) : b[k] \in S
    BY ElementOfSeq
  <2>2. m .. j \subseteq 1 .. Len(b)
    BY <1>1, LenProperties
  <2>. QED
    BY <1>1, <2>1, <2>2, LenProperties
<1>3. /\ SubSeq(b, m, j) \in Seq(S)
      /\ Len(SubSeq(b, m, j)) = IF m <= j THEN j - m + 1 ELSE 0
      /\ \A k \in 1 .. j - m + 1 : SubSeq(b, m, j)[k] = b[m + k - 1]
  BY <1>2, SubSeqProperties
<1>4. \A k \in 1 .. j - i : m + k - 1 = i + k
  BY <1>1, LenProperties
<1>. QED
  BY <1>1, <1>3, <1>4, LenProperties DEF Cut

\* A part of no bytes.
LEMMA CutNone ==
  ASSUME NEW S, NEW b \in Seq(S), NEW i \in Nat
  PROVE  Cut(b, i, i) = << >>
<1>1. PICK m : m = i + 1
  OBVIOUS
<1>2. m \in Int /\ i \in Int /\ m > i
  BY <1>1
<1>3. SubSeq(b, m, i) = << >>
  BY <1>2, SubSeqEmpty
<1>. QED
  BY <1>1, <1>3 DEF Cut

\* All of it.
LEMMA CutAll ==
  ASSUME NEW S, NEW b \in Seq(S)
  PROVE  Cut(b, 0, Len(b)) = b
<1>1. PICK z, n : z = 0 /\ n = Len(b)
  OBVIOUS
<1>2. z \in 0 .. Len(b) /\ n \in z .. Len(b) /\ n \in Nat
  BY <1>1, LenProperties
<1>3. PICK c : c = Cut(b, z, n)
  OBVIOUS
<1>4. c \in Seq(S) /\ Len(c) = n /\ \A k \in 1 .. n : c[k] = b[k]
  <2>1. /\ Cut(b, z, n) \in Seq(S)
        /\ Len(Cut(b, z, n)) = n - z
        /\ \A k \in 1 .. n - z : Cut(b, z, n)[k] = b[z + k]
    BY <1>2, CutIs
  <2>2. n - z = n /\ \A k \in 1 .. n : z + k = k
    BY <1>1, <1>2
  <2>. QED
    BY <1>3, <2>1, <2>2
<1>5. c = b
  BY <1>1, <1>4, SeqEqual
<1>. QED
  BY <1>1, <1>3, <1>5

\* Offsets of a text: its ends, and those that a character begins at.
LEMMA Ends ==
  ASSUME NEW S, NEW b \in Seq(S)
  PROVE  /\ Offsets(b) \subseteq Nat
         /\ Offsets(b) \subseteq 0 .. Len(b)
         /\ Len(b) \in Offsets(b)
         /\ Whole(b) => 0 \in Offsets(b)
<1>1. Len(b) \in Nat
  BY LenProperties
<1>2. ASSUME Whole(b), Len(b) # 0 PROVE b[1] \notin Tails
  <2>1. 1 \in 1 .. Len(b)
    BY <1>1, <1>2
  <2>. QED
    BY <1>2, <2>1 DEF Whole
<1>. QED
  BY <1>1, <1>2 DEF Offsets

\* A part between two offsets is a text, with the characters it had.
LEMMA CutText ==
  ASSUME NEW b, Text(b), NEW i \in Offsets(b), NEW j \in Offsets(b), i <= j
  PROVE  Text(Cut(b, i, j)) /\ Len(Cut(b, i, j)) = j - i /\ Chars(Cut(b, i, j)) = Heads(b, i, j)
<1>1. b \in Seq(Byte) /\ Whole(b) /\ Len(b) \in Nat
  BY LenProperties DEF Text
<1>2. i \in 0 .. Len(b) /\ j \in i .. Len(b) /\ i \in Nat /\ j \in Nat
  BY <1>1, Ends
<1>3. PICK c, n : c = Cut(b, i, j) /\ n = j - i
  OBVIOUS
<1>4. n \in Nat /\ c \in Seq(Byte) /\ Len(c) = n /\ \A k \in 1 .. n : c[k] = b[i + k]
  <2>1. /\ Cut(b, i, j) \in Seq(Byte)
        /\ Len(Cut(b, i, j)) = j - i
        /\ \A k \in 1 .. j - i : Cut(b, i, j)[k] = b[i + k]
    BY <1>1, <1>2, CutIs
  <2>2. n \in Nat
    BY <1>2, <1>3
  <2>. QED
    BY <1>3, <2>1, <2>2
<1>5. ASSUME NEW k \in 1 .. n, c[k] = Lead PROVE k < n /\ c[k + 1] \in Tails
  <2>1. i + k \in 1 .. Len(b) /\ b[i + k] = Lead
    BY <1>2, <1>3, <1>4, <1>5
  <2>2. i + k < Len(b) /\ b[i + k + 1] \in Tails
    BY <1>1, <2>1 DEF Whole
  <2>3. k # n
    <3>1. SUFFICES ASSUME k = n PROVE FALSE
      OBVIOUS
    <3>2. j = i + k
      BY <1>2, <1>3, <3>1
    <3>3. j # Len(b) /\ b[j + 1] \in Tails
      BY <2>2, <3>2
    <3>. QED
      BY <3>3 DEF Offsets
  <2>4. k + 1 \in 1 .. n
    BY <1>4, <2>3
  <2>5. c[k + 1] = b[i + (k + 1)] /\ i + (k + 1) = i + k + 1
    BY <1>2, <1>4, <2>4
  <2>. QED
    BY <1>4, <2>2, <2>4, <2>5
<1>6. ASSUME NEW k \in 1 .. n, c[k] \in Tails PROVE k > 1 /\ c[k - 1] = Lead
  <2>1. i + k \in 1 .. Len(b) /\ b[i + k] \in Tails
    BY <1>2, <1>3, <1>4, <1>6
  <2>2. i + k > 1 /\ b[i + k - 1] = Lead
    <3>1. PICK l : l = i + k
      OBVIOUS
    <3>2. l > 1 /\ b[l - 1] = Lead
      BY <1>1, <2>1, <3>1 DEF Whole
    <3>. QED
      BY <1>2, <1>4, <3>1, <3>2
  <2>3. k # 1
    <3>1. SUFFICES ASSUME k = 1 PROVE FALSE
      OBVIOUS
    <3>2. b[i + 1] \in Tails /\ i # Len(b)
      BY <1>1, <1>2, <2>1, <3>1
    <3>. QED
      BY <3>2 DEF Offsets
  <2>4. k - 1 \in 1 .. n
    BY <1>4, <2>3
  <2>5. c[k - 1] = b[i + (k - 1)] /\ i + (k - 1) = i + k - 1
    BY <1>2, <1>4, <2>4
  <2>. QED
    BY <1>4, <2>2, <2>4, <2>5
<1>7. Text(c)
  BY <1>4, <1>5, <1>6 DEF Text, Whole
<1>8. PICK z : z = 0
  OBVIOUS
<1>9. Alike(c, z, b, i, n)
  BY <1>4, <1>8 DEF Alike
<1>10. z \in Nat /\ i \in Nat /\ n \in Nat /\ n = z + n /\ j = i + n
  BY <1>2, <1>3, <1>4, <1>8
<1>11. Heads(c, z, n) = Heads(b, i, j)
  BY <1>9, <1>10, HeadsShift
<1>. QED
  BY <1>3, <1>4, <1>7, <1>8, <1>11 DEF Chars

\* Two texts, one after the other, are one, of the characters of both.
LEMMA JoinText ==
  ASSUME NEW b, NEW c, Text(b), Text(c)
  PROVE  /\ Text(b \o c)
         /\ Len(b \o c) = Len(b) + Len(c)
         /\ Chars(b \o c) = Chars(b) + Chars(c)
<1>1. b \in Seq(Byte) /\ Whole(b) /\ Len(b) \in Nat /\ c \in Seq(Byte) /\ Whole(c) /\ Len(c) \in Nat
  BY LenProperties DEF Text
<1>2. PICK d, m, n : d = b \o c /\ m = Len(b) /\ n = Len(c)
  OBVIOUS
<1>3. /\ d \in Seq(Byte) /\ Len(d) = m + n /\ m \in Nat /\ n \in Nat
      /\ \A k \in 1 .. m + n : d[k] = IF k <= m THEN b[k] ELSE c[k - m]
  BY <1>1, <1>2, ConcatProperties
<1>4. \A k \in 1 .. m : d[k] = b[k]
  BY <1>3
<1>5. \A k \in 1 .. n : d[m + k] = c[k]
  <2>1. ASSUME NEW k \in 1 .. n PROVE d[m + k] = c[k]
    <3>1. m + k \in 1 .. m + n /\ ~ (m + k <= m) /\ (m + k) - m = k
      BY <1>3
    <3>. QED
      BY <1>3, <3>1
  <2>. QED
    BY <2>1
<1>6. ASSUME NEW k \in 1 .. m + n, d[k] = Lead PROVE k < m + n /\ d[k + 1] \in Tails
  <2>1. CASE k <= m
    <3>1. k \in 1 .. m /\ b[k] = Lead
      BY <1>3, <1>4, <1>6, <2>1
    <3>2. k < m /\ b[k + 1] \in Tails /\ k + 1 \in 1 .. m
      BY <1>1, <1>2, <3>1 DEF Whole
    <3>. QED
      BY <1>3, <1>4, <3>2
  <2>2. CASE k > m
    <3>1. PICK l : l = k - m
      OBVIOUS
    <3>2. l \in 1 .. n /\ k = m + l
      BY <1>3, <2>2, <3>1
    <3>3. c[l] = Lead
      BY <1>5, <1>6, <3>2
    <3>4. l < n /\ c[l + 1] \in Tails
      BY <1>1, <1>2, <3>2, <3>3 DEF Whole
    <3>5. l + 1 \in 1 .. n /\ m + (l + 1) = k + 1
      BY <1>3, <3>2, <3>4
    <3>. QED
      BY <1>3, <1>5, <3>2, <3>4, <3>5
  <2>. QED
    BY <1>3, <2>1, <2>2
<1>7. ASSUME NEW k \in 1 .. m + n, d[k] \in Tails PROVE k > 1 /\ d[k - 1] = Lead
  <2>1. CASE k <= m
    <3>1. k \in 1 .. m /\ b[k] \in Tails
      BY <1>3, <1>4, <1>7, <2>1
    <3>2. k > 1 /\ b[k - 1] = Lead /\ k - 1 \in 1 .. m
      BY <1>1, <1>2, <3>1 DEF Whole
    <3>. QED
      BY <1>3, <1>4, <3>2
  <2>2. CASE k > m
    <3>1. PICK l : l = k - m
      OBVIOUS
    <3>2. l \in 1 .. n /\ k = m + l
      BY <1>3, <2>2, <3>1
    <3>3. c[l] \in Tails
      BY <1>5, <1>7, <3>2
    <3>4. l > 1 /\ c[l - 1] = Lead
      BY <1>1, <1>2, <3>2, <3>3 DEF Whole
    <3>5. l - 1 \in 1 .. n /\ m + (l - 1) = k - 1
      BY <1>3, <3>2, <3>4
    <3>. QED
      BY <1>3, <1>5, <3>2, <3>4, <3>5
  <2>. QED
    BY <1>3, <2>1, <2>2
<1>8. Text(d)
  BY <1>3, <1>6, <1>7 DEF Text, Whole
<1>9. PICK z : z = 0
  OBVIOUS
<1>10. PICK e : e = m + n
  OBVIOUS
<1>11. /\ z \in Nat /\ m \in Nat /\ n \in Nat /\ e \in Nat /\ z <= m /\ m <= e
       /\ m = z + m /\ n = z + n /\ e = m + n
  BY <1>3, <1>9, <1>10
<1>12. Heads(d, z, e) = Heads(d, z, m) + Heads(d, m, e)
  BY <1>11, HeadsSplit
<1>13. Heads(d, z, m) = Heads(b, z, m)
  <2>1. Alike(d, z, b, z, m)
    BY <1>3, <1>4, <1>9 DEF Alike
  <2>. QED
    BY <1>11, <2>1, HeadsShift
<1>14. Heads(d, m, e) = Heads(c, z, n)
  <2>1. Alike(d, m, c, z, n)
    BY <1>3, <1>5, <1>9 DEF Alike
  <2>. QED
    BY <1>11, <2>1, HeadsShift
<1>. QED
  BY <1>2, <1>3, <1>8, <1>9, <1>10, <1>12, <1>13, <1>14 DEF Chars

\* Texts of no bytes, of spaces, of one character.
LEMMA NoText == Text(<< >>) /\ Chars(<< >>) = 0 /\ Len(<< >>) = 0
<1>1. PICK z, b : z = 0 /\ b = << >>
  OBVIOUS
<1>2. b \in Seq(Byte) /\ Len(b) = z
  BY <1>1
<1>3. Text(b)
  BY <1>1, <1>2 DEF Text, Whole
<1>4. Heads(b, z, z) = 0
  <2>1. z \in Nat
    BY <1>1
  <2>. QED
    BY <2>1, HeadsNat
<1>. QED
  BY <1>1, <1>2, <1>3, <1>4 DEF Chars

\* Spaces are a text.
LEMMA FillText ==
  ASSUME NEW n \in Nat
  PROVE  Text(Fill(n)) /\ Len(Fill(n)) = n
<1>1. PICK b : b = Fill(n)
  OBVIOUS
<1>2. b = [i \in 1 .. n |-> Space] /\ Space \in Byte
  BY <1>1 DEF Fill, Byte
<1>3. b \in Seq(Byte) /\ Len(b) = n
  BY <1>2
<1>4. \A k \in 1 .. n : b[k] = Space
  BY <1>2
<1>5. Space # Lead /\ Space \notin Tails
  BY DEF Space, Lead, Tails
<1>. QED
  BY <1>1, <1>3, <1>4, <1>5 DEF Text, Whole

\* The characters of the client are texts of one character.
LEMMA CharText ==
  ASSUME NEW c \in Char
  PROVE  Text(c) /\ Chars(c) = 1 /\ Len(c) \in 1 .. 2
<1>1. PICK z : z = 0
  OBVIOUS
<1>2. z \in Nat /\ z + 1 = 1 /\ 1 \in Nat /\ 1 + 1 = 2 /\ 2 \in Nat
  BY <1>1
<1>3. CASE c = <<Space>>
  <2>1. c \in Seq(Byte) /\ Len(c) = 1 /\ c[1] = Space
    BY <1>3 DEF Byte
  <2>2. Space # Lead /\ Space \notin Tails
    BY DEF Space, Lead, Tails
  <2>3. Text(c)
    BY <2>1, <2>2 DEF Text, Whole
  <2>4. Heads(c, z, 1) = 1
    BY <1>2, <2>1, <2>2, HeadsOne
  <2>. QED
    BY <1>1, <2>1, <2>3, <2>4 DEF Chars
<1>4. CASE c = <<Lead, "c">>
  <2>1. c \in Seq(Byte) /\ Len(c) = 2 /\ c[1] = Lead /\ c[2] = "c"
    BY <1>4 DEF Byte, Tails
  <2>2. Lead \notin Tails /\ "c" \in Tails /\ "c" # Lead
    BY DEF Lead, Tails
  <2>3. Text(c)
    BY <2>1, <2>2 DEF Text, Whole
  <2>4. PICK o, w : o = 1 /\ w = 2
    OBVIOUS
  <2>5. o \in Nat /\ w \in Nat /\ z <= o /\ o <= w /\ z + 1 = o /\ o + 1 = w
    BY <1>1, <2>4
  <2>6. Heads(c, z, o) = 1 /\ Heads(c, o, w) = 0
    BY <1>2, <2>1, <2>2, <2>4, <2>5, HeadsOne
  <2>7. Heads(c, z, w) = Heads(c, z, o) + Heads(c, o, w)
    BY <1>2, <2>5, HeadsSplit
  <2>. QED
    BY <1>1, <2>1, <2>3, <2>4, <2>6, <2>7 DEF Chars
<1>. QED
  BY <1>3, <1>4 DEF Char

----------------------------------------------------------------------------
(* sc_unicode_count_to_utf8_size.                                          *)

\* One turn of its loop.
Turned(b, t) ==
  IF t.at >= Len(b) THEN t
  ELSE [at |-> t.at + CharSize(b, t.at + 1), count |-> t.count + 1]

\* Where the loop is after each of its first k turns.
Turns(b, off, F, k) ==
  F = [u \in 0 .. k |-> IF u = 0 THEN [at |-> off, count |-> 0] ELSE Turned(b, F[u - 1])]

\* The loop makes one turn after the other.
LEMMA TurnsExist ==
  ASSUME NEW b, NEW off, NEW n \in Nat
  PROVE  \E F : Turns(b, off, F, n)
<1>. DEFINE S == {k \in Nat : \E F : Turns(b, off, F, k)}
<1>1. 0 \in S
  <2>1. Turns(b, off, [u \in 0 .. 0 |-> [at |-> off, count |-> 0]], 0)
    BY DEF Turns
  <2>. QED
    BY <2>1
<1>2. ASSUME NEW k \in Nat, k \in S
      PROVE  k + 1 \in S
  <2>1. PICK F : Turns(b, off, F, k)
    BY <1>2
  <2>. DEFINE G == [u \in 0 .. k + 1 |-> IF u = k + 1 THEN Turned(b, F[k]) ELSE F[u]]
  <2>2. ASSUME NEW u \in 0 .. k + 1
        PROVE  G[u] = IF u = 0 THEN [at |-> off, count |-> 0] ELSE Turned(b, G[u - 1])
    <3>1. \A j \in 0 .. k : F[j] = IF j = 0 THEN [at |-> off, count |-> 0]
                                   ELSE Turned(b, F[j - 1])
      BY <2>1 DEF Turns
    <3>2. CASE u = k + 1
      <4>1. u # 0 /\ u - 1 = k /\ k \in 0 .. k + 1 /\ k # k + 1
        BY <3>2
      <4>2. G[k] = F[k] /\ G[u] = Turned(b, F[k])
        BY <3>2, <4>1
      <4>. QED
        BY <4>1, <4>2
    <3>3. CASE u # k + 1
      <4>1. u \in 0 .. k /\ (u # 0 => u - 1 \in 0 .. k)
        BY <3>3
      <4>. QED
        BY <3>1, <3>3, <4>1
    <3>. QED
      BY <3>2, <3>3
  <2>3. G = [u \in 0 .. k + 1 |-> G[u]]
    OBVIOUS
  <2>. HIDE DEF G
  <2>4. Turns(b, off, G, k + 1)
    BY <2>2, <2>3 DEF Turns
  <2>. QED
    BY <2>4
<1>. HIDE DEF S
<1>3. \A k \in 0 .. n : k \in S
  BY <1>1, <1>2, UpTo
<1>. QED
  BY <1>3 DEF S

\* What CountToSize says is where the last turn leaves off.
LEMMA CountToSizeIs ==
  ASSUME NEW b, NEW off, NEW k \in Nat
  PROVE  \E F : /\ Turns(b, off, F, k)
                /\ CountToSize(b, off, k) = [size |-> F[k].at - off, count |-> F[k].count]
<1>. DEFINE turn[u \in 0 .. k] ==
              IF u = 0 THEN [at |-> off, count |-> 0] ELSE Turned(b, turn[u - 1])
<1>1. \E F : F = [u \in 0 .. k |->
                   IF u = 0 THEN [at |-> off, count |-> 0] ELSE Turned(b, F[u - 1])]
  <2>1. \E F : Turns(b, off, F, k)
    BY TurnsExist
  <2>. QED
    BY <2>1 DEF Turns
<1>2. turn = [u \in 0 .. k |->
               IF u = 0 THEN [at |-> off, count |-> 0] ELSE Turned(b, turn[u - 1])]
  BY <1>1, Zenon
<1>3. CountToSize(b, off, k) = [size |-> turn[k].at - off, count |-> turn[k].count]
  BY DEF CountToSize, Turned
<1>4. PICK F : F = turn
  OBVIOUS
<1>. HIDE DEF turn
<1>5. Turns(b, off, F, k)
  BY <1>2, <1>4 DEF Turns
<1>. QED
  BY <1>3, <1>4, <1>5

\* From one offset to the next: one character.
LEMMA NextOffset ==
  ASSUME NEW b, Text(b), NEW i \in Offsets(b), i < Len(b)
  PROVE  \E j \in Offsets(b) : j = i + CharSize(b, i + 1) /\ i < j /\ Heads(b, i, j) = 1
<1>1. b \in Seq(Byte) /\ Whole(b) /\ Len(b) \in Nat /\ i \in Nat
  BY Ends, LenProperties DEF Text
<1>2. PICK j, l : j = i + 1 /\ l = j + 1
  OBVIOUS
<1>3. j \in 1 .. Len(b) /\ j \in Nat /\ l \in Nat /\ l = i + 2 /\ i <= j /\ j <= l
  BY <1>1, <1>2
<1>4. b[j] \notin Tails /\ b[i + 1] = b[j] /\ b[j + 1] = b[l]
  <2>1. i # Len(b)
    BY <1>1
  <2>. QED
    BY <1>2, <2>1 DEF Offsets
<1>5. Heads(b, i, j) = 1
  BY <1>1, <1>2, <1>4, HeadsOne
<1>6. CASE b[j] = Lead
  <2>1. j < Len(b) /\ b[l] \in Tails
    BY <1>1, <1>2, <1>3, <1>6 DEF Whole
  <2>2. CharSize(b, j) = 2
    BY <1>6, <2>1 DEF CharSize
  <2>3. Heads(b, j, l) = 0
    BY <1>2, <1>3, <1>4, <2>1, HeadsOne
  <2>4. Heads(b, i, l) = Heads(b, i, j) + Heads(b, j, l)
    BY <1>1, <1>3, HeadsSplit
  <2>5. l \in Offsets(b)
    <3>1. SUFFICES ASSUME l # Len(b), b[l + 1] \in Tails PROVE FALSE
      BY <1>1, <1>2, <1>3, <2>1 DEF Offsets
    <3>2. PICK m : m = l + 1
      OBVIOUS
    <3>3. m \in 1 .. Len(b) /\ m - 1 = l
      BY <1>1, <1>2, <1>3, <2>1, <3>1, <3>2
    <3>4. b[m - 1] = Lead
      BY <1>1, <3>1, <3>2, <3>3 DEF Whole
    <3>5. Lead \notin Tails
      BY DEF Lead, Tails
    <3>. QED
      BY <2>1, <3>3, <3>4, <3>5
  <2>. QED
    BY <1>1, <1>2, <1>3, <1>5, <2>2, <2>3, <2>4, <2>5
<1>7. CASE b[j] # Lead
  <2>1. CharSize(b, j) = 1
    BY <1>7 DEF CharSize
  <2>2. j \in Offsets(b)
    <3>1. SUFFICES ASSUME j # Len(b), b[l] \in Tails PROVE FALSE
      BY <1>1, <1>2, <1>3 DEF Offsets
    <3>2. l \in 1 .. Len(b) /\ l - 1 = j
      BY <1>1, <1>2, <1>3, <3>1
    <3>3. b[l - 1] = Lead
      BY <1>1, <3>1, <3>2 DEF Whole
    <3>. QED
      BY <1>7, <3>2, <3>3
  <2>. QED
    BY <1>1, <1>2, <1>3, <1>5, <2>1, <2>2
<1>. QED
  BY <1>6, <1>7

\* r is what there is in the first k characters from `off' on.
Reached(b, off, k, r) ==
  /\ r.size \in Nat
  /\ off + r.size \in Offsets(b)
  /\ r.count = Heads(b, off, off + r.size)
  /\ r.count \in 0 .. k
  /\ r.count = k \/ off + r.size = Len(b)

\* Where the loop may be after u turns.
Passed(b, off, u, t) ==
  /\ t.at \in Offsets(b) /\ off <= t.at
  /\ t.count = Heads(b, off, t.at) /\ t.count \in 0 .. u
  /\ t.count = u \/ t.at = Len(b)

\* A turn passes one more character, or stays at the end.
LEMMA TurnPasses ==
  ASSUME NEW b, Text(b), NEW off \in Offsets(b), NEW u \in Nat, NEW v, v = u + 1,
         NEW t, Passed(b, off, u, t)
  PROVE  Passed(b, off, v, Turned(b, t))
<1>1. /\ t.at \in Offsets(b) /\ off <= t.at /\ off \in Nat /\ t.at \in Nat
      /\ t.count = Heads(b, off, t.at) /\ t.count \in 0 .. u
      /\ t.count = u \/ t.at = Len(b)
      /\ Len(b) \in Nat /\ t.at <= Len(b)
  <2>1. b \in Seq(Byte)
    BY DEF Text
  <2>2. /\ t.at \in Offsets(b) /\ off <= t.at
        /\ t.count = Heads(b, off, t.at) /\ t.count \in 0 .. u
        /\ t.count = u \/ t.at = Len(b)
    BY DEF Passed
  <2>3. Offsets(b) \subseteq Nat /\ Offsets(b) \subseteq 0 .. Len(b) /\ Len(b) \in Nat
    BY <2>1, Ends, LenProperties
  <2>. QED
    BY <2>2, <2>3
<1>2. CASE t.at >= Len(b)
  <2>1. Turned(b, t) = t /\ t.at = Len(b)
    BY <1>1, <1>2 DEF Turned
  <2>2. t.count \in 0 .. v
    BY <1>1
  <2>. QED
    BY <1>1, <2>1, <2>2 DEF Passed
<1>3. CASE t.at < Len(b)
  <2>1. PICK i : i = t.at
    OBVIOUS
  <2>2. i \in Offsets(b) /\ i < Len(b) /\ i \in Nat
    BY <1>1, <1>3, <2>1
  <2>3. PICK j \in Offsets(b) : j = i + CharSize(b, i + 1) /\ i < j /\ Heads(b, i, j) = 1
    BY <2>2, NextOffset
  <2>4. j \in Nat
    <3>1. b \in Seq(Byte)
      BY DEF Text
    <3>. QED
      BY <3>1, Ends
  <2>5. off \in Nat /\ i \in Nat /\ j \in Nat /\ off <= i /\ i <= j
    BY <1>1, <2>1, <2>2, <2>3, <2>4
  <2>6. Heads(b, off, j) = Heads(b, off, i) + Heads(b, i, j)
    BY <2>5, HeadsSplit
  <2>7. t.count = u
    BY <1>1, <1>3
  <2>8. Turned(b, t) = [at |-> j, count |-> u + 1]
    BY <1>1, <1>3, <2>1, <2>3, <2>7 DEF Turned
  <2>9. PICK r : r = Turned(b, t)
    OBVIOUS
  <2>10. r.at = j /\ r.count = v /\ v \in 0 .. v
    BY <2>8, <2>9
  <2>11. Heads(b, off, j) = v /\ off <= j
    BY <1>1, <2>1, <2>3, <2>5, <2>6, <2>7
  <2>12. Passed(b, off, v, r)
    BY <2>3, <2>10, <2>11 DEF Passed
  <2>. QED
    BY <2>9, <2>12
<1>. QED
  BY <1>1, <1>2, <1>3

\* It counts the characters it passes, from an offset to an offset, and stops
\* when it has counted enough, or at the end.
LEMMA CountToSizeReaches ==
  ASSUME NEW b, Text(b), NEW off \in Offsets(b), NEW k \in Nat
  PROVE  Reached(b, off, k, CountToSize(b, off, k))
<1>1. b \in Seq(Byte) /\ Len(b) \in Nat /\ off \in Nat
  BY Ends, LenProperties DEF Text
<1>2. PICK F : /\ Turns(b, off, F, k)
               /\ CountToSize(b, off, k) = [size |-> F[k].at - off, count |-> F[k].count]
  BY CountToSizeIs
<1>3. PICK S : S = {u \in Nat : Passed(b, off, u, F[u])}
  OBVIOUS
<1>4. \A u \in 0 .. k : F[u] = IF u = 0 THEN [at |-> off, count |-> 0] ELSE Turned(b, F[u - 1])
  BY <1>2 DEF Turns
<1>5. 0 \in S
  <2>1. F[0] = [at |-> off, count |-> 0]
    BY <1>4
  <2>2. F[0].at = off /\ F[0].count = 0
    BY <2>1
  <2>3. Heads(b, off, off) = 0
    BY <1>1, HeadsNat
  <2>. QED
    BY <1>1, <1>3, <2>2, <2>3 DEF Passed
<1>6. ASSUME NEW u \in 0 .. k - 1, u \in S PROVE u + 1 \in S
  <2>1. PICK v, t : v = u + 1 /\ t = F[u]
    OBVIOUS
  <2>2. u \in Nat /\ v \in 0 .. k /\ v # 0 /\ v - 1 = u /\ v \in Nat
    BY <2>1
  <2>3. F[v] = Turned(b, t)
    BY <1>4, <2>1, <2>2
  <2>4. Passed(b, off, u, t)
    BY <1>3, <1>6, <2>1
  <2>5. Passed(b, off, v, Turned(b, t))
    BY <2>1, <2>2, <2>4, TurnPasses
  <2>. QED
    BY <1>3, <2>1, <2>2, <2>3, <2>5
<1>7. \A u \in 0 .. k : u \in S
  BY <1>5, <1>6, UpTo
<1>8. PICK t, r : t = F[k] /\ r = CountToSize(b, off, k)
  OBVIOUS
<1>9. Passed(b, off, k, t)
  BY <1>3, <1>7, <1>8
<1>10. /\ t.at \in Offsets(b) /\ off <= t.at
       /\ t.count = Heads(b, off, t.at) /\ t.count \in 0 .. k
       /\ t.count = k \/ t.at = Len(b)
  BY <1>9 DEF Passed
<1>11. t.at \in Nat
  BY <1>1, <1>10, Ends
<1>12. r.size = t.at - off /\ r.count = t.count
  BY <1>2, <1>8
<1>13. off + r.size = t.at /\ r.size \in Nat
  BY <1>1, <1>10, <1>11, <1>12
<1>14. Reached(b, off, k, r)
  BY <1>10, <1>12, <1>13 DEF Reached
<1>. QED
  BY <1>8, <1>14

\* sc_utf8_count_chars counts them all.
LEMMA CountCharsIs ==
  ASSUME NEW b, Text(b)
  PROVE  CountChars(b) = Chars(b)
<1>1. b \in Seq(Byte) /\ Whole(b) /\ Len(b) \in Nat
  BY LenProperties DEF Text
<1>2. PICK z, n, r : z = 0 /\ n = Len(b) /\ r = CountToSize(b, z, n)
  OBVIOUS
<1>3. z \in Offsets(b) /\ n \in Nat /\ z \in Nat
  BY <1>1, <1>2, Ends
<1>4. Reached(b, z, n, r)
  BY <1>2, <1>3, CountToSizeReaches
<1>5. /\ r.size \in Nat /\ z + r.size \in Offsets(b)
      /\ r.count = Heads(b, z, z + r.size)
      /\ r.count = n \/ z + r.size = n
  BY <1>2, <1>4 DEF Reached
<1>6. PICK e : e = z + r.size
  OBVIOUS
<1>7. e \in Nat /\ e <= n /\ z <= e
  BY <1>1, <1>2, <1>3, <1>5, <1>6, Ends
<1>8. Heads(b, z, e) <= e - z /\ Heads(b, z, e) \in Nat
  BY <1>3, <1>7, HeadsNat
<1>9. e = n
  BY <1>2, <1>3, <1>5, <1>6, <1>7, <1>8
<1>. QED
  BY <1>2, <1>5, <1>6, <1>9 DEF CountChars, Chars

----------------------------------------------------------------------------
(* Bytes moved within a buffer.                                            *)

\* A prefix is a part, and so is a suffix.
LEMMA PrefixIs ==
  ASSUME NEW b, NEW n
  PROVE  Prefix(b, n) = Cut(b, 0, n)
BY DEF Prefix, Cut

\* ... a suffix.
LEMMA SuffixIs ==
  ASSUME NEW b, NEW i
  PROVE  Suffix(b, i) = Cut(b, i, Len(b))
BY DEF Suffix, Cut

\* What is left of b without the bytes `to' + 1 to `from', up to the byte `end'.
Without(b, to, from, end) == Cut(b, 0, to) \o Cut(b, from, end)

\* memmove closes the gap.
LEMMA MemMoveCloses ==
  ASSUME NEW S, NEW b \in Seq(S), NEW to \in Nat, NEW from \in Nat, NEW n \in Nat,
         to <= from, from + n <= Len(b), NEW end, end = from + n, NEW m, m = to + n
  PROVE  Prefix(MemMove(b, to, from, n), m) = Without(b, to, from, end)
<1>1. Len(b) \in Nat /\ m \in Nat /\ end \in Nat /\ \A i \in 1 .. Len(b) : b[i] \in S
  BY LenProperties, ElementOfSeq
<1>2. PICK c : c = MemMove(b, to, from, n)
  OBVIOUS
<1>3. c = [i \in 1 .. Len(b) |-> IF i - 1 \in to .. to + n - 1 THEN b[i - to + from] ELSE b[i]]
  BY <1>2 DEF MemMove
<1>4. ASSUME NEW i \in 1 .. Len(b) PROVE c[i] \in S
  <2>1. CASE i - 1 \in to .. to + n - 1
    <3>1. i - to + from \in 1 .. Len(b) /\ c[i] = b[i - to + from]
      BY <1>1, <1>3, <2>1
    <3>. QED
      BY <1>1, <3>1
  <2>2. CASE i - 1 \notin to .. to + n - 1
    BY <1>1, <1>3, <2>2
  <2>. QED
    BY <2>1, <2>2
<1>5. c \in Seq(S) /\ Len(c) = Len(b)
  <2>1. c \in [1 .. Len(b) -> S]
    BY <1>3, <1>4
  <2>. QED
    BY <1>1, <1>3, <2>1
<1>6. PICK z, p, f, g : z = 0 /\ p = Cut(c, z, m) /\ f = Cut(b, z, to) /\ g = Cut(b, from, end)
  OBVIOUS
<1>7. z \in 0 .. Len(c) /\ m \in z .. Len(c) /\ z \in 0 .. Len(b) /\ to \in z .. Len(b)
      /\ from \in 0 .. Len(b) /\ end \in from .. Len(b)
  BY <1>1, <1>5, <1>6
<1>8. /\ Cut(c, z, m) \in Seq(S) /\ Len(Cut(c, z, m)) = m - z
      /\ \A k \in 1 .. m - z : Cut(c, z, m)[k] = c[z + k]
  BY <1>5, <1>7, CutIs
<1>9. /\ Cut(b, z, to) \in Seq(S) /\ Len(Cut(b, z, to)) = to - z
      /\ \A k \in 1 .. to - z : Cut(b, z, to)[k] = b[z + k]
  BY <1>7, CutIs
<1>10. /\ Cut(b, from, end) \in Seq(S) /\ Len(Cut(b, from, end)) = end - from
       /\ \A k \in 1 .. end - from : Cut(b, from, end)[k] = b[from + k]
  BY <1>7, CutIs
<1>11. p \in Seq(S) /\ Len(p) = m /\ \A k \in 1 .. m : p[k] = c[k]
  BY <1>1, <1>6, <1>8
<1>12. f \in Seq(S) /\ Len(f) = to /\ \A k \in 1 .. to : f[k] = b[k]
  BY <1>1, <1>6, <1>9
<1>13. g \in Seq(S) /\ Len(g) = n /\ \A k \in 1 .. n : g[k] = b[from + k]
  BY <1>1, <1>6, <1>10
<1>14. PICK h : h = f \o g
  OBVIOUS
<1>15. /\ h \in Seq(S) /\ Len(h) = to + n
       /\ \A k \in 1 .. to + n : h[k] = IF k <= to THEN f[k] ELSE g[k - to]
  BY <1>12, <1>13, <1>14, ConcatProperties
<1>16. ASSUME NEW k \in 1 .. m PROVE p[k] = h[k]
  <2>1. k \in 1 .. Len(b) /\ k \in 1 .. to + n
    BY <1>1
  <2>2. CASE k <= to
    <3>1. ~ (k - 1 \in to .. to + n - 1) /\ k \in 1 .. to
      BY <1>1, <2>2
    <3>2. c[k] = b[k]
      BY <1>3, <2>1, <3>1
    <3>. QED
      BY <1>11, <1>12, <1>15, <2>1, <2>2, <3>1, <3>2
  <2>3. CASE k > to
    <3>1. PICK l : l = k - to
      OBVIOUS
    <3>2. k - 1 \in to .. to + n - 1 /\ l \in 1 .. n /\ k - to + from = from + l /\ ~ (k <= to)
      BY <1>1, <2>3, <3>1
    <3>3. c[k] = b[from + l]
      BY <1>3, <2>1, <3>2
    <3>. QED
      BY <1>11, <1>13, <1>15, <2>1, <3>1, <3>2, <3>3
  <2>. QED
    BY <1>1, <2>2, <2>3
<1>17. p = h
  BY <1>11, <1>15, <1>16, SeqEqual
<1>18. Prefix(c, m) = Cut(c, z, m)
  BY <1>6, PrefixIs
<1>. QED
  BY <1>2, <1>6, <1>14, <1>17, <1>18 DEF Without

----------------------------------------------------------------------------
(* Strings whose cache is exact.                                           *)

Good(t) ==
  /\ t \in [bytes : Seq(Byte), cached : BOOLEAN, usize : Nat]
  /\ Whole(t.bytes)
  /\ t.cached => t.usize = Chars(t.bytes)
  /\ t.usize <= MaxLen \/ t.usize <= Len(t.bytes)

\* The string t is good, and the count behind its flag fits into any string.
Kept(t) == Good(t) /\ t.usize <= MaxLen

\* A call leaves r, a good string, with the bytes b.
Left(r, b) == Good(r) /\ r.bytes = b

\* What there is to know of a good string.
LEMMA GoodText ==
  ASSUME NEW t, Good(t)
  PROVE  /\ Text(t.bytes) /\ t.bytes \in Seq(Byte) /\ Len(t.bytes) \in Nat
         /\ t.cached \in BOOLEAN /\ t.usize \in Nat
         /\ t.cached => t.usize = Chars(t.bytes)
         /\ Chars(t.bytes) \in Nat /\ Chars(t.bytes) <= Len(t.bytes)
<1>1. t.bytes \in Seq(Byte) /\ Whole(t.bytes) /\ t.cached \in BOOLEAN /\ t.usize \in Nat
  BY DEF Good
<1>2. PICK b, z, n : b = t.bytes /\ z = 0 /\ n = Len(b)
  OBVIOUS
<1>3. n \in Nat /\ z \in Nat /\ z <= n
  BY <1>1, <1>2, LenProperties
<1>4. Heads(b, z, n) \in Nat /\ Heads(b, z, n) <= n - z
  BY <1>3, HeadsNat
<1>. QED
  BY <1>1, <1>2, <1>3, <1>4 DEF Good, Text, Chars

\* No more characters than bytes.
LEMMA CharsNat ==
  ASSUME NEW b, Text(b)
  PROVE  b \in Seq(Byte) /\ Len(b) \in Nat /\ Chars(b) \in Nat /\ Chars(b) <= Len(b)
<1>1. PICK z, n : z = 0 /\ n = Len(b)
  OBVIOUS
<1>2. b \in Seq(Byte) /\ n \in Nat /\ z \in Nat /\ z <= n
  BY <1>1, LenProperties DEF Text
<1>3. Heads(b, z, n) \in Nat /\ Heads(b, z, n) <= n - z
  BY <1>2, HeadsNat
<1>. QED
  BY <1>1, <1>2, <1>3 DEF Chars

\* The bytes are others, and the cache is dropped.
LEMMA LeftUncached ==
  ASSUME NEW t, NEW b, Good(t), Text(b), t.usize <= MaxLen \/ Len(t.bytes) <= Len(b)
  PROVE  Left(Uncached(Sized(t, b)), b)
<1>1. t \in [bytes : Seq(Byte), cached : BOOLEAN, usize : Nat]
  BY DEF Good
<1>2. PICK r : r = Uncached(Sized(t, b))
  OBVIOUS
<1>3. b \in Seq(Byte) /\ Whole(b)
  BY DEF Text
<1>4. r \in [bytes : Seq(Byte), cached : BOOLEAN, usize : Nat]
      /\ r.bytes = b /\ r.cached = FALSE /\ r.usize = t.usize
  BY <1>1, <1>2, <1>3 DEF Uncached, Sized
<1>5. t.usize <= MaxLen \/ t.usize <= Len(b)
  BY GoodText, CharsNat, SStringAssumption DEF Good
<1>. QED
  BY <1>2, <1>3, <1>4, <1>5 DEF Left, Good

\* ... or the cache is set, if it is in use.
LEMMA LeftCounted ==
  ASSUME NEW t, NEW b, NEW k \in Nat, Good(t), Text(b), t.cached => k = Chars(b),
         t.cached \/ t.usize <= MaxLen \/ Len(t.bytes) <= Len(b)
  PROVE  Left(Counted(Sized(t, b), k), b)
<1>1. t \in [bytes : Seq(Byte), cached : BOOLEAN, usize : Nat]
  BY DEF Good
<1>2. PICK r : r = Counted(Sized(t, b), k)
  OBVIOUS
<1>3. b \in Seq(Byte) /\ Whole(b) /\ Chars(b) <= Len(b)
  BY CharsNat DEF Text
<1>4. PICK u : u = Sized(t, b)
  OBVIOUS
<1>5. u \in [bytes : Seq(Byte), cached : BOOLEAN, usize : Nat]
      /\ u.bytes = b /\ u.cached = t.cached /\ u.usize = t.usize
  BY <1>1, <1>3, <1>4 DEF Sized
<1>6. CASE t.cached
  <2>1. r = [u EXCEPT !.usize = k]
    BY <1>2, <1>4, <1>5, <1>6 DEF Counted
  <2>2. r \in [bytes : Seq(Byte), cached : BOOLEAN, usize : Nat]
        /\ r.bytes = b /\ r.usize = k
    BY <1>5, <2>1
  <2>. QED
    BY <1>2, <1>3, <1>6, <2>2 DEF Left, Good
<1>7. CASE ~ t.cached
  <2>1. r = u
    BY <1>2, <1>4, <1>5, <1>7 DEF Counted
  <2>2. t.usize <= MaxLen \/ t.usize <= Len(b)
    BY <1>7, GoodText, CharsNat, SStringAssumption DEF Good
  <2>. QED
    BY <1>2, <1>3, <1>5, <1>7, <2>1, <2>2 DEF Left, Good
<1>. QED
  BY <1>6, <1>7

\* ss_reset.
LEMMA LeftCleared == Left(Cleared, << >>) /\ Kept(Cleared)
<1>1. PICK b, r : b = << >> /\ r = Cleared
  OBVIOUS
<1>2. r = [bytes |-> b, cached |-> TRUE, usize |-> 0] /\ Text(b) /\ Chars(b) = 0
  BY <1>1, NoText DEF Cleared
<1>3. b \in Seq(Byte) /\ Whole(b)
  BY <1>2 DEF Text
<1>4. r \in [bytes : Seq(Byte), cached : BOOLEAN, usize : Nat] /\ r.bytes = b /\ r.usize = 0
  BY <1>2, <1>3
<1>5. MaxLen >= 0
  BY SStringAssumption
<1>. QED
  BY <1>1, <1>2, <1>3, <1>4, <1>5 DEF Left, Good, Kept

\* ss_cat_cn_raw adds the bytes, and their characters if it is told how many.
LEMMA CatRaw ==
  ASSUME NEW t, NEW b, NEW k \in Nat, Good(t), Text(b), k = 0 \/ k = Chars(b)
  PROVE  Left(ss_cat_cn_raw(t, b, k), t.bytes \o b)
<1>1. PICK c : c = t.bytes \o b
  OBVIOUS
<1>2. Text(t.bytes) /\ t.usize \in Nat /\ (t.cached => t.usize = Chars(t.bytes))
      /\ t.bytes \in Seq(Byte) /\ Len(t.bytes) \in Nat /\ b \in Seq(Byte) /\ Len(b) \in Nat
  BY GoodText, CharsNat
<1>3. Text(c) /\ Len(c) = Len(t.bytes) + Len(b) /\ Chars(c) = Chars(t.bytes) + Chars(b)
  BY <1>1, <1>2, JoinText
<1>4. Len(t.bytes) <= Len(c)
  BY <1>2, <1>3
<1>5. CASE b = << >>
  <2>1. ss_cat_cn_raw(t, b, k) = t /\ c = t.bytes
    BY <1>1, <1>2, <1>5, ConcatEmptySeq DEF ss_cat_cn_raw
  <2>. QED
    BY <1>1, <2>1 DEF Left
<1>6. CASE b # << >> /\ k > 0
  <2>1. PICK n : n = t.usize + k
    OBVIOUS
  <2>2. n \in Nat /\ (t.cached => n = Chars(c))
    BY <1>2, <1>3, <1>6, <2>1
  <2>3. Left(Counted(Sized(t, c), n), c)
    BY <1>3, <1>4, <2>2, LeftCounted
  <2>. QED
    BY <1>1, <1>6, <2>1, <2>3 DEF ss_cat_cn_raw
<1>7. CASE b # << >> /\ ~ (k > 0)
  <2>1. Left(Uncached(Sized(t, c)), c)
    BY <1>3, <1>4, LeftUncached
  <2>. QED
    BY <1>1, <1>7, <2>1 DEF ss_cat_cn_raw
<1>. QED
  BY <1>5, <1>6, <1>7

----------------------------------------------------------------------------
(* What each call leaves: by byte offsets.                                 *)

\* Where n bytes from `off' on end, or the string does.
Stop(b, off, n) == IF off + n > Len(b) THEN Len(b) ELSE off + n

\* The lengths the client may give end at an offset.
LEMMA StopOffset ==
  ASSUME NEW b, Text(b), NEW off \in Offsets(b), NEW n \in Lengths(b, off)
  PROVE  /\ Stop(b, off, n) \in Offsets(b)
         /\ off \in Nat /\ n \in Nat /\ Len(b) \in Nat /\ off <= Len(b)
         /\ Stop(b, off, n) \in Nat /\ off <= Stop(b, off, n) /\ Stop(b, off, n) <= Len(b)
<1>1. b \in Seq(Byte) /\ Whole(b) /\ Len(b) \in Nat
  BY LenProperties DEF Text
<1>2. off \in Nat /\ off <= Len(b) /\ Len(b) \in Offsets(b)
  BY <1>1, Ends
<1>3. n \in Nat /\ (off + n > Len(b) \/ off + n \in Offsets(b))
  BY SStringAssumption DEF Lengths
<1>. QED
  BY <1>1, <1>2, <1>3 DEF Stop

\* What is left without a part from an offset to an offset is a text.
LEMMA WithoutText ==
  ASSUME NEW b, Text(b), NEW i \in Offsets(b), NEW j \in Offsets(b), NEW k \in Offsets(b),
         i <= j, j <= k
  PROVE  /\ Text(Without(b, i, j, k))
         /\ Len(Without(b, i, j, k)) = i + (k - j)
         /\ Chars(Without(b, i, j, k)) = Heads(b, 0, i) + Heads(b, j, k)
<1>1. b \in Seq(Byte) /\ Whole(b)
  BY DEF Text
<1>2. PICK z : z = 0
  OBVIOUS
<1>3. z \in Offsets(b) /\ i \in Nat /\ z <= i
  BY <1>1, <1>2, Ends
<1>4. PICK f, g : f = Cut(b, z, i) /\ g = Cut(b, j, k)
  OBVIOUS
<1>5. Text(f) /\ Len(f) = i - z /\ Chars(f) = Heads(b, z, i)
  BY <1>3, <1>4, CutText
<1>6. Text(g) /\ Len(g) = k - j /\ Chars(g) = Heads(b, j, k)
  BY <1>4, CutText
<1>7. Text(f \o g) /\ Len(f \o g) = Len(f) + Len(g) /\ Chars(f \o g) = Chars(f) + Chars(g)
  BY <1>5, <1>6, JoinText
<1>. QED
  BY <1>2, <1>3, <1>4, <1>5, <1>6, <1>7 DEF Without

\* The length of a part.
LEMMA CutLen ==
  ASSUME NEW b, Text(b), NEW i \in Offsets(b), NEW j \in Offsets(b), i <= j
  PROVE  Text(Cut(b, i, j)) /\ Len(Cut(b, i, j)) = j - i
BY CutText

\* ss_substr: the bytes between.
LEMMA SubstrInPlaceLeaves ==
  ASSUME NEW t, Kept(t), NEW off \in Offsets(t.bytes), NEW n \in Lengths(t.bytes, off)
  PROVE  Left(SubstrInPlace(t, off, n), Cut(t.bytes, off, Stop(t.bytes, off, n)))
<1>1. PICK b, e : b = t.bytes /\ e = Stop(b, off, n)
  OBVIOUS
<1>2. Good(t) /\ t.usize <= MaxLen /\ Text(b) /\ b \in Seq(Byte)
  BY <1>1, GoodText DEF Kept
<1>3. /\ e \in Offsets(b) /\ off \in Offsets(b) /\ off \in Nat /\ n \in Nat /\ Len(b) \in Nat /\ off <= Len(b)
      /\ e \in Nat /\ off <= e /\ e <= Len(b)
  BY <1>1, <1>2, StopOffset
<1>4. CASE n = 0 \/ off >= Len(b)
  <2>1. e = off
    BY <1>1, <1>3, <1>4 DEF Stop
  <2>2. Cut(b, off, off) = << >>
    BY <1>2, <1>3, CutNone
  <2>3. SubstrInPlace(t, off, n) = Cleared
    BY <1>1, <1>4 DEF SubstrInPlace
  <2>. QED
    BY <1>1, <2>1, <2>2, <2>3, LeftCleared
<1>5. CASE ~ (n = 0 \/ off >= Len(b))
  <2>1. PICK z, m : z = 0 /\ m = Min2(Len(b) - off, n)
    OBVIOUS
  <2>2. z \in Nat /\ m \in Nat /\ z <= off /\ off + m <= Len(b) /\ e = off + m /\ m = z + m
    BY <1>1, <1>3, <1>5, <2>1 DEF Min2, Stop
  <2>3. Prefix(MemMove(b, z, off, m), m) = Without(b, z, off, e)
    BY <1>2, <1>3, <2>2, MemMoveCloses
  <2>4. PICK c : c = Cut(b, off, e)
    OBVIOUS
  <2>5. Text(c)
    BY <1>2, <1>3, <2>4, CutLen
  <2>6. Without(b, z, off, e) = c
    <3>1. Cut(b, z, z) = << >>
      BY <1>2, <2>2, CutNone
    <3>2. c \in Seq(Byte)
      BY <2>5 DEF Text
    <3>3. << >> \o c = c
      BY <3>2, ConcatEmptySeq
    <3>. QED
      BY <2>1, <2>4, <3>1, <3>3 DEF Without
  <2>7. Left(Uncached(Sized(t, c)), c)
    BY <1>2, <2>5, LeftUncached
  <2>8. SubstrInPlace(t, off, n) = Uncached(Sized(t, c))
    BY <1>1, <1>5, <2>1, <2>3, <2>6 DEF SubstrInPlace
  <2>. QED
    BY <1>1, <2>4, <2>7, <2>8
<1>. QED
  BY <1>4, <1>5

\* ss_cat_substr, and ss_cpy_substr to another string.
LEMMA SubstrLeaves ==
  ASSUME NEW t, Good(t), NEW x, Good(x),
         NEW off \in Offsets(x.bytes), NEW n \in Lengths(x.bytes, off)
  PROVE  Left(ss_cat_substr(t, x, off, n),
              t.bytes \o Cut(x.bytes, off, Stop(x.bytes, off, n)))
<1>1. PICK b, e, z : b = x.bytes /\ e = Stop(b, off, n) /\ z = 0
  OBVIOUS
<1>2. Text(b) /\ b \in Seq(Byte) /\ t.bytes \in Seq(Byte) /\ z \in Nat
  BY <1>1, GoodText
<1>3. /\ e \in Offsets(b) /\ off \in Offsets(b) /\ off \in Nat /\ n \in Nat /\ Len(b) \in Nat /\ off <= Len(b)
      /\ e \in Nat /\ off <= e /\ e <= Len(b)
  BY <1>1, <1>2, StopOffset
<1>4. CASE n = 0 \/ off >= Len(b)
  <2>1. e = off
    BY <1>1, <1>3, <1>4 DEF Stop
  <2>2. Cut(b, off, off) = << >>
    BY <1>2, <1>3, CutNone
  <2>3. t.bytes \o << >> = t.bytes
    BY <1>2, ConcatEmptySeq
  <2>4. ss_cat_substr(t, x, off, n) = t
    BY <1>1, <1>4 DEF ss_cat_substr
  <2>. QED
    BY <1>1, <2>1, <2>2, <2>3, <2>4 DEF Left
<1>5. CASE ~ (n = 0 \/ off >= Len(b))
  <2>1. PICK c : c = Cut(b, off, e)
    OBVIOUS
  <2>2. Text(c)
    BY <1>2, <1>3, <2>1, CutLen
  <2>3. Min2(off + n, Len(b)) = e
    BY <1>1, <1>3 DEF Min2, Stop
  <2>4. ss_cat_substr(t, x, off, n) = ss_cat_cn_raw(t, c, z)
    BY <1>1, <1>5, <2>1, <2>3 DEF ss_cat_substr, Cut
  <2>5. Left(ss_cat_cn_raw(t, c, z), t.bytes \o c)
    BY <1>1, <1>2, <2>2, CatRaw
  <2>. QED
    BY <1>1, <2>1, <2>4, <2>5
<1>. QED
  BY <1>4, <1>5

\* ss_erase: what is before and after.
LEMMA EraseInPlaceLeaves ==
  ASSUME NEW t, Kept(t), NEW off \in Offsets(t.bytes), NEW n \in Lengths(t.bytes, off)
  PROVE  Left(aux_erase(t, t, TRUE, FALSE, off, n),
              Without(t.bytes, off, Stop(t.bytes, off, n), Len(t.bytes)))
<1>1. PICK b, e, d, z : b = t.bytes /\ e = Stop(b, off, n) /\ d = Len(b) /\ z = 0
  OBVIOUS
<1>2. Good(t) /\ t.usize <= MaxLen /\ Text(b) /\ b \in Seq(Byte) /\ Whole(b)
  BY <1>1, GoodText DEF Kept, Text
<1>3. /\ e \in Offsets(b) /\ off \in Offsets(b) /\ off \in Nat /\ n \in Nat /\ d \in Nat /\ off <= d
      /\ e \in Nat /\ off <= e /\ e <= d
  BY <1>1, <1>2, StopOffset
<1>4. d \in Offsets(b) /\ z \in Offsets(b) /\ z \in Nat
  BY <1>1, <1>2, Ends
<1>5. PICK c : c = Without(b, off, e, d)
  OBVIOUS
<1>6. Text(c)
  BY <1>2, <1>3, <1>4, <1>5, WithoutText
<1>7. Left(Uncached(Sized(t, c)), c)
  BY <1>2, <1>6, LeftUncached
<1>8. CASE off + n >= d
  <2>1. e = d
    BY <1>1, <1>3, <1>8 DEF Stop
  <2>2. Cut(b, d, d) = << >>
    BY <1>2, <1>3, CutNone
  <2>3. Text(Cut(b, z, off))
    BY <1>1, <1>2, <1>3, <1>4, CutLen
  <2>4. Cut(b, z, off) \o << >> = Cut(b, z, off)
    BY <2>3, ConcatEmptySeq DEF Text
  <2>5. c = Cut(b, z, off)
    BY <1>1, <1>5, <2>1, <2>2, <2>4 DEF Without
  <2>6. Prefix(b, off) = c
    BY <1>1, <2>5, PrefixIs
  <2>7. aux_erase(t, t, TRUE, FALSE, off, n) = Uncached(Sized(t, c))
    BY <1>1, <1>8, <2>6 DEF aux_erase
  <2>. QED
    BY <1>1, <1>5, <1>7, <2>7
<1>9. CASE ~ (off + n >= d)
  <2>1. PICK m, from, p : m = d - off - n /\ from = off + n /\ p = d - n
    OBVIOUS
  <2>2. /\ m \in Nat /\ from \in Nat /\ off <= from /\ from + m <= Len(b) /\ d = from + m
        /\ p = off + m /\ e = from
    <3>1. ~ (off + n > Len(b)) /\ e = off + n
      BY <1>1, <1>3, <1>9 DEF Stop
    <3>2. /\ m \in Nat /\ from \in Nat /\ off <= from /\ from + m = d
          /\ p = off + m
      BY <1>3, <1>9, <2>1
    <3>3. d = Len(b) /\ e = from
      BY <1>1, <2>1, <3>1
    <3>4. from + m <= d
      BY <1>3, <3>2
    <3>. QED
      BY <3>2, <3>3, <3>4
  <2>3. Prefix(MemMove(b, off, from, m), p) = Without(b, off, from, d)
    BY <1>2, <1>3, <2>2, MemMoveCloses
  <2>4. ~ (off + n > d)
    BY <1>3, <1>9
  <2>5. aux_erase(t, t, TRUE, FALSE, off, n) = Uncached(Sized(t, c))
    BY <1>1, <1>5, <1>9, <2>1, <2>2, <2>3, <2>4 DEF aux_erase
  <2>. QED
    BY <1>1, <1>5, <1>7, <2>5
<1>. QED
  BY <1>8, <1>9

\* The bytes a call begins with: those of the target, or none.
LEMMA AtText ==
  ASSUME NEW t, Good(t), NEW cat \in BOOLEAN
  PROVE  /\ Text(At(t, cat)) /\ At(t, cat) \in Seq(Byte) /\ Len(At(t, cat)) \in Nat
         /\ cat => At(t, cat) = t.bytes
         /\ ~ cat => At(t, cat) = << >>
<1>1. Text(t.bytes)
  BY GoodText
<1>2. Text(At(t, cat))
  BY <1>1, NoText DEF At
<1>. QED
  BY <1>2, CharsNat DEF At

\* ss_cat_erase, and ss_cpy_erase to another string.
LEMMA EraseLeaves ==
  ASSUME NEW t, Kept(t), NEW x, Good(x), NEW cat \in BOOLEAN,
         NEW off \in Offsets(x.bytes), NEW n \in Lengths(x.bytes, off)
  PROVE  Left(aux_erase(t, x, FALSE, cat, off, n),
              At(t, cat) \o Without(x.bytes, off, Stop(x.bytes, off, n), Len(x.bytes)))
<1>1. PICK b, e, d, z, a : b = x.bytes /\ e = Stop(b, off, n) /\ d = Len(b) /\ z = 0
                           /\ a = At(t, cat)
  OBVIOUS
<1>2. Good(t) /\ t.usize <= MaxLen /\ Text(b) /\ b \in Seq(Byte) /\ Whole(b)
  BY <1>1, GoodText DEF Kept, Text
<1>3. /\ e \in Offsets(b) /\ off \in Offsets(b) /\ off \in Nat /\ n \in Nat /\ d \in Nat /\ off <= d
      /\ e \in Nat /\ off <= e /\ e <= d
  BY <1>1, <1>2, StopOffset
<1>4. d \in Offsets(b) /\ z \in Offsets(b) /\ z \in Nat
  BY <1>1, <1>2, Ends
<1>5. PICK f, g, c : f = Cut(b, z, off) /\ g = Cut(b, e, d) /\ c = Without(b, off, e, d)
  OBVIOUS
<1>6. Text(f) /\ Text(g) /\ Text(c) /\ Text(a)
  <2>1. z <= off
    BY <1>1, <1>3
  <2>. QED
    BY <1>1, <1>2, <1>3, <1>4, <1>5, <2>1, WithoutText, CutLen, AtText
<1>7. f \in Seq(Byte) /\ g \in Seq(Byte) /\ a \in Seq(Byte)
  BY <1>6, CharsNat
<1>8. c = f \o g
  BY <1>1, <1>5 DEF Without
<1>9. PICK r : r = a \o c
  OBVIOUS
<1>10. r = (a \o f) \o g
  <2>1. (a \o f) \o g = a \o (f \o g)
    BY <1>7, ConcatAssociative
  <2>. QED
    BY <1>8, <1>9, <2>1
<1>11. Text(r)
  BY <1>6, <1>9, JoinText
<1>12. Left(Uncached(Sized(t, r)), r)
  BY <1>2, <1>11, LeftUncached
<1>13. Prefix(b, off) = f
  BY <1>1, <1>5, PrefixIs
<1>14. SubSeq(b, off + n + 1, off + n + (IF off + n > d THEN 0 ELSE d - off - n)) = g
  <2>1. CASE off + n > d
    <3>1. PICK u, v : u = off + n + 1 /\ v = off + n + 0
      OBVIOUS
    <3>2. u \in Int /\ v \in Int /\ v < u
      BY <1>3, <3>1
    <3>3. SubSeq(b, u, v) = << >>
      BY <3>2, SubSeqEmpty
    <3>4. e = d
      BY <1>1, <2>1 DEF Stop
    <3>5. g = << >>
      BY <1>2, <1>3, <1>5, <3>4, CutNone
    <3>. QED
      BY <2>1, <3>1, <3>3, <3>5
  <2>2. CASE ~ (off + n > d)
    <3>1. e = off + n
      BY <1>1, <2>2 DEF Stop
    <3>2. off + n + (d - off - n) = d
      BY <1>3
    <3>. QED
      BY <1>5, <2>2, <3>1, <3>2 DEF Cut
  <2>. QED
    BY <2>1, <2>2
<1>15. aux_erase(t, x, FALSE, cat, off, n) = Uncached(Sized(t, r))
  BY <1>1, <1>10, <1>13, <1>14 DEF aux_erase
<1>. QED
  BY <1>1, <1>5, <1>9, <1>12, <1>15

----------------------------------------------------------------------------
(* What each call leaves: by characters.                                   *)

\* The offset of character k, and of the end of the n characters from there on.
UOff(b, k) == CountToSize(b, 0, k).size
UPart(b, k, n) == CountToSize(b, UOff(b, k), n)
UStop(b, k, n) == UOff(b, k) + UPart(b, k, n).size

\* Characters begin at offsets ...
LEMMA UOffOffset ==
  ASSUME NEW b, Text(b), NEW k \in Nat
  PROVE  /\ UOff(b, k) \in Offsets(b) /\ UOff(b, k) \in Nat /\ UOff(b, k) <= Len(b)
         /\ CountToSize(b, 0, k).count = Heads(b, 0, UOff(b, k))
         /\ Heads(b, 0, UOff(b, k)) = k \/ UOff(b, k) = Len(b)
         /\ Heads(b, 0, UOff(b, k)) \in 0 .. k
<1>1. b \in Seq(Byte) /\ Whole(b) /\ Len(b) \in Nat
  BY LenProperties DEF Text
<1>2. PICK z, r : z = 0 /\ r = CountToSize(b, z, k)
  OBVIOUS
<1>3. z \in Offsets(b)
  BY <1>1, <1>2, Ends
<1>4. Reached(b, z, k, r)
  BY <1>2, <1>3, CountToSizeReaches
<1>5. PICK e : e = z + r.size
  OBVIOUS
<1>6. /\ r.size \in Nat /\ e \in Offsets(b)
      /\ r.count = Heads(b, z, e) /\ r.count \in 0 .. k
      /\ r.count = k \/ e = Len(b)
  BY <1>4, <1>5 DEF Reached
<1>7. e = r.size /\ e \in Nat
  BY <1>2, <1>5, <1>6
<1>8. e <= Len(b)
  BY <1>1, <1>6, Ends
<1>9. UOff(b, k) = e
  BY <1>2, <1>7 DEF UOff
<1>. QED
  BY <1>2, <1>6, <1>7, <1>8, <1>9

\* ... and end there.
LEMMA UStopOffset ==
  ASSUME NEW b, Text(b), NEW k \in Nat, NEW n \in Nat
  PROVE  /\ UStop(b, k, n) \in Offsets(b) /\ UStop(b, k, n) \in Nat
         /\ UOff(b, k) <= UStop(b, k, n) /\ UStop(b, k, n) <= Len(b)
         /\ UPart(b, k, n).size \in Nat
         /\ UPart(b, k, n).count = Heads(b, UOff(b, k), UStop(b, k, n))
         /\ UPart(b, k, n).count \in 0 .. n
         /\ UPart(b, k, n).count = n \/ UStop(b, k, n) = Len(b)
<1>1. b \in Seq(Byte) /\ Whole(b) /\ Len(b) \in Nat
  BY LenProperties DEF Text
<1>2. PICK o, r : o = UOff(b, k) /\ r = CountToSize(b, o, n)
  OBVIOUS
<1>3. o \in Offsets(b) /\ o \in Nat
  BY <1>2, UOffOffset
<1>4. Reached(b, o, n, r)
  BY <1>2, <1>3, CountToSizeReaches
<1>5. PICK e : e = o + r.size
  OBVIOUS
<1>6. /\ r.size \in Nat /\ e \in Offsets(b)
      /\ r.count = Heads(b, o, e) /\ r.count \in 0 .. n
      /\ r.count = n \/ e = Len(b)
  BY <1>4, <1>5 DEF Reached
<1>7. o <= e /\ e \in Nat
  BY <1>3, <1>5, <1>6
<1>8. e <= Len(b)
  BY <1>1, <1>6, Ends
<1>9. UPart(b, k, n) = r /\ UStop(b, k, n) = e
  BY <1>2, <1>5 DEF UPart, UStop
<1>. QED
  BY <1>2, <1>6, <1>7, <1>8, <1>9

\* ss_substr_u.
LEMMA SubstrUInPlaceLeaves ==
  ASSUME NEW t, Kept(t), NEW k \in Nat, NEW n \in Nat
  PROVE  Left(SubstrUInPlace(t, k, n),
              Cut(t.bytes, UOff(t.bytes, k), UStop(t.bytes, k, n)))
<1>1. PICK b, o, e, p, z : /\ b = t.bytes /\ o = UOff(b, k) /\ e = UStop(b, k, n)
                           /\ p = UPart(b, k, n) /\ z = 0
  OBVIOUS
<1>2. Good(t) /\ t.usize <= MaxLen /\ Text(b) /\ b \in Seq(Byte)
  BY <1>1, GoodText DEF Kept
<1>3. /\ o \in Offsets(b) /\ e \in Offsets(b) /\ o \in Nat /\ e \in Nat /\ o <= e
      /\ e <= Len(b) /\ p.size \in Nat /\ p.count = Heads(b, o, e) /\ p.count \in 0 .. n
      /\ Len(b) \in Nat
  BY <1>1, <1>2, UOffOffset, UStopOffset, LenProperties
<1>4. e = o + p.size
  BY <1>1 DEF UStop
<1>5. PICK c : c = Cut(b, o, e)
  OBVIOUS
<1>6. Text(c) /\ Chars(c) = p.count /\ Len(c) = e - o
  BY <1>2, <1>3, <1>5, CutText
<1>7. CASE n = 0 \/ o >= Len(b)
  <2>1. Len(c) = 0
    <3>1. CASE o >= Len(b)
      BY <1>3, <1>6, <3>1
    <3>2. CASE n = 0
      <4>1. CountToSize(b, o, 0).size = 0
        <5>1. PICK m : m = 0
          OBVIOUS
        <5>2. PICK F : /\ Turns(b, o, F, m)
                       /\ CountToSize(b, o, m) = [size |-> F[m].at - o, count |-> F[m].count]
          <6>1. m \in Nat
            BY <5>1
          <6>. QED
            BY <6>1, CountToSizeIs
        <5>3. F[m] = [at |-> o, count |-> 0]
          BY <5>1, <5>2 DEF Turns
        <5>4. CountToSize(b, o, m).size = o - o
          BY <5>2, <5>3
        <5>. QED
          BY <1>3, <5>1, <5>4
      <4>2. p.size = 0
        BY <1>1, <3>2, <4>1 DEF UPart
      <4>. QED
        BY <1>3, <1>4, <1>6, <4>2
    <3>. QED
      BY <1>7, <3>1, <3>2
  <2>2. c = << >>
    BY <1>6, <2>1, EmptySeq DEF Text
  <2>3. SubstrUInPlace(t, k, n) = Cleared
    BY <1>1, <1>7 DEF SubstrUInPlace, UOff
  <2>. QED
    BY <1>1, <1>5, <2>2, <2>3, LeftCleared
<1>8. CASE ~ (n = 0 \/ o >= Len(b))
  <2>1. PICK m : m = p.size
    OBVIOUS
  <2>2. m \in Nat /\ z \in Nat /\ z <= o /\ o + m <= Len(b) /\ e = o + m /\ m = z + m
    BY <1>1, <1>3, <1>4, <2>1
  <2>3. Prefix(MemMove(b, z, o, m), m) = Without(b, z, o, e)
    BY <1>2, <1>3, <2>2, MemMoveCloses
  <2>4. Without(b, z, o, e) = c
    <3>1. Cut(b, z, z) = << >>
      BY <1>2, <2>2, CutNone
    <3>2. << >> \o c = c
      BY <1>6, ConcatEmptySeq DEF Text
    <3>. QED
      BY <1>1, <1>5, <3>1, <3>2 DEF Without
  <2>5. PICK r : r = SubstrUInPlace(t, k, n)
    OBVIOUS
  <2>6. r = IF p.count = n THEN [Sized(t, c) EXCEPT !.cached = TRUE, !.usize = n]
            ELSE Uncached(Sized(t, c))
    BY <1>1, <1>8, <2>1, <2>3, <2>4, <2>5 DEF SubstrUInPlace, UOff, UPart
  <2>7. Left(Uncached(Sized(t, c)), c)
    BY <1>2, <1>6, LeftUncached
  <2>8. ASSUME p.count = n PROVE Left(r, c)
    <3>1. c \in Seq(Byte) /\ Whole(c) /\ Chars(c) <= Len(c)
      BY <1>6, CharsNat DEF Text
    <3>2. t \in [bytes : Seq(Byte), cached : BOOLEAN, usize : Nat]
      BY <1>2 DEF Good
    <3>3. PICK u : u = Sized(t, c)
      OBVIOUS
    <3>4. u \in [bytes : Seq(Byte), cached : BOOLEAN, usize : Nat] /\ u.bytes = c
      BY <3>1, <3>2, <3>3 DEF Sized
    <3>5. r = [u EXCEPT !.cached = TRUE, !.usize = n]
      BY <2>6, <2>8, <3>3
    <3>6. r \in [bytes : Seq(Byte), cached : BOOLEAN, usize : Nat]
          /\ r.bytes = c /\ r.usize = n
      BY <3>4, <3>5
    <3>. QED
      BY <1>6, <2>8, <3>1, <3>6 DEF Left, Good
  <2>9. Left(r, c)
    BY <2>6, <2>7, <2>8
  <2>. QED
    BY <1>1, <1>5, <2>5, <2>9
<1>. QED
  BY <1>7, <1>8

\* ss_cat_substr_u, and ss_cpy_substr_u to another string.
LEMMA SubstrULeaves ==
  ASSUME NEW t, Good(t), NEW x, Good(x), NEW k \in Nat, NEW n \in Nat
  PROVE  Left(ss_cat_substr_u(t, x, k, n),
              t.bytes \o Cut(x.bytes, UOff(x.bytes, k), UStop(x.bytes, k, n)))
<1>1. PICK b, o, e, p : /\ b = x.bytes /\ o = UOff(b, k) /\ e = UStop(b, k, n)
                        /\ p = UPart(b, k, n)
  OBVIOUS
<1>2. Text(b) /\ b \in Seq(Byte) /\ t.bytes \in Seq(Byte)
  BY <1>1, GoodText
<1>3. /\ o \in Offsets(b) /\ e \in Offsets(b) /\ o \in Nat /\ e \in Nat /\ o <= e
      /\ e <= Len(b) /\ p.count = Heads(b, o, e) /\ p.count \in 0 .. n
      /\ Len(b) \in Nat
  BY <1>1, <1>2, UOffOffset, UStopOffset, LenProperties
<1>4. e = o + p.size
  BY <1>1 DEF UStop
<1>5. PICK c, m : c = Cut(b, o, e) /\ m = p.count
  OBVIOUS
<1>6. Text(c) /\ Chars(c) = m
  BY <1>2, <1>3, <1>5, CutText
<1>7. CASE o >= Len(b)
  <2>1. o = e
    BY <1>3, <1>7
  <2>2. c = << >>
    BY <1>2, <1>3, <1>5, <2>1, CutNone
  <2>3. t.bytes \o << >> = t.bytes
    BY <1>2, ConcatEmptySeq
  <2>4. ss_cat_substr_u(t, x, k, n) = t
    BY <1>1, <1>7 DEF ss_cat_substr_u, UOff
  <2>. QED
    BY <1>1, <1>5, <2>2, <2>3, <2>4 DEF Left
<1>8. CASE ~ (o >= Len(b))
  <2>1. ss_cat_substr_u(t, x, k, n) = ss_cat_cn_raw(t, c, m)
    BY <1>1, <1>4, <1>5, <1>8 DEF ss_cat_substr_u, UOff, UPart, Cut
  <2>2. m \in Nat
    BY <1>3, <1>5
  <2>3. Left(ss_cat_cn_raw(t, c, m), t.bytes \o c)
    BY <1>6, <2>2, CatRaw
  <2>. QED
    BY <1>1, <1>5, <2>1, <2>3
<1>. QED
  BY <1>7, <1>8

\* ss_erase_u.
LEMMA EraseUInPlaceLeaves ==
  ASSUME NEW t, Kept(t), NEW k \in Nat, NEW n \in Nat
  PROVE  Left(aux_erase_u(t, t, TRUE, FALSE, k, n),
              Without(t.bytes, UOff(t.bytes, k), UStop(t.bytes, k, n), Len(t.bytes)))
<1>1. PICK b, o, e, p, z, d : /\ b = t.bytes /\ o = UOff(b, k) /\ e = UStop(b, k, n)
                              /\ p = UPart(b, k, n) /\ z = 0 /\ d = Len(b)
  OBVIOUS
<1>2. /\ Good(t) /\ t.usize <= MaxLen /\ Text(b) /\ b \in Seq(Byte) /\ t.usize \in Nat /\ Whole(b)
      /\ t.cached => t.usize = Chars(b)
  BY <1>1, GoodText DEF Kept, Good
<1>3. /\ o \in Offsets(b) /\ e \in Offsets(b) /\ o \in Nat /\ e \in Nat /\ o <= e
      /\ e <= d /\ p.size \in Nat /\ p.count = Heads(b, o, e) /\ p.count \in 0 .. n
      /\ d \in Nat /\ d \in Offsets(b) /\ z \in Nat
  BY <1>1, <1>2, UOffOffset, UStopOffset, LenProperties, Ends
<1>4. e = o + p.size
  BY <1>1 DEF UStop
<1>5. PICK c : c = Without(b, o, e, d)
  OBVIOUS
<1>6. Text(c) /\ Chars(c) = Heads(b, z, o) + Heads(b, e, d)
  BY <1>1, <1>2, <1>3, <1>5, WithoutText
<1>7. PICK from, m, q : from = o + p.size /\ m = d - p.size - o /\ q = d - p.size
  OBVIOUS
<1>8. m \in Nat /\ from \in Nat /\ o <= from /\ d = from + m /\ q = o + m /\ from = e /\ from + m <= d
  BY <1>3, <1>4, <1>7
<1>9. Prefix(MemMove(b, o, from, m), q) = c
  <2>1. from + m <= Len(b)
    BY <1>1, <1>8
  <2>2. Prefix(MemMove(b, o, from, m), q) = Without(b, o, from, d)
    BY <1>2, <1>3, <1>8, <2>1, MemMoveCloses
  <2>. QED
    BY <1>5, <1>8, <2>2
<1>10. PICK r, u : r = aux_erase_u(t, t, TRUE, FALSE, k, n) /\ u = 0 + t.usize - p.count
  OBVIOUS
<1>11. r = IF t.usize > p.count THEN Counted(Sized(t, c), u) ELSE Uncached(Sized(t, c))
  BY <1>1, <1>7, <1>9, <1>10 DEF aux_erase_u, UOff, UPart
<1>12. CASE t.usize > p.count
  <2>1. u \in Nat /\ u = t.usize - p.count
    BY <1>2, <1>3, <1>10, <1>12
  <2>2. t.cached => u = Chars(c)
    <3>1. Heads(b, z, d) = Heads(b, z, o) + Heads(b, o, d)
      <4>1. z <= o /\ o <= d
        BY <1>1, <1>3
      <4>. QED
        BY <1>3, <4>1, HeadsSplit
    <3>2. Heads(b, o, d) = Heads(b, o, e) + Heads(b, e, d)
      BY <1>3, HeadsSplit
    <3>3. Heads(b, z, o) \in Nat /\ Heads(b, e, d) \in Nat
      BY <1>3, HeadsNat
    <3>4. Chars(b) = Heads(b, z, d)
      BY <1>1 DEF Chars
    <3>5. PICK x, y : x = Heads(b, z, o) /\ y = Heads(b, e, d)
      OBVIOUS
    <3>6. x \in Nat /\ y \in Nat /\ Chars(b) = x + (p.count + y) /\ Chars(c) = x + y
      BY <1>3, <1>6, <3>1, <3>2, <3>3, <3>4, <3>5
    <3>7. p.count \in Nat
      BY <1>3
    <3>. QED
      BY <1>2, <2>1, <3>6, <3>7
  <2>3. Left(Counted(Sized(t, c), u), c)
    BY <1>2, <1>6, <2>1, <2>2, LeftCounted
  <2>. QED
    BY <1>1, <1>5, <1>10, <1>11, <1>12, <2>3
<1>13. CASE ~ (t.usize > p.count)
  <2>1. Left(Uncached(Sized(t, c)), c)
    BY <1>2, <1>6, LeftUncached
  <2>. QED
    BY <1>1, <1>5, <1>10, <1>11, <1>13, <2>1
<1>. QED
  BY <1>12, <1>13

\* ss_cat_erase_u, and ss_cpy_erase_u to another string, of which the count is
\* not in use.
LEMMA EraseULeaves ==
  ASSUME NEW t, Kept(t), ~ t.cached, NEW x, Good(x), NEW cat \in BOOLEAN,
         NEW k \in Nat, NEW n \in Nat
  PROVE  Left(aux_erase_u(t, x, FALSE, cat, k, n),
              At(t, cat) \o Without(x.bytes, UOff(x.bytes, k), UStop(x.bytes, k, n), Len(x.bytes)))
<1>1. PICK b, o, e, p, z, d, a : /\ b = x.bytes /\ o = UOff(b, k) /\ e = UStop(b, k, n)
                                 /\ p = UPart(b, k, n) /\ z = 0 /\ d = Len(b)
                                 /\ a = At(t, cat)
  OBVIOUS
<1>2. /\ Good(t) /\ t.usize <= MaxLen /\ Text(b) /\ b \in Seq(Byte) /\ t.usize \in Nat /\ Whole(b)
  BY <1>1, GoodText DEF Kept, Good
<1>3. /\ o \in Offsets(b) /\ e \in Offsets(b) /\ o \in Nat /\ e \in Nat /\ o <= e
      /\ e <= d /\ p.size \in Nat /\ p.count \in 0 .. n
      /\ d \in Nat /\ d \in Offsets(b) /\ z \in Offsets(b) /\ z <= o
  <2>1. d \in Nat /\ d \in Offsets(b) /\ z \in Offsets(b)
    BY <1>1, <1>2, LenProperties, Ends
  <2>2. /\ o \in Offsets(b) /\ e \in Offsets(b) /\ o \in Nat /\ e \in Nat /\ o <= e
        /\ e <= d /\ p.size \in Nat /\ p.count \in 0 .. n
    BY <1>1, <1>2, UOffOffset, UStopOffset
  <2>. QED
    BY <1>1, <2>1, <2>2
<1>4. e = o + p.size
  BY <1>1 DEF UStop
<1>5. PICK f, g, c : f = Cut(b, z, o) /\ g = Cut(b, e, d) /\ c = Without(b, o, e, d)
  OBVIOUS
<1>6. Text(f) /\ Text(g) /\ Text(c) /\ Text(a)
  BY <1>1, <1>2, <1>3, <1>5, WithoutText, CutLen, AtText
<1>7. f \in Seq(Byte) /\ g \in Seq(Byte) /\ a \in Seq(Byte)
  BY <1>6, CharsNat
<1>8. c = f \o g
  BY <1>1, <1>5 DEF Without
<1>9. PICK r, out : r = aux_erase_u(t, x, FALSE, cat, k, n) /\ out = a \o c
  OBVIOUS
<1>10. out = (a \o f) \o g
  <2>1. (a \o f) \o g = a \o (f \o g)
    BY <1>7, ConcatAssociative
  <2>. QED
    BY <1>8, <1>9, <2>1
<1>11. Text(out)
  BY <1>6, <1>9, JoinText
<1>12. Prefix(b, o) = f /\ Suffix(b, o + p.size) = g
  BY <1>1, <1>4, <1>5, PrefixIs, SuffixIs
<1>13. PICK w : w = t.usize + t.usize - p.count
  OBVIOUS
<1>14. r = IF t.usize > p.count THEN Counted(Sized(t, out), w) ELSE Uncached(Sized(t, out))
  BY <1>1, <1>9, <1>10, <1>12, <1>13 DEF aux_erase_u, UOff, UPart
<1>15. CASE t.usize > p.count
  <2>1. w \in Nat
    BY <1>2, <1>3, <1>13, <1>15
  <2>2. Left(Counted(Sized(t, out), w), out)
    BY <1>2, <1>11, <2>1, LeftCounted
  <2>. QED
    BY <1>1, <1>5, <1>9, <1>14, <1>15, <2>2
<1>16. CASE ~ (t.usize > p.count)
  <2>1. Left(Uncached(Sized(t, out)), out)
    BY <1>2, <1>11, LeftUncached
  <2>. QED
    BY <1>1, <1>5, <1>9, <1>14, <1>16, <2>1
<1>. QED
  BY <1>15, <1>16

----------------------------------------------------------------------------
(* Sizes.                                                                  *)

\* n bytes: cut, or filled with spaces.
Resized(b, n) == IF Len(b) < n THEN b \o Fill(n - Len(b)) ELSE Prefix(b, n)

\* Cut between characters or filled, a text stays one.
LEMMA ResizedText ==
  ASSUME NEW b, Text(b), NEW n \in Lengths(b, 0)
  PROVE  Text(Resized(b, n)) /\ n \in Nat
<1>1. PICK z : z = 0
  OBVIOUS
<1>2. /\ b \in Seq(Byte) /\ Len(b) \in Nat /\ Whole(b) /\ z \in Offsets(b) /\ n \in Nat
      /\ n > Len(b) \/ n \in Offsets(b)
  BY <1>1, LenProperties, Ends, SStringAssumption DEF Text, Lengths
<1>3. CASE Len(b) < n
  <2>1. PICK m : m = n - Len(b)
    OBVIOUS
  <2>2. m \in Nat
    BY <1>2, <1>3, <2>1
  <2>3. Text(Fill(m))
    BY <2>2, FillText
  <2>4. Text(b \o Fill(m))
    BY <2>3, JoinText
  <2>. QED
    BY <1>2, <1>3, <2>1, <2>4 DEF Resized
<1>4. CASE ~ (Len(b) < n)
  <2>1. n \in Offsets(b) /\ z <= n
    BY <1>1, <1>2, <1>4
  <2>2. Text(Cut(b, z, n))
    BY <1>2, <2>1, CutText
  <2>3. Prefix(b, n) = Cut(b, z, n)
    BY <1>1, PrefixIs
  <2>. QED
    BY <1>2, <1>4, <2>2, <2>3 DEF Resized
<1>. QED
  BY <1>3, <1>4

\* ss_resize.
LEMMA ResizeInPlaceLeaves ==
  ASSUME NEW t, Kept(t), NEW n \in Lengths(t.bytes, 0)
  PROVE  Left(aux_resize(t, t, TRUE, FALSE, n), Resized(t.bytes, n))
<1>1. PICK c : c = Resized(t.bytes, n)
  OBVIOUS
<1>2. Good(t) /\ t.usize <= MaxLen /\ Text(c)
  BY <1>1, GoodText, ResizedText DEF Kept
<1>3. aux_resize(t, t, TRUE, FALSE, n) = Uncached(Sized(t, c))
  BY <1>1 DEF aux_resize, Resized
<1>. QED
  BY <1>1, <1>2, <1>3, LeftUncached

\* ss_cat_resize, and ss_cpy_resize to another string.
LEMMA ResizeLeaves ==
  ASSUME NEW t, Kept(t), NEW x, Good(x), NEW cat \in BOOLEAN, NEW n \in Lengths(x.bytes, 0)
  PROVE  Left(aux_resize(t, x, FALSE, cat, n), At(t, cat) \o Resized(x.bytes, n))
<1>1. PICK a, c, r : a = At(t, cat) /\ c = Resized(x.bytes, n) /\ r = a \o c
  OBVIOUS
<1>2. Good(t) /\ t.usize <= MaxLen /\ Text(c) /\ Text(a)
  BY <1>1, GoodText, ResizedText, AtText DEF Kept
<1>3. Text(r)
  BY <1>1, <1>2, JoinText
<1>4. aux_resize(t, x, FALSE, cat, n) = Uncached(Sized(t, r))
  BY <1>1 DEF aux_resize, Resized
<1>5. Left(Uncached(Sized(t, r)), r)
  BY <1>2, <1>3, LeftUncached
<1>. QED
  BY <1>1, <1>4, <1>5

\* ss_len_u caches what it counts.
LEMMA LenULeaves ==
  ASSUME NEW x, Good(x)
  PROVE  /\ Left(ss_len_u(x), x.bytes)
         /\ ss_len_u(x).cached = TRUE
         /\ ss_len_u(x).usize = Chars(x.bytes)
         /\ ss_len_u(x).usize \in Nat
<1>1. PICK b, r : b = x.bytes /\ r = ss_len_u(x)
  OBVIOUS
<1>2. Text(b) /\ x.cached \in BOOLEAN /\ Chars(b) \in Nat /\ Chars(b) <= Len(b) /\ CountChars(b) = Chars(b)
      /\ (x.cached => x.usize = Chars(b))
  BY <1>1, GoodText, CountCharsIs
<1>3. x \in [bytes : Seq(Byte), cached : BOOLEAN, usize : Nat] /\ Whole(b)
  BY <1>1 DEF Good
<1>4. CASE x.cached
  <2>1. r = x
    BY <1>1, <1>4 DEF ss_len_u
  <2>. QED
    BY <1>1, <1>2, <1>4, <2>1 DEF Left
<1>5. CASE ~ x.cached
  <2>1. PICK k : k = Chars(b)
    OBVIOUS
  <2>2. r = [x EXCEPT !.cached = TRUE, !.usize = k] /\ k \in Nat
    BY <1>1, <1>2, <1>5, <2>1 DEF ss_len_u
  <2>3. r \in [bytes : Seq(Byte), cached : BOOLEAN, usize : Nat]
        /\ r.bytes = b /\ r.cached = TRUE /\ r.usize = k
    BY <1>1, <1>3, <2>2
  <2>. QED
    BY <1>1, <1>2, <1>3, <2>1, <2>2, <2>3 DEF Left, Good
<1>. QED
  BY <1>2, <1>4, <1>5

\* n characters: cut, or filled with spaces.
ResizedU(b, n) == IF Chars(b) < n THEN b \o Fill(n - Chars(b)) ELSE Cut(b, 0, UOff(b, n))

\* The first n characters, or all there are.
LEMMA FirstChars ==
  ASSUME NEW b, Text(b), NEW n \in Nat
  PROVE  /\ Text(Cut(b, 0, UOff(b, n)))
         /\ Chars(Cut(b, 0, UOff(b, n))) = Min2(n, Chars(b))
         /\ Chars(b) < n => Cut(b, 0, UOff(b, n)) = b
<1>1. PICK z, o, d : z = 0 /\ o = UOff(b, n) /\ d = Len(b)
  OBVIOUS
<1>2. /\ b \in Seq(Byte) /\ Whole(b) /\ d \in Nat /\ d \in Offsets(b) /\ z \in Offsets(b)
      /\ z \in Nat /\ z <= d
  BY <1>1, LenProperties, Ends DEF Text
<1>3. /\ o \in Offsets(b) /\ o \in Nat /\ o <= d /\ z <= o
      /\ Heads(b, z, o) = n \/ o = d
      /\ Heads(b, z, o) \in 0 .. n
  BY <1>1, UOffOffset
<1>4. PICK c : c = Cut(b, z, o)
  OBVIOUS
<1>5. Text(c) /\ Chars(c) = Heads(b, z, o)
  BY <1>2, <1>3, <1>4, CutText
<1>6. Heads(b, z, d) = Heads(b, z, o) + Heads(b, o, d)
  BY <1>2, <1>3, HeadsSplit
<1>7. Heads(b, z, o) \in Nat /\ Heads(b, o, d) \in Nat /\ Chars(b) = Heads(b, z, d)
  BY <1>1, <1>2, <1>3, HeadsNat DEF Chars
<1>8. o = d => Heads(b, z, o) = Chars(b)
  BY <1>7
<1>9. Heads(b, z, o) = Min2(n, Chars(b))
  <2>1. Heads(b, z, o) <= Chars(b) /\ Heads(b, z, o) <= n
    BY <1>3, <1>6, <1>7
  <2>2. Heads(b, z, o) = n \/ Heads(b, z, o) = Chars(b)
    BY <1>3, <1>8
  <2>. QED
    BY <1>6, <1>7, <2>1, <2>2 DEF Min2
<1>10. Chars(b) < n => o = d
  BY <1>3, <1>6, <1>7
<1>11. Cut(b, z, d) = b
  BY <1>1, <1>2, CutAll
<1>. QED
  BY <1>1, <1>4, <1>5, <1>9, <1>10, <1>11

\* ss_resize_u.
LEMMA ResizeUInPlaceLeaves ==
  ASSUME NEW t, Kept(t), NEW n \in Nat, n # Chars(t.bytes)
  PROVE  Left(aux_resize_u(t, t, TRUE, FALSE, n), ResizedU(t.bytes, n))
<1>1. PICK b, c, h, f, z, k : /\ b = t.bytes /\ c = Cut(b, 0, UOff(b, n)) /\ h = Chars(b)
                              /\ f = ss_len_u(t) /\ z = 0 /\ k = n - h
  OBVIOUS
<1>2. Good(t) /\ Text(b) /\ h \in Nat /\ b \in Seq(Byte) /\ z \in Nat
  BY <1>1, GoodText DEF Kept
<1>3. Good(f) /\ f.bytes = b /\ f.cached = TRUE /\ f.usize = h
  BY <1>1, <1>2, LenULeaves DEF Left
<1>4. Text(c) /\ Chars(c) = Min2(n, h) /\ (h < n => c = b)
  BY <1>1, <1>2, FirstChars
<1>5. Prefix(b, CountToSize(b, 0, n).size) = c
  BY <1>1, PrefixIs DEF UOff
<1>6. PICK r : r = aux_resize_u(t, t, TRUE, FALSE, n)
  OBVIOUS
<1>7. CASE h < n
  <2>1. Sized(f, c) = f
    <3>1. f \in [bytes : Seq(Byte), cached : BOOLEAN, usize : Nat] /\ c = f.bytes
      BY <1>3, <1>4, <1>7 DEF Good
    <3>. QED
      BY <3>1 DEF Sized
  <2>2. k \in Nat
    BY <1>1, <1>2, <1>7
  <2>3. Text(Fill(k))
    BY <2>2, FillText
  <2>4. PICK g : g = Fill(k)
    OBVIOUS
  <2>5. r = ss_cat_cn_raw(f, g, z)
    BY <1>1, <1>3, <1>5, <1>6, <1>7, <1>2, <2>1, <2>4 DEF aux_resize_u
  <2>6. Left(ss_cat_cn_raw(f, g, z), f.bytes \o g)
    BY <1>1, <1>2, <1>3, <2>3, <2>4, CatRaw
  <2>7. ResizedU(b, n) = b \o g
    BY <1>1, <1>7, <2>4 DEF ResizedU
  <2>. QED
    BY <1>1, <1>3, <1>6, <2>5, <2>6, <2>7
<1>8. CASE ~ (h < n)
  <2>1. Chars(c) = n /\ n # h
    BY <1>1, <1>2, <1>4, <1>8 DEF Min2
  <2>2. Left(Counted(Sized(f, c), n), c)
    BY <1>3, <1>4, <2>1, LeftCounted
  <2>3. r = Counted(Sized(f, c), n)
    BY <1>1, <1>3, <1>5, <1>6, <1>8, <2>1 DEF aux_resize_u
  <2>4. ResizedU(b, n) = c
    BY <1>1, <1>8 DEF ResizedU
  <2>. QED
    BY <1>1, <1>6, <2>2, <2>3, <2>4
<1>. QED
  BY <1>7, <1>8

\* ss_cat_resize_u, and ss_cpy_resize_u to another string.
LEMMA ResizeULeaves ==
  ASSUME NEW t, Good(t), NEW x, Good(x), NEW cat \in BOOLEAN, NEW n \in Nat, n # Chars(x.bytes)
  PROVE  Left(aux_resize_u(t, x, FALSE, cat, n), At(t, cat) \o ResizedU(x.bytes, n))
<1>1. PICK b, c, h, f, z, k, a :
        /\ b = x.bytes /\ c = Cut(b, 0, UOff(b, n)) /\ h = Chars(b) /\ a = At(t, cat)
        /\ f = (IF cat THEN t ELSE Cleared) /\ z = 0 /\ k = n - h
  OBVIOUS
<1>2. Text(b) /\ h \in Nat /\ b \in Seq(Byte) /\ z \in Nat
  BY <1>1, GoodText
<1>3. Good(f) /\ f.bytes = a
  BY <1>1, LeftCleared DEF Left, At
<1>4. /\ Text(a) /\ a \in Seq(Byte) /\ f.usize \in Nat /\ (f.cached => f.usize = Chars(a))
      /\ Len(a) \in Nat
  BY <1>3, GoodText
<1>5. Text(c) /\ Chars(c) = Min2(n, h) /\ (h < n => c = b) /\ Len(c) \in Nat
  BY <1>1, <1>2, FirstChars, CharsNat
<1>6. Prefix(b, CountToSize(b, 0, n).size) = c
  BY <1>1, PrefixIs DEF UOff
<1>7. PICK r, v, p, l : /\ r = aux_resize_u(t, x, FALSE, cat, n) /\ v = a \o c
                        /\ l = f.usize + Min2(n, h) /\ p = Counted(Sized(f, v), l)
  OBVIOUS
<1>8. Text(v) /\ Chars(v) = Chars(a) + Chars(c) /\ Len(v) = Len(a) + Len(c)
  BY <1>4, <1>5, <1>7, JoinText
<1>9. Left(p, v)
  <2>1. Min2(n, h) \in Nat
    BY <1>2 DEF Min2
  <2>2. l \in Nat /\ (f.cached => l = Chars(v)) /\ Len(f.bytes) <= Len(v)
    BY <1>3, <1>4, <1>5, <1>7, <1>8, <2>1
  <2>. QED
    BY <1>3, <1>7, <1>8, <2>2, LeftCounted
<1>10. ss_len_u(x).usize = h
  BY <1>1, LenULeaves
<1>11. r = IF h < n THEN ss_cat_cn_raw(p, Fill(k), z) ELSE p
  BY <1>1, <1>3, <1>6, <1>7, <1>10 DEF aux_resize_u
<1>12. CASE h < n
  <2>1. k \in Nat
    BY <1>1, <1>2, <1>12
  <2>2. PICK g : g = Fill(k)
    OBVIOUS
  <2>3. Text(g) /\ g \in Seq(Byte)
    BY <2>1, <2>2, FillText, CharsNat
  <2>4. Left(ss_cat_cn_raw(p, g, z), p.bytes \o g)
    BY <1>1, <1>2, <1>9, <2>3, CatRaw DEF Left
  <2>5. ResizedU(b, n) = b \o g
    BY <1>1, <1>12, <2>2 DEF ResizedU
  <2>6. (a \o b) \o g = a \o (b \o g)
    BY <1>2, <1>4, <2>3, ConcatAssociative
  <2>7. p.bytes \o g = a \o ResizedU(b, n)
    BY <1>5, <1>7, <1>9, <1>12, <2>5, <2>6 DEF Left
  <2>. QED
    BY <1>1, <1>7, <1>11, <1>12, <2>2, <2>4, <2>7
<1>13. CASE ~ (h < n)
  <2>1. ResizedU(b, n) = c
    BY <1>1, <1>13 DEF ResizedU
  <2>. QED
    BY <1>1, <1>7, <1>9, <1>11, <1>13, <2>1
<1>. QED
  BY <1>12, <1>13

\* As many characters as asked for: there is nothing to do, but to know it.
LEMMA ResizeUSame ==
  ASSUME NEW t, NEW x, Good(x), NEW cat \in BOOLEAN, NEW n, n = Chars(x.bytes)
  PROVE  /\ aux_resize_u(t, x, FALSE, cat, n) = t
         /\ aux_resize_u(x, x, TRUE, FALSE, n) = ss_len_u(x)
<1>1. ss_len_u(x).usize = n
  BY LenULeaves
<1>. QED
  BY <1>1 DEF aux_resize_u

----------------------------------------------------------------------------
(* Spaces.                                                                 *)

\* Spaces are characters, of one byte.
LEMMA SpacesAre ==
  ASSUME NEW b, NEW i \in Nat, NEW n \in Nat, NEW j, j = i + n,
         \A k \in i + 1 .. j : b[k] = Space
  PROVE  Heads(b, i, j) = n
<1>1. PICK S : S = {u \in Nat : Heads(b, i, i + u) = u}
  OBVIOUS
<1>2. 0 \in S
  BY <1>1, HeadsNat
<1>3. ASSUME NEW u \in 0 .. n - 1, u \in S PROVE u + 1 \in S
  <2>1. PICK f, g : f = i + u /\ g = f + 1
    OBVIOUS
  <2>2. f \in Nat /\ g \in Nat /\ g = i + (u + 1) /\ i <= f /\ f <= g /\ g \in i + 1 .. j
    BY <2>1
  <2>3. Heads(b, i, g) = Heads(b, i, f) + Heads(b, f, g)
    BY <2>2, HeadsSplit
  <2>4. Space \notin Tails
    BY DEF Space, Tails
  <2>5. b[f + 1] \notin Tails
    BY <2>1, <2>2, <2>4
  <2>6. Heads(b, f, f + 1) = 1
    BY <2>2, <2>5, HeadsOne
  <2>7. Heads(b, i, f) = u
    BY <1>1, <1>3, <2>1
  <2>. QED
    BY <1>1, <2>1, <2>2, <2>3, <2>6, <2>7
<1>4. \A u \in 0 .. n : u \in S
  BY <1>2, <1>3, UpTo
<1>5. n \in S
  BY <1>4
<1>. QED
  BY <1>1, <1>5

\* The spaces a string begins with end at an offset.
LEMMA BeforeOffset ==
  ASSUME NEW b, Text(b)
  PROVE  Before(b) \in Offsets(b) /\ Before(b) \in Nat /\ Heads(b, 0, Before(b)) = Before(b)
<1>1. b \in Seq(Byte) /\ Whole(b) /\ Len(b) \in Nat
  BY LenProperties DEF Text
<1>2. PICK T : T = {i \in 0 .. Len(b) : i = Len(b) \/ b[i + 1] # Space}
  OBVIOUS
<1>3. T \subseteq Nat /\ Len(b) \in T
  BY <1>1, <1>2
<1>4. PICK i \in T : \A j \in T : i <= j
  BY <1>3, LeastNat
<1>5. Before(b) \in T /\ \A j \in T : Before(b) <= j
  BY <1>2, <1>4 DEF Before
<1>6. PICK z, m : z = 0 /\ m = Before(b)
  OBVIOUS
<1>7. m \in T /\ (\A j \in T : m <= j) /\ m \in Nat /\ m <= Len(b) /\ z \in Nat /\ m = z + m
  BY <1>1, <1>2, <1>3, <1>5, <1>6
<1>8. ASSUME NEW k \in z + 1 .. m PROVE b[k] = Space
  <2>1. k - 1 \in 0 .. Len(b) /\ ~ (m <= k - 1) /\ k - 1 # Len(b)
    BY <1>1, <1>6, <1>7
  <2>2. k - 1 \notin T
    BY <1>7, <2>1
  <2>3. b[k - 1 + 1] = Space
    BY <1>2, <2>1, <2>2
  <2>. QED
    BY <1>6, <1>7, <2>3
<1>9. Heads(b, z, m) = m
  BY <1>7, <1>8, SpacesAre
<1>10. m \in Offsets(b)
  <2>1. SUFFICES ASSUME m # Len(b), b[m + 1] \in Tails PROVE FALSE
    BY <1>1, <1>7 DEF Offsets
  <2>2. PICK l : l = m + 1
    OBVIOUS
  <2>3. l \in 1 .. Len(b) /\ l - 1 = m
    BY <1>1, <1>7, <2>1, <2>2
  <2>4. l > 1 /\ b[l - 1] = Lead
    BY <1>1, <2>1, <2>2, <2>3 DEF Whole
  <2>5. m \in z + 1 .. m
    BY <1>6, <1>7, <2>3, <2>4
  <2>6. b[m] = Space
    BY <1>8, <2>5
  <2>7. Space # Lead
    BY DEF Space, Lead
  <2>. QED
    BY <2>3, <2>4, <2>6, <2>7
<1>. QED
  BY <1>6, <1>7, <1>9, <1>10

\* ... and those it ends with begin at one.
LEMMA AfterOffset ==
  ASSUME NEW b, Text(b)
  PROVE  /\ After(b) \in Nat /\ After(b) <= Len(b)
         /\ Len(b) - After(b) \in Offsets(b)
         /\ Heads(b, Len(b) - After(b), Len(b)) = After(b)
<1>1. b \in Seq(Byte) /\ Whole(b) /\ Len(b) \in Nat
  BY LenProperties DEF Text
<1>2. PICK T, d : T = {i \in 0 .. Len(b) : i = 0 \/ b[i] # Space} /\ d = Len(b)
  OBVIOUS
<1>3. T \subseteq 0 .. d /\ 0 \in T /\ d \in Nat
  BY <1>1, <1>2
<1>4. PICK i \in T : \A j \in T : j <= i
  BY <1>3, GreatestNat
<1>5. PICK m : m = CHOOSE u \in T : \A j \in T : j <= u
  OBVIOUS
<1>6. m \in T /\ \A j \in T : j <= m
  BY <1>4, <1>5
<1>7. m \in Nat /\ m <= d
  BY <1>3, <1>6
<1>8. PICK n : n = d - m
  OBVIOUS
<1>9. n \in Nat /\ d = m + n /\ d - n = m /\ n <= d
  BY <1>3, <1>7, <1>8
<1>10. After(b) = n
  BY <1>2, <1>5, <1>8 DEF After
<1>11. ASSUME NEW k \in m + 1 .. d PROVE b[k] = Space
  <2>1. k \in 0 .. d /\ ~ (k <= m)
    BY <1>3, <1>7
  <2>2. k \notin T
    BY <1>6, <2>1
  <2>. QED
    BY <1>2, <2>1, <2>2
<1>12. Heads(b, m, d) = n
  BY <1>7, <1>9, <1>11, SpacesAre
<1>13. m \in Offsets(b)
  <2>1. SUFFICES ASSUME m # d, b[m + 1] \in Tails PROVE FALSE
    BY <1>2, <1>3, <1>7 DEF Offsets
  <2>2. m + 1 \in m + 1 .. d
    BY <1>3, <1>7, <2>1
  <2>3. b[m + 1] = Space
    BY <1>11, <2>2
  <2>4. Space \notin Tails
    BY DEF Space, Tails
  <2>. QED
    BY <2>1, <2>3, <2>4
<1>. QED
  BY <1>2, <1>9, <1>10, <1>12, <1>13

\* The target with the bytes b, of which the count is known to be k + the
\* characters before them when both counts are.
LEMMA TrimmedLeaves ==
  ASSUME NEW t, Kept(t), NEW x, Good(x), NEW cat \in BOOLEAN, NEW c, Text(c), NEW k \in Nat,
         Chars(x.bytes) = Chars(c) + k, NEW b, b = At(t, cat) \o c
  PROVE  Left(Trimmed(t, x, cat, b, k), b)
<1>1. PICK a : a = At(t, cat)
  OBVIOUS
<1>2. Good(t) /\ t.usize <= MaxLen /\ Text(a) /\ (cat => a = t.bytes) /\ (~ cat => a = << >>)
      /\ t.usize \in Nat
  BY <1>1, AtText, GoodText DEF Kept
<1>3. Text(b) /\ Chars(b) = Chars(a) + Chars(c)
  BY <1>1, <1>2, JoinText
<1>4. Chars(c) \in Nat /\ Chars(a) \in Nat
  BY <1>2, CharsNat
<1>5. CASE t.cached /\ x.cached
  <2>1. PICK n : n = (IF cat THEN t.usize ELSE 0) + x.usize - k
    OBVIOUS
  <2>2. x.usize = Chars(c) + k
    BY <1>5, GoodText
  <2>3. (IF cat THEN t.usize ELSE 0) = Chars(a)
    BY <1>2, <1>5, GoodText, NoText
  <2>4. n \in Nat /\ n = Chars(b)
    BY <1>3, <1>4, <2>1, <2>2, <2>3
  <2>5. Left(Counted(Sized(t, b), n), b)
    BY <1>2, <1>3, <2>4, LeftCounted
  <2>. QED
    BY <1>5, <2>1, <2>5 DEF Trimmed
<1>6. CASE ~ (t.cached /\ x.cached)
  <2>1. Left(Uncached(Sized(t, b)), b)
    BY <1>2, <1>3, LeftUncached
  <2>. QED
    BY <1>6, <2>1 DEF Trimmed
<1>. QED
  BY <1>5, <1>6

\* The bytes without those spaces.
LTrim(b) == Cut(b, Before(b), Len(b))
RTrim(b) == Cut(b, 0, Len(b) - After(b))

\* What is left has as many characters less as spaces are gone: before it ...
LEMMA LTrimText ==
  ASSUME NEW b, Text(b)
  PROVE  /\ Text(LTrim(b)) /\ Chars(b) = Chars(LTrim(b)) + Before(b) /\ Before(b) \in Nat
         /\ Before(b) <= Len(b)
<1>1. PICK z, m, d : z = 0 /\ m = Before(b) /\ d = Len(b)
  OBVIOUS
<1>2. b \in Seq(Byte) /\ d \in Nat /\ d \in Offsets(b) /\ z \in Nat
  BY <1>1, LenProperties, Ends DEF Text
<1>3. m \in Offsets(b) /\ m \in Nat /\ Heads(b, z, m) = m
  BY <1>1, BeforeOffset
<1>4. m <= d /\ z <= m
  BY <1>1, <1>2, <1>3, Ends
<1>5. Text(Cut(b, m, d)) /\ Chars(Cut(b, m, d)) = Heads(b, m, d)
  BY <1>2, <1>3, <1>4, CutText
<1>6. Heads(b, z, d) = Heads(b, z, m) + Heads(b, m, d)
  BY <1>2, <1>3, <1>4, HeadsSplit
<1>7. Heads(b, m, d) \in Nat
  BY <1>2, <1>3, HeadsNat
<1>. QED
  BY <1>1, <1>3, <1>4, <1>5, <1>6, <1>7 DEF LTrim, Chars

\* ... and after it.
LEMMA RTrimText ==
  ASSUME NEW b, Text(b)
  PROVE  /\ Text(RTrim(b)) /\ Chars(b) = Chars(RTrim(b)) + After(b) /\ After(b) \in Nat
<1>1. PICK z, n, d, m : z = 0 /\ n = After(b) /\ d = Len(b) /\ m = Len(b) - After(b)
  OBVIOUS
<1>2. b \in Seq(Byte) /\ d \in Nat /\ z \in Nat /\ z \in Offsets(b)
  BY <1>1, LenProperties, Ends DEF Text
<1>3. m \in Offsets(b) /\ n \in Nat /\ Heads(b, m, d) = n
  BY <1>1, AfterOffset
<1>4. m <= d /\ z <= m /\ m \in Nat
  BY <1>1, <1>2, <1>3, Ends
<1>5. Text(Cut(b, z, m)) /\ Chars(Cut(b, z, m)) = Heads(b, z, m)
  BY <1>2, <1>3, <1>4, CutText
<1>6. Heads(b, z, d) = Heads(b, z, m) + Heads(b, m, d)
  BY <1>2, <1>4, HeadsSplit
<1>. QED
  BY <1>1, <1>3, <1>5, <1>6 DEF RTrim, Chars

\* Of no bytes nothing is left.
LEMMA TrimNone == LTrim(<< >>) = << >> /\ RTrim(<< >>) = << >>
<1>1. PICK b, z : b = << >> /\ z = 0
  OBVIOUS
<1>2. Text(b) /\ Len(b) = z /\ z \in Nat /\ b \in Seq(Byte)
  BY <1>1, NoText, CharsNat
<1>3. Before(b) = z /\ After(b) = z
  <2>1. Before(b) \in Offsets(b) /\ After(b) \in Nat /\ After(b) <= Len(b)
    BY <1>2, BeforeOffset, AfterOffset
  <2>2. Before(b) \in 0 .. Len(b)
    BY <1>2, <2>1, Ends
  <2>. QED
    BY <1>1, <1>2, <2>1, <2>2
<1>4. Cut(b, z, z) = << >>
  BY <1>2, CutNone
<1>. QED
  BY <1>1, <1>2, <1>3, <1>4 DEF LTrim, RTrim

\* ss_ltrim.
LEMMA LTrimInPlaceLeaves ==
  ASSUME NEW t, Kept(t)
  PROVE  Left(aux_ltrim(t, t, TRUE, FALSE), LTrim(t.bytes))
<1>1. PICK b, i, d, z, m, c : b = t.bytes /\ i = Before(b) /\ d = Len(b) /\ z = 0 /\ m = d - i
                              /\ c = LTrim(b)
  OBVIOUS
<1>2. Good(t) /\ Text(b) /\ b \in Seq(Byte) /\ d \in Nat
  BY <1>1, GoodText DEF Kept
<1>3. Text(c) /\ Chars(b) = Chars(c) + i /\ i \in Nat /\ i <= d
  BY <1>1, <1>2, LTrimText
<1>4. c \in Seq(Byte) /\ m \in Nat /\ z \in Nat /\ z <= i /\ i + m <= Len(b) /\ d = i + m /\ m = z + m
  <2>1. i + m = d /\ m \in Nat
    BY <1>1, <1>2, <1>3
  <2>2. z + m = m /\ z <= i /\ z \in Nat
    BY <1>1, <1>3, <2>1
  <2>. QED
    BY <1>1, <1>2, <1>3, <2>1, <2>2, CharsNat
<1>5. CASE b = << >>
  <2>1. aux_ltrim(t, t, TRUE, FALSE) = Cleared
    BY <1>1, <1>5 DEF aux_ltrim
  <2>. QED
    BY <1>1, <1>5, <2>1, TrimNone, LeftCleared
<1>6. CASE b # << >>
  <2>1. Prefix(IF i > 0 THEN MemMove(b, 0, i, d - i) ELSE b, d - i) = c
    <3>1. CASE i > 0
      <4>1. Prefix(MemMove(b, z, i, m), m) = Without(b, z, i, d)
        BY <1>2, <1>3, <1>4, MemMoveCloses
      <4>2. Cut(b, z, z) = << >>
        BY <1>2, <1>4, CutNone
      <4>3. << >> \o c = c
        BY <1>4, ConcatEmptySeq
      <4>. QED
        BY <1>1, <3>1, <4>1, <4>2, <4>3 DEF Without, LTrim
    <3>2. CASE ~ (i > 0)
      <4>1. i = z /\ m = d
        BY <1>1, <1>2, <1>3, <3>2
      <4>2. Prefix(b, d) = Cut(b, z, d)
        BY <1>1, PrefixIs
      <4>. QED
        BY <1>1, <3>2, <4>1, <4>2 DEF LTrim
    <3>. QED
      BY <3>1, <3>2
  <2>2. aux_ltrim(t, t, TRUE, FALSE) = Trimmed(t, t, FALSE, c, i)
    BY <1>1, <1>6, <2>1 DEF aux_ltrim
  <2>3. PICK cat : cat = FALSE
    OBVIOUS
  <2>4. cat \in BOOLEAN /\ c = At(t, cat) \o c
    BY <1>4, <2>3, ConcatEmptySeq DEF At
  <2>5. Chars(t.bytes) = Chars(c) + i
    BY <1>1, <1>3
  <2>6. Left(Trimmed(t, t, cat, c, i), c)
    BY <1>2, <1>3, <2>4, <2>5, TrimmedLeaves
  <2>. QED
    BY <1>1, <2>2, <2>3, <2>6
<1>. QED
  BY <1>5, <1>6

\* ss_rtrim.
LEMMA RTrimInPlaceLeaves ==
  ASSUME NEW t, Kept(t)
  PROVE  Left(aux_rtrim(t, t, TRUE, FALSE), RTrim(t.bytes))
<1>1. PICK b, i, c : b = t.bytes /\ i = After(b) /\ c = RTrim(b)
  OBVIOUS
<1>2. Good(t) /\ Text(b)
  BY <1>1, GoodText DEF Kept
<1>3. Text(c) /\ Chars(b) = Chars(c) + i /\ i \in Nat
  BY <1>1, <1>2, RTrimText
<1>4. c \in Seq(Byte)
  BY <1>3, CharsNat
<1>5. CASE b = << >>
  <2>1. aux_rtrim(t, t, TRUE, FALSE) = Cleared
    BY <1>1, <1>5 DEF aux_rtrim
  <2>. QED
    BY <1>1, <1>5, <2>1, TrimNone, LeftCleared
<1>6. CASE b # << >>
  <2>1. Prefix(b, Len(b) - i) = c
    BY <1>1, PrefixIs DEF RTrim
  <2>2. aux_rtrim(t, t, TRUE, FALSE) = Trimmed(t, t, FALSE, c, i)
    BY <1>1, <1>6, <2>1 DEF aux_rtrim
  <2>3. PICK cat : cat = FALSE
    OBVIOUS
  <2>4. cat \in BOOLEAN /\ c = At(t, cat) \o c
    BY <1>4, <2>3, ConcatEmptySeq DEF At
  <2>5. Chars(t.bytes) = Chars(c) + i
    BY <1>1, <1>3
  <2>6. Left(Trimmed(t, t, cat, c, i), c)
    BY <1>2, <1>3, <2>4, <2>5, TrimmedLeaves
  <2>. QED
    BY <1>1, <2>2, <2>3, <2>6
<1>. QED
  BY <1>5, <1>6

\* ss_cat_ltrim and ss_cat_rtrim, and those that copy to another string.
LEMMA LTrimLeaves ==
  ASSUME NEW t, Kept(t), NEW x, Good(x), NEW cat \in BOOLEAN
  PROVE  Left(aux_ltrim(t, x, FALSE, cat), At(t, cat) \o LTrim(x.bytes))
<1>1. PICK b, i, c, a, r : b = x.bytes /\ i = Before(b) /\ c = LTrim(b) /\ a = At(t, cat) /\ r = a \o c
  OBVIOUS
<1>2. Text(b) /\ Text(a) /\ a \in Seq(Byte) /\ Good(t)
  BY <1>1, GoodText, AtText DEF Kept
<1>3. Text(c) /\ Chars(b) = Chars(c) + i /\ i \in Nat
  BY <1>1, <1>2, LTrimText
<1>4. CASE b = << >>
  <2>1. c = << >> /\ r = a
    BY <1>1, <1>2, <1>4, TrimNone, ConcatEmptySeq
  <2>2. aux_ltrim(t, x, FALSE, cat) = IF cat THEN t ELSE Cleared
    BY <1>1, <1>4 DEF aux_ltrim
  <2>3. Left(IF cat THEN t ELSE Cleared, a)
    BY <1>1, <1>2, LeftCleared DEF Left, At
  <2>. QED
    BY <1>1, <2>1, <2>2, <2>3
<1>5. CASE b # << >>
  <2>1. Suffix(b, i) = c
    BY <1>1, SuffixIs DEF LTrim
  <2>2. aux_ltrim(t, x, FALSE, cat) = Trimmed(t, x, cat, r, i)
    BY <1>1, <1>5, <2>1 DEF aux_ltrim
  <2>3. Chars(x.bytes) = Chars(c) + i /\ r = At(t, cat) \o c
    BY <1>1, <1>3
  <2>4. Left(Trimmed(t, x, cat, r, i), r)
    BY <1>3, <2>3, TrimmedLeaves
  <2>. QED
    BY <1>1, <2>2, <2>4
<1>. QED
  BY <1>4, <1>5

\* The same for ss_cat_rtrim.
LEMMA RTrimLeaves ==
  ASSUME NEW t, Kept(t), NEW x, Good(x), NEW cat \in BOOLEAN
  PROVE  Left(aux_rtrim(t, x, FALSE, cat), At(t, cat) \o RTrim(x.bytes))
<1>1. PICK b, i, c, a, r : b = x.bytes /\ i = After(b) /\ c = RTrim(b) /\ a = At(t, cat) /\ r = a \o c
  OBVIOUS
<1>2. Text(b) /\ Text(a) /\ a \in Seq(Byte) /\ Good(t)
  BY <1>1, GoodText, AtText DEF Kept
<1>3. Text(c) /\ Chars(b) = Chars(c) + i /\ i \in Nat
  BY <1>1, <1>2, RTrimText
<1>4. CASE b = << >>
  <2>1. c = << >> /\ r = a
    BY <1>1, <1>2, <1>4, TrimNone, ConcatEmptySeq
  <2>2. aux_rtrim(t, x, FALSE, cat) = IF cat THEN t ELSE Cleared
    BY <1>1, <1>4 DEF aux_rtrim
  <2>3. Left(IF cat THEN t ELSE Cleared, a)
    BY <1>1, <1>2, LeftCleared DEF Left, At
  <2>. QED
    BY <1>1, <2>1, <2>2, <2>3
<1>5. CASE b # << >>
  <2>1. Prefix(b, Len(b) - i) = c
    BY <1>1, PrefixIs DEF RTrim
  <2>2. aux_rtrim(t, x, FALSE, cat) = Trimmed(t, x, cat, r, i)
    BY <1>1, <1>5, <2>1 DEF aux_rtrim
  <2>3. Chars(x.bytes) = Chars(c) + i /\ r = At(t, cat) \o c
    BY <1>1, <1>3
  <2>4. Left(Trimmed(t, x, cat, r, i), r)
    BY <1>3, <2>3, TrimmedLeaves
  <2>. QED
    BY <1>1, <2>2, <2>4
<1>. QED
  BY <1>4, <1>5

\* ss_popchar takes the last character.
LEMMA PopLeaves ==
  ASSUME NEW t, Kept(t)
  PROVE  \E i \in Offsets(t.bytes) : Left(ss_popchar(t), Cut(t.bytes, 0, i))
<1>1. PICK b, d, z, T : b = t.bytes /\ d = Len(b) /\ z = 0
                        /\ T = {i \in 1 .. Len(b) : b[i] \notin Tails}
  OBVIOUS
<1>2. /\ Good(t) /\ t.usize <= MaxLen /\ Text(b) /\ b \in Seq(Byte) /\ d \in Nat /\ Whole(b)
      /\ t.usize \in Nat /\ (t.cached => t.usize = Chars(b))
  BY <1>1, GoodText DEF Kept, Text
<1>3. d \in Offsets(b) /\ z \in Offsets(b) /\ z \in Nat
  BY <1>1, <1>2, Ends
<1>4. CASE T = {}
  <2>1. ss_popchar(t) = t
    BY <1>1, <1>4 DEF ss_popchar
  <2>2. Cut(b, z, d) = b
    BY <1>1, <1>2, CutAll
  <2>. QED
    BY <1>1, <1>2, <1>3, <2>1, <2>2 DEF Left
<1>5. CASE T # {}
  <2>1. T \subseteq 0 .. d
    BY <1>1, <1>2
  <2>2. PICK l : l = CHOOSE i \in T : \A j \in T : j <= i
    OBVIOUS
  <2>3. \E i \in T : \A j \in T : j <= i
    BY <1>2, <1>5, <2>1, GreatestNat
  <2>4. l \in T /\ \A j \in T : j <= l
    BY <2>2, <2>3
  <2>5. l \in 1 .. d /\ b[l] \notin Tails
    BY <1>1, <2>4
  <2>6. PICK i : i = l - 1
    OBVIOUS
  <2>7. i \in 0 .. d /\ i + 1 = l /\ i \in Nat /\ i <= d /\ i <= l /\ l <= d /\ l \in Nat /\ z <= i
    BY <1>1, <1>2, <2>5, <2>6
  <2>8. i \in Offsets(b)
    BY <1>1, <2>5, <2>7 DEF Offsets
  <2>9. Heads(b, i, i + 1) = 1
    BY <2>5, <2>7, HeadsOne
  <2>10. Heads(b, l, d) = 0
    <3>1. ASSUME NEW k \in l + 1 .. d PROVE b[k] \in Tails
      <4>1. k \in 1 .. d /\ ~ (k <= l)
        BY <1>2, <2>7
      <4>. QED
        BY <1>1, <2>4, <4>1
    <3>2. Starts(b, l, d) = {}
      BY <3>1 DEF Starts
    <3>. QED
      BY <3>2, FS_EmptySet DEF Heads
  <2>11. Heads(b, i, d) = Heads(b, i, l) + Heads(b, l, d)
    BY <1>2, <2>7, HeadsSplit
  <2>12. Heads(b, z, d) = Heads(b, z, i) + Heads(b, i, d)
    BY <1>2, <1>3, <2>7, HeadsSplit
  <2>13. PICK c, k : c = Cut(b, z, i) /\ k = IF t.usize >= 1 THEN t.usize - 1 ELSE 0
    OBVIOUS
  <2>14. Text(c) /\ Chars(c) = Heads(b, z, i)
    BY <1>2, <1>3, <2>7, <2>8, <2>13, CutText
  <2>15. Chars(c) \in Nat
    BY <2>14, CharsNat
  <2>16. Chars(b) = Chars(c) + 1
    BY <1>1, <2>7, <2>9, <2>10, <2>11, <2>12, <2>14, <2>15 DEF Chars
  <2>17. k \in Nat /\ (t.cached => k = Chars(c))
    BY <1>2, <2>13, <2>15, <2>16
  <2>18. Left(Counted(Sized(t, c), k), c)
    BY <1>2, <2>14, <2>17, LeftCounted
  <2>19. Prefix(b, i) = c
    BY <1>1, <2>13, PrefixIs
  <2>20. ss_popchar(t) = Counted(Sized(t, c), k)
    BY <1>1, <1>5, <2>2, <2>6, <2>13, <2>19 DEF ss_popchar
  <2>. QED
    BY <1>1, <2>8, <2>13, <2>18, <2>20
<1>. QED
  BY <1>4, <1>5

----------------------------------------------------------------------------
(* The invariant, and the steps.                                           *)

\* A string of the client: good, and no longer than the bound.
Fits(t) == Good(t) /\ Len(t.bytes) <= MaxLen

IInv ==
  /\ str \in [Var -> [bytes : Seq(Byte), cached : BOOLEAN, usize : Nat]]
  /\ \A s \in Var : Fits(str[s])

\* No more characters than bytes, no more bytes than the bound.
LEMMA FitsKept ==
  ASSUME NEW t, Fits(t)
  PROVE  Kept(t) /\ Good(t)
<1>1. Len(t.bytes) \in Nat /\ t.usize \in Nat
  BY GoodText DEF Fits
<1>. QED
  BY <1>1, SStringAssumption DEF Fits, Good, Kept

\* A call that leaves a good string keeps the invariant ...
LEMMA BecomesKeeps ==
  ASSUME IInv, NEW s \in Var, NEW r, Good(r), Becomes(s, r)
  PROVE  IInv'
<1>1. Len(r.bytes) <= MaxLen /\ str' = [str EXCEPT ![s] = r]
  BY DEF Becomes
<1>2. r \in [bytes : Seq(Byte), cached : BOOLEAN, usize : Nat] /\ Fits(r)
  BY <1>1 DEF Good, Fits
<1>3. str \in [Var -> [bytes : Seq(Byte), cached : BOOLEAN, usize : Nat]]
  BY DEF IInv
<1>4. str' \in [Var -> [bytes : Seq(Byte), cached : BOOLEAN, usize : Nat]]
  BY <1>1, <1>2, <1>3
<1>5. ASSUME NEW x \in Var PROVE Fits(str'[x])
  <2>1. CASE x = s
    BY <1>1, <1>2, <1>3, <2>1
  <2>2. CASE x # s
    <3>1. str'[x] = str[x]
      BY <1>1, <1>3, <2>2
    <3>. QED
      BY <3>1 DEF IInv
  <2>. QED
    BY <2>1, <2>2
<1>. QED
  BY <1>4, <1>5 DEF IInv

\* ... whether or not there is memory for it.
LEMMA GrowsKeeps ==
  ASSUME IInv, NEW s \in Var, NEW r, Good(r), NEW f, Fits(f), Grows(s, r, f)
  PROVE  IInv'
<1>1. CASE Becomes(s, r)
  BY <1>1, BecomesKeeps
<1>2. CASE str' = [str EXCEPT ![s] = f]
  <2>1. Becomes(s, f) /\ Good(f)
    BY <1>2 DEF Becomes, Fits
  <2>. QED
    BY <2>1, BecomesKeeps
<1>. QED
  BY <1>1, <1>2 DEF Grows

\* What the invariant says of one string.
LEMMA InvFits ==
  ASSUME IInv, NEW s \in Var
  PROVE  Fits(str[s]) /\ Kept(str[s]) /\ Good(str[s])
BY FitsKept DEF IInv

\* What a sequence begins with.
LEMMA PrefixOfConcat ==
  ASSUME NEW S, NEW a \in Seq(S), NEW d \in Seq(S)
  PROVE  Prefix(a \o d, Len(a)) = a
<1>1. PICK c, z, n : c = a \o d /\ z = 0 /\ n = Len(a)
  OBVIOUS
<1>2. Len(a) \in Nat /\ Len(d) \in Nat /\ c \in Seq(S) /\ Len(c) = Len(a) + Len(d)
  BY <1>1, LenProperties, ConcatProperties
<1>3. \A k \in 1 .. n : c[k] = a[k]
  <2>1. \A k \in 1 .. Len(a) + Len(d) : c[k] = IF k <= Len(a) THEN a[k] ELSE d[k - Len(a)]
    BY <1>1, ConcatProperties
  <2>. QED
    BY <1>1, <1>2, <2>1
<1>4. z \in 0 .. Len(c) /\ n \in z .. Len(c)
  BY <1>1, <1>2
<1>5. /\ Cut(c, z, n) \in Seq(S)
      /\ Len(Cut(c, z, n)) = n - z
      /\ \A k \in 1 .. n - z : Cut(c, z, n)[k] = c[z + k]
  BY <1>2, <1>4, CutIs
<1>6. PICK p : p = Cut(c, z, n)
  OBVIOUS
<1>7. p \in Seq(S) /\ Len(p) = n /\ \A k \in 1 .. n : p[k] = c[k]
  BY <1>1, <1>2, <1>5, <1>6
<1>8. p = a
  BY <1>1, <1>3, <1>7, SeqEqual
<1>. QED
  BY <1>1, <1>6, <1>8, PrefixIs

\* One more source: its count is that of its bytes, or 0 and not used.
LEMMA AlsoLeaves ==
  ASSUME IInv, NEW s \in Var, NEW x \in Var, Known(x), NEW r, Good(r),
         NEW d \in Seq(Byte), x = s => r.bytes = str[s].bytes \o d
  PROVE  Left(Also(s, r, x), r.bytes \o str[x].bytes)
<1>1. PICK o, b, k : o = str[x] /\ b = o.bytes /\ k = o.usize
  OBVIOUS
<1>2. Good(o) /\ Text(b) /\ b \in Seq(Byte) /\ k \in Nat
  BY <1>1, InvFits, GoodText
<1>3. k = 0 \/ k = Chars(b)
  BY <1>1, <1>2, GoodText DEF Known
<1>4. Left(ss_cat_cn_raw(r, b, k), r.bytes \o b)
  BY <1>2, <1>3, CatRaw
<1>5. x = s => Prefix(r.bytes, Len(str[s].bytes)) = b
  <2>1. Prefix(b \o d, Len(b)) = b
    BY <1>2, PrefixOfConcat
  <2>2. x = s => r.bytes = b \o d
    BY <1>1
  <2>. QED
    BY <1>1, <2>1, <2>2
<1>6. Also(s, r, x) = ss_cat_cn_raw(r, b, k)
  BY <1>1, <1>5 DEF Also
<1>. QED
  BY <1>1, <1>4, <1>6

\* ss_cat.
LEMMA CatKeeps ==
  ASSUME IInv, NEW s \in Var, NEW x \in Var, Known(x), ss_cat(s, x)
  PROVE  IInv'
<1>1. PICK t, d, r : t = str[s] /\ d = << >> /\ r = Also(s, t, x)
  OBVIOUS
<1>2. Good(t) /\ Fits(t) /\ d \in Seq(Byte) /\ t.bytes = t.bytes \o d
  BY <1>1, InvFits, GoodText, NoText, CharsNat, ConcatEmptySeq
<1>3. Good(r)
  BY <1>1, <1>2, AlsoLeaves DEF Left
<1>4. Grows(s, r, t)
  BY <1>1 DEF ss_cat
<1>. QED
  BY <1>2, <1>3, <1>4, GrowsKeeps

\* ss_cat of two strings.
LEMMA Cat2Keeps ==
  ASSUME IInv, NEW s \in Var, NEW x \in Var, NEW y \in Var, Known(x), Known(y), ss_cat2(s, x, y)
  PROVE  IInv'
<1>1. PICK t, d, u, r, b : t = str[s] /\ d = << >> /\ u = Also(s, t, x) /\ r = Also(s, u, y)
                           /\ b = str[x].bytes
  OBVIOUS
<1>2. Good(t) /\ Fits(t) /\ d \in Seq(Byte) /\ t.bytes = t.bytes \o d /\ b \in Seq(Byte)
  BY <1>1, InvFits, GoodText, NoText, CharsNat, ConcatEmptySeq
<1>3. Left(u, t.bytes \o b)
  BY <1>1, <1>2, AlsoLeaves
<1>4. Good(u) /\ u.bytes = str[s].bytes \o b
  BY <1>1, <1>3 DEF Left
<1>5. Good(r)
  BY <1>1, <1>2, <1>4, AlsoLeaves DEF Left
<1>6. PICK q : q = IF b = << >> THEN t ELSE r
  OBVIOUS
<1>7. Good(q)
  BY <1>2, <1>5, <1>6
<1>8. Grows(s, q, t)
  BY <1>1, <1>6 DEF ss_cat2
<1>. QED
  BY <1>2, <1>7, <1>8, GrowsKeeps

\* ss_cpy.
LEMMA CpyKeeps ==
  ASSUME IInv, NEW s \in Var, NEW x \in Var, Known(x), ss_cpy(s, x)
  PROVE  IInv'
<1>1. CASE s = x
  <2>1. str' = str
    BY <1>1 DEF ss_cpy
  <2>. QED
    BY <2>1 DEF IInv
<1>2. CASE s # x
  <2>1. PICK t, d, r : t = Cleared /\ d = << >> /\ r = Also(s, t, x)
    OBVIOUS
  <2>2. Fits(t) /\ Good(t) /\ d \in Seq(Byte)
    BY <2>1, LeftCleared, NoText, CharsNat, SStringAssumption DEF Left, Fits
  <2>3. Good(r)
    BY <1>2, <2>1, <2>2, AlsoLeaves DEF Left
  <2>4. Grows(s, r, t)
    BY <1>2, <2>1 DEF ss_cpy
  <2>. QED
    BY <2>2, <2>3, <2>4, GrowsKeeps
<1>. QED
  BY <1>1, <1>2

\* ss_cat_cn, ss_cat_wn.
LEMMA CatCnKeeps ==
  ASSUME IInv, NEW s \in Var, NEW c \in Char, ss_cat_cn(s, c)
  PROVE  IInv'
<1>1. PICK t, z, r : t = str[s] /\ z = 0 /\ r = ss_cat_cn_raw(t, c, z)
  OBVIOUS
<1>2. Good(t) /\ Fits(t) /\ Text(c) /\ z \in Nat
  BY <1>1, InvFits, CharText
<1>3. Good(r)
  BY <1>1, <1>2, CatRaw DEF Left
<1>4. Grows(s, r, t)
  BY <1>1 DEF ss_cat_cn
<1>. QED
  BY <1>2, <1>3, <1>4, GrowsKeeps

\* ss_cat_wn.
LEMMA CatWnKeeps ==
  ASSUME IInv, NEW s \in Var, NEW c \in Char, ss_cat_wn(s, c)
  PROVE  IInv'
<1>1. PICK t, b, k, r : /\ t = str[s] /\ b = t.bytes \o c /\ k = t.usize + 1
                        /\ r = Counted(Sized(t, b), k)
  OBVIOUS
<1>2. /\ Good(t) /\ Kept(t) /\ Fits(t) /\ Text(c) /\ Chars(c) = 1 /\ Text(t.bytes)
      /\ t.usize \in Nat /\ (t.cached => t.usize = Chars(t.bytes))
  BY <1>1, InvFits, CharText, GoodText
<1>3. Text(b) /\ Chars(b) = Chars(t.bytes) + Chars(c)
  BY <1>1, <1>2, JoinText
<1>4. k \in Nat /\ (t.cached => k = Chars(b)) /\ t.usize <= MaxLen
  BY <1>1, <1>2, <1>3 DEF Kept
<1>5. Good(r)
  BY <1>1, <1>2, <1>3, <1>4, LeftCounted DEF Left
<1>6. Grows(s, r, t)
  BY <1>1 DEF ss_cat_wn
<1>. QED
  BY <1>2, <1>5, <1>6, GrowsKeeps

----------------------------------------------------------------------------
(* Calls in place.                                                         *)

\* ss_rtrim leaves no more bytes than there were.
LEMMA RTrimFits ==
  ASSUME NEW t, Fits(t)
  PROVE  Fits(aux_rtrim(t, t, TRUE, FALSE))
<1>1. PICK q : q = aux_rtrim(t, t, TRUE, FALSE)
  OBVIOUS
<1>2. Kept(t) /\ Good(t)
  BY FitsKept
<1>3. Good(q) /\ q.bytes = RTrim(t.bytes)
  BY <1>1, <1>2, RTrimInPlaceLeaves DEF Left
<1>4. PICK b, z, e : b = t.bytes /\ z = 0 /\ e = Len(b) - After(b)
  OBVIOUS
<1>5. Text(b) /\ Len(b) \in Nat /\ Len(b) <= MaxLen /\ b \in Seq(Byte) /\ Whole(b)
  BY <1>2, <1>4, GoodText DEF Fits, Text
<1>6. After(b) \in Nat /\ e \in Offsets(b)
  BY <1>4, <1>5, AfterOffset
<1>7. z \in Offsets(b) /\ e \in Nat /\ z <= e /\ e <= Len(b)
  BY <1>4, <1>5, <1>6, Ends
<1>8. Len(Cut(b, z, e)) = e - z
  BY <1>5, <1>6, <1>7, CutLen
<1>9. Len(q.bytes) <= MaxLen
  BY <1>3, <1>4, <1>5, <1>7, <1>8, SStringAssumption DEF RTrim
<1>. QED
  BY <1>1, <1>3, <1>9 DEF Fits

\* Each call in place leaves a good string.
LEMMA InPlaceKeeps ==
  ASSUME IInv, NEW s \in Var, InPlace(s)
  PROVE  IInv'
<1>1. PICK t : t = str[s]
  OBVIOUS
<1>2. Fits(t) /\ Kept(t) /\ Good(t)
  BY <1>1, InvFits
<1>3. 0 .. MaxLen \subseteq Nat
  BY SStringAssumption
<1>4. CASE \E off \in Offsets(t.bytes) : \E n \in Lengths(t.bytes, off) :
             Becomes(s, SubstrInPlace(t, off, n))
  <2>0. PICK off \in Offsets(t.bytes) :
          \E n \in Lengths(t.bytes, off) : Becomes(s, SubstrInPlace(t, off, n))
    BY <1>4
  <2>1. PICK n \in Lengths(t.bytes, off) : Becomes(s, SubstrInPlace(t, off, n))
    BY <2>0
  <2>2. PICK r : r = SubstrInPlace(t, off, n)
    OBVIOUS
  <2>3. Good(r)
    BY <1>2, <2>2, SubstrInPlaceLeaves DEF Left
  <2>. QED
    BY <2>1, <2>2, <2>3, BecomesKeeps
<1>5. CASE \E off \in Offsets(t.bytes) : \E n \in Lengths(t.bytes, off) :
             Becomes(s, aux_erase(t, t, TRUE, FALSE, off, n))
  <2>0. PICK off \in Offsets(t.bytes) :
          \E n \in Lengths(t.bytes, off) : Becomes(s, aux_erase(t, t, TRUE, FALSE, off, n))
    BY <1>5
  <2>1. PICK n \in Lengths(t.bytes, off) : Becomes(s, aux_erase(t, t, TRUE, FALSE, off, n))
    BY <2>0
  <2>2. PICK r : r = aux_erase(t, t, TRUE, FALSE, off, n)
    OBVIOUS
  <2>3. Good(r)
    BY <1>2, <2>2, EraseInPlaceLeaves DEF Left
  <2>. QED
    BY <2>1, <2>2, <2>3, BecomesKeeps
<1>6. CASE \E k \in 0 .. MaxLen, n \in 0 .. MaxLen : Becomes(s, SubstrUInPlace(t, k, n))
  <2>1. PICK k \in Nat, n \in Nat : Becomes(s, SubstrUInPlace(t, k, n))
    BY <1>3, <1>6
  <2>2. PICK r : r = SubstrUInPlace(t, k, n)
    OBVIOUS
  <2>3. Good(r)
    BY <1>2, <2>2, SubstrUInPlaceLeaves DEF Left
  <2>. QED
    BY <2>1, <2>2, <2>3, BecomesKeeps
<1>7. CASE \E k \in 0 .. MaxLen, n \in 0 .. MaxLen :
             Becomes(s, aux_erase_u(t, t, TRUE, FALSE, k, n))
  <2>1. PICK k \in Nat, n \in Nat : Becomes(s, aux_erase_u(t, t, TRUE, FALSE, k, n))
    BY <1>3, <1>7
  <2>2. PICK r : r = aux_erase_u(t, t, TRUE, FALSE, k, n)
    OBVIOUS
  <2>3. Good(r)
    BY <1>2, <2>2, EraseUInPlaceLeaves DEF Left
  <2>. QED
    BY <2>1, <2>2, <2>3, BecomesKeeps
<1>8. CASE \E n \in Lengths(t.bytes, 0) : Grows(s, aux_resize(t, t, TRUE, FALSE, n), t)
  <2>1. PICK n \in Lengths(t.bytes, 0) : Grows(s, aux_resize(t, t, TRUE, FALSE, n), t)
    BY <1>8
  <2>2. PICK r : r = aux_resize(t, t, TRUE, FALSE, n)
    OBVIOUS
  <2>3. Good(r)
    BY <1>2, <2>2, ResizeInPlaceLeaves DEF Left
  <2>. QED
    BY <1>2, <2>1, <2>2, <2>3, GrowsKeeps
<1>9. CASE \E n \in 0 .. MaxLen : Grows(s, aux_resize_u(t, t, TRUE, FALSE, n), ss_len_u(t))
  <2>1. PICK n \in Nat : Grows(s, aux_resize_u(t, t, TRUE, FALSE, n), ss_len_u(t))
    BY <1>3, <1>9
  <2>2. PICK r, f : r = aux_resize_u(t, t, TRUE, FALSE, n) /\ f = ss_len_u(t)
    OBVIOUS
  <2>3. Good(f) /\ Fits(f)
    BY <1>2, <2>2, LenULeaves DEF Left, Fits
  <2>4. Good(r)
    <3>1. CASE n = Chars(t.bytes)
      <4>1. r = f
        <5>1. f.usize = n
          BY <1>2, <2>2, <3>1, LenULeaves
        <5>. QED
          BY <2>2, <5>1 DEF aux_resize_u
      <4>. QED
        BY <2>3, <4>1
    <3>2. CASE n # Chars(t.bytes)
      BY <1>2, <2>2, <3>2, ResizeUInPlaceLeaves DEF Left
    <3>. QED
      BY <3>1, <3>2
  <2>. QED
    BY <2>1, <2>2, <2>3, <2>4, GrowsKeeps
<1>10. CASE Becomes(s, aux_ltrim(t, t, TRUE, FALSE))
  <2>1. PICK r : r = aux_ltrim(t, t, TRUE, FALSE)
    OBVIOUS
  <2>2. Good(r)
    BY <1>2, <2>1, LTrimInPlaceLeaves DEF Left
  <2>. QED
    BY <1>10, <2>1, <2>2, BecomesKeeps
<1>11. CASE Becomes(s, aux_rtrim(t, t, TRUE, FALSE))
  <2>1. PICK r : r = aux_rtrim(t, t, TRUE, FALSE)
    OBVIOUS
  <2>2. Good(r)
    BY <1>2, <2>1, RTrimInPlaceLeaves DEF Left
  <2>. QED
    BY <1>11, <2>1, <2>2, BecomesKeeps
<1>12. CASE LET r == aux_rtrim(t, t, TRUE, FALSE) IN Becomes(s, aux_ltrim(r, r, TRUE, FALSE))
  <2>1. PICK q, r : q = aux_rtrim(t, t, TRUE, FALSE) /\ r = aux_ltrim(q, q, TRUE, FALSE)
    OBVIOUS
  <2>2. Left(q, RTrim(t.bytes))
    BY <1>2, <2>1, RTrimInPlaceLeaves
  <2>3. Kept(q)
    BY <1>2, <2>1, RTrimFits, FitsKept
  <2>4. Good(r)
    BY <2>1, <2>3, LTrimInPlaceLeaves DEF Left
  <2>. QED
    BY <1>12, <2>1, <2>4, BecomesKeeps
<1>13. CASE Becomes(s, ss_popchar(t))
  <2>1. PICK r : r = ss_popchar(t)
    OBVIOUS
  <2>2. Good(r)
    BY <1>2, <2>1, PopLeaves DEF Left
  <2>. QED
    BY <1>13, <2>1, <2>2, BecomesKeeps
<1>14. CASE Becomes(s, ss_len_u(t))
  <2>1. PICK r : r = ss_len_u(t)
    OBVIOUS
  <2>2. Good(r)
    BY <1>2, <2>1, LenULeaves DEF Left
  <2>. QED
    BY <1>14, <2>1, <2>2, BecomesKeeps
<1>. QED
  BY <1>1, <1>4, <1>5, <1>6, <1>7, <1>8, <1>9, <1>10, <1>11, <1>12, <1>13, <1>14 DEF InPlace

----------------------------------------------------------------------------
(* Calls from another string.                                              *)

\* Each call that copies leaves one, or what there was when memory is missing.
LEMMA IntoKeeps ==
  ASSUME IInv, NEW s \in Var, NEW x \in Var, Into(s, x)
  PROVE  IInv'
<1>1. PICK t, o : t = str[s] /\ o = str[x]
  OBVIOUS
<1>2. Fits(t) /\ Kept(t) /\ Good(t) /\ Good(o)
  BY <1>1, InvFits
<1>3. 0 .. MaxLen \subseteq Nat
  BY SStringAssumption
<1>4. PICK cat \in BOOLEAN :
        LET from == IF cat THEN t ELSE Cleared
        IN  \/ \E off \in Offsets(o.bytes) : \E n \in Lengths(o.bytes, off) :
                 \/ Grows(s, ss_cat_substr(from, o, off, n), from)
                 \/ Grows(s, aux_erase(t, o, FALSE, cat, off, n), t)
            \/ \E coff \in 0 .. MaxLen, n \in 0 .. MaxLen :
                 \/ Grows(s, ss_cat_substr_u(from, o, coff, n), from)
                 \/ /\ ~t.cached /\ coff < CountChars(o.bytes)
                    /\ Becomes(s, aux_erase_u(t, o, FALSE, cat, coff, n))
            \/ \E n \in Lengths(o.bytes, 0) : Grows(s, aux_resize(t, o, FALSE, cat, n), t)
            \/ Grows(s, aux_ltrim(t, o, FALSE, cat), t)
            \/ Grows(s, aux_rtrim(t, o, FALSE, cat), t)
            \/ LET r == aux_ltrim(t, o, FALSE, cat)
               IN  /\ Len(r.bytes) <= MaxLen
                   /\ Grows(s, aux_rtrim(r, r, TRUE, FALSE), aux_rtrim(t, t, TRUE, FALSE))
  BY <1>1 DEF Into
<1>5. PICK f : f = IF cat THEN t ELSE Cleared
  OBVIOUS
<1>6. Fits(f) /\ Good(f)
  BY <1>2, <1>5, LeftCleared, NoText, SStringAssumption DEF Fits, Left
<1>7. CASE \E off \in Offsets(o.bytes) : \E n \in Lengths(o.bytes, off) :
             Grows(s, ss_cat_substr(f, o, off, n), f)
  <2>1. PICK off \in Offsets(o.bytes) : \E n \in Lengths(o.bytes, off) :
             Grows(s, ss_cat_substr(f, o, off, n), f)
    BY <1>7
  <2>2. PICK n \in Lengths(o.bytes, off) : Grows(s, ss_cat_substr(f, o, off, n), f)
    BY <2>1
  <2>3. PICK r : r = ss_cat_substr(f, o, off, n)
    OBVIOUS
  <2>4. Good(r)
    BY <1>2, <1>6, <2>3, SubstrLeaves DEF Left
  <2>. QED
    BY <1>6, <2>2, <2>3, <2>4, GrowsKeeps
<1>8. CASE \E off \in Offsets(o.bytes) : \E n \in Lengths(o.bytes, off) :
             Grows(s, aux_erase(t, o, FALSE, cat, off, n), t)
  <2>1. PICK off \in Offsets(o.bytes) : \E n \in Lengths(o.bytes, off) :
             Grows(s, aux_erase(t, o, FALSE, cat, off, n), t)
    BY <1>8
  <2>2. PICK n \in Lengths(o.bytes, off) : Grows(s, aux_erase(t, o, FALSE, cat, off, n), t)
    BY <2>1
  <2>3. PICK r : r = aux_erase(t, o, FALSE, cat, off, n)
    OBVIOUS
  <2>4. Good(r)
    BY <1>2, <2>3, EraseLeaves DEF Left
  <2>. QED
    BY <1>2, <2>2, <2>3, <2>4, GrowsKeeps
<1>9. CASE \E k \in 0 .. MaxLen, n \in 0 .. MaxLen : Grows(s, ss_cat_substr_u(f, o, k, n), f)
  <2>1. PICK k \in Nat, n \in Nat : Grows(s, ss_cat_substr_u(f, o, k, n), f)
    BY <1>3, <1>9
  <2>2. PICK r : r = ss_cat_substr_u(f, o, k, n)
    OBVIOUS
  <2>3. Good(r)
    BY <1>2, <1>6, <2>2, SubstrULeaves DEF Left
  <2>. QED
    BY <1>6, <2>1, <2>2, <2>3, GrowsKeeps
<1>10. CASE \E k \in 0 .. MaxLen, n \in 0 .. MaxLen :
              ~ t.cached /\ Becomes(s, aux_erase_u(t, o, FALSE, cat, k, n))
  <2>1. PICK k \in Nat, n \in Nat :
              ~ t.cached /\ Becomes(s, aux_erase_u(t, o, FALSE, cat, k, n))
    BY <1>3, <1>10
  <2>2. PICK r : r = aux_erase_u(t, o, FALSE, cat, k, n)
    OBVIOUS
  <2>3. ~ t.cached /\ Becomes(s, r)
    BY <2>1, <2>2
  <2>4. Good(r)
    BY <1>2, <2>2, <2>3, EraseULeaves DEF Left
  <2>. QED
    BY <2>3, <2>4, BecomesKeeps
<1>11. CASE \E n \in Lengths(o.bytes, 0) : Grows(s, aux_resize(t, o, FALSE, cat, n), t)
  <2>1. PICK n \in Lengths(o.bytes, 0) : Grows(s, aux_resize(t, o, FALSE, cat, n), t)
    BY <1>11
  <2>2. PICK r : r = aux_resize(t, o, FALSE, cat, n)
    OBVIOUS
  <2>3. Good(r)
    BY <1>2, <2>2, ResizeLeaves DEF Left
  <2>. QED
    BY <1>2, <2>1, <2>2, <2>3, GrowsKeeps
<1>12. CASE Grows(s, aux_ltrim(t, o, FALSE, cat), t)
  <2>1. PICK r : r = aux_ltrim(t, o, FALSE, cat)
    OBVIOUS
  <2>2. Good(r)
    BY <1>2, <2>1, LTrimLeaves DEF Left
  <2>. QED
    BY <1>2, <1>12, <2>1, <2>2, GrowsKeeps
<1>13. CASE Grows(s, aux_rtrim(t, o, FALSE, cat), t)
  <2>1. PICK r : r = aux_rtrim(t, o, FALSE, cat)
    OBVIOUS
  <2>2. Good(r)
    BY <1>2, <2>1, RTrimLeaves DEF Left
  <2>. QED
    BY <1>2, <1>13, <2>1, <2>2, GrowsKeeps
<1>14. CASE LET r == aux_ltrim(t, o, FALSE, cat)
            IN  /\ Len(r.bytes) <= MaxLen
                /\ Grows(s, aux_rtrim(r, r, TRUE, FALSE), aux_rtrim(t, t, TRUE, FALSE))
  <2>1. PICK r, q, g : /\ r = aux_ltrim(t, o, FALSE, cat) /\ q = aux_rtrim(r, r, TRUE, FALSE)
                       /\ g = aux_rtrim(t, t, TRUE, FALSE)
    OBVIOUS
  <2>2. Good(r) /\ Len(r.bytes) <= MaxLen
    BY <1>2, <1>14, <2>1, LTrimLeaves DEF Left
  <2>3. Kept(r)
    BY <2>2, FitsKept DEF Fits
  <2>4. Good(q)
    BY <2>1, <2>3, RTrimInPlaceLeaves DEF Left
  <2>5. Fits(g)
    BY <1>2, <2>1, RTrimFits
  <2>6. Grows(s, q, g)
    BY <1>14, <2>1
  <2>. QED
    BY <2>4, <2>5, <2>6, GrowsKeeps
<1>. QED
  BY <1>4, <1>5, <1>7, <1>8, <1>9, <1>10, <1>11, <1>12, <1>13, <1>14

\* ss_cat_resize_u also caches the count of its source.
LEMMA ResizeUIntoKeeps ==
  ASSUME IInv, NEW s \in Var, NEW x \in Var, s # x, ResizeUInto(s, x)
  PROVE  IInv'
<1>1. PICK t, o, f : t = str[s] /\ o = str[x] /\ f = ss_len_u(o)
  OBVIOUS
<1>2. Good(t) /\ Good(o) /\ Fits(o)
  BY <1>1, InvFits
<1>3. Fits(f)
  BY <1>1, <1>2, LenULeaves DEF Left, Fits
<1>4. PICK cat \in BOOLEAN, n \in 0 .. MaxLen :
        LET r == aux_resize_u(str[s], str[x], FALSE, cat, n)
        IN  \/ Len(r.bytes) <= MaxLen /\ str' = [str EXCEPT ![s] = r, ![x] = ss_len_u(@)]
            \/ Len(r.bytes) > Len(str[s].bytes) /\ str' = [str EXCEPT ![x] = ss_len_u(@)]
  BY DEF ResizeUInto
<1>5. PICK r : r = aux_resize_u(t, o, FALSE, cat, n)
  OBVIOUS
<1>6. \/ Len(r.bytes) <= MaxLen /\ str' = [str EXCEPT ![s] = r, ![x] = ss_len_u(@)]
      \/ str' = [str EXCEPT ![x] = ss_len_u(@)]
  BY <1>1, <1>4, <1>5
<1>7. n \in Nat
  BY SStringAssumption
<1>8. Good(r)
  <2>1. CASE n = Chars(o.bytes)
    <3>1. f.usize = n
      BY <1>1, <1>2, <2>1, LenULeaves
    <3>2. r = t
      BY <1>1, <1>5, <3>1 DEF aux_resize_u
    <3>. QED
      BY <1>2, <3>2
  <2>2. CASE n # Chars(o.bytes)
    BY <1>2, <1>5, <1>7, <2>2, ResizeULeaves DEF Left
  <2>. QED
    BY <2>1, <2>2
<1>9. str \in [Var -> [bytes : Seq(Byte), cached : BOOLEAN, usize : Nat]]
  BY DEF IInv
<1>10. PICK T : T = [bytes : Seq(Byte), cached : BOOLEAN, usize : Nat]
  OBVIOUS
<1>11. r \in T /\ f \in T /\ str \in [Var -> T]
  BY <1>3, <1>8, <1>9, <1>10 DEF Good, Fits
<1>12. \/ Len(r.bytes) <= MaxLen /\ str' = [str EXCEPT ![s] = r, ![x] = f]
       \/ str' = [str EXCEPT ![x] = f]
  BY <1>1, <1>6, <1>11
<1>13. str' \in [Var -> T]
  BY <1>11, <1>12
<1>14. ASSUME NEW v \in Var PROVE Fits(str'[v])
  <2>1. str'[v] = str[v] \/ str'[v] = f \/ (str'[v] = r /\ Len(r.bytes) <= MaxLen)
    BY <1>11, <1>12
  <2>2. Fits(str[v])
    BY InvFits
  <2>. QED
    BY <1>3, <1>8, <2>1, <2>2 DEF Fits
<1>. QED
  BY <1>10, <1>13, <1>14 DEF IInv

----------------------------------------------------------------------------
(* The theorems.                                                           *)

\* The client begins with empty strings.
LEMMA InitHolds ==
  ASSUME Init
  PROVE  IInv
<1>1. PICK c : c = Cleared
  OBVIOUS
<1>2. Good(c) /\ Fits(c)
  BY <1>1, LeftCleared, NoText, SStringAssumption DEF Left, Fits
<1>3. str = [s \in Var |-> c]
  BY <1>1 DEF Init
<1>4. c \in [bytes : Seq(Byte), cached : BOOLEAN, usize : Nat]
  BY <1>2 DEF Good
<1>. QED
  BY <1>2, <1>3, <1>4 DEF IInv

\* Every call keeps the invariant.
LEMMA StepKeeps ==
  ASSUME IInv, [Next]_str
  PROVE  IInv'
<1>1. CASE UNCHANGED str
  BY <1>1 DEF IInv
<1>2. CASE Next
  <2>1. CASE \E s \in Var, c \in Char : ss_cat_cn(s, c) \/ ss_cat_wn(s, c)
    BY <2>1, CatCnKeeps, CatWnKeeps
  <2>2. CASE \E s \in Var : ss_clear(s) \/ InPlace(s)
    <3>1. ASSUME NEW s \in Var, ss_clear(s) PROVE IInv'
      <4>1. PICK c : c = Cleared
        OBVIOUS
      <4>2. Good(c) /\ Becomes(s, c)
        BY <3>1, <4>1, LeftCleared DEF ss_clear, Left
      <4>. QED
        BY <4>2, BecomesKeeps
    <3>. QED
      BY <2>2, <3>1, InPlaceKeeps
  <2>3. CASE \E s, x \in Var : Known(x) /\ (ss_cat(s, x) \/ ss_cpy(s, x))
    BY <2>3, CatKeeps, CpyKeeps
  <2>4. CASE \E s, x, y \in Var : Known(x) /\ Known(y) /\ ss_cat2(s, x, y)
    BY <2>4, Cat2Keeps
  <2>5. CASE \E s \in Var : \E x \in Var \ {s} : Into(s, x) \/ ResizeUInto(s, x)
    BY <2>5, IntoKeeps, ResizeUIntoKeeps
  <2>. QED
    BY <1>2, <2>1, <2>2, <2>3, <2>4, <2>5 DEF Next
<1>. QED
  BY <1>1, <1>2

\* Strings stay what they are for: whatever calls are made, no character is cut
\* and no string is longer than its bound or counts more than that.
THEOREM SStringTypeOK == Spec => []TypeOK
<1>1. IInv => TypeOK
  <2>1. ASSUME IInv, NEW s \in Var
        PROVE  /\ Len(str[s].bytes) <= MaxLen
               /\ Whole(str[s].bytes)
               /\ str[s].cached \in BOOLEAN
               /\ str[s].usize \in 0 .. MaxLen
    <3>1. Fits(str[s]) /\ Kept(str[s]) /\ Good(str[s])
      BY <2>1, InvFits
    <3>. QED
      BY <3>1, SStringAssumption DEF Fits, Kept, Good
  <2>. QED
    BY <2>1 DEF TypeOK
<1>. QED
  BY <1>1, InitHolds, StepKeeps, PTL DEF Spec

\* The cached number of characters is that of the bytes, after any sequence of
\* calls on any number of strings of any length.
THEOREM SStringCacheExact == Spec => []CacheExact
<1>1. IInv => CacheExact
  <2>1. ASSUME IInv, NEW s \in Var, str[s].cached
        PROVE  str[s].usize = CountChars(str[s].bytes)
    <3>1. PICK t, b : t = str[s] /\ b = t.bytes
      OBVIOUS
    <3>2. Good(t) /\ Text(b)
      BY <2>1, <3>1, InvFits, GoodText
    <3>3. CountChars(b) = Chars(b)
      BY <3>2, CountCharsIs
    <3>. QED
      BY <2>1, <3>1, <3>2, <3>3 DEF Good
  <2>. QED
    BY <2>1 DEF CacheExact
<1>. QED
  BY <1>1, InitHolds, StepKeeps, PTL DEF Spec

----------------------------------------------------------------------------
(* In place, into another string, and at the end of one.                   *)

\* Three calls that leave the same part of a text, after what there was, agree.
LEMMA AgreeBy ==
  ASSUME NEW t, NEW b, Good(t), b \in Seq(Byte), NEW r, NEW there, NEW end,
         r.bytes = b, there.bytes = << >> \o b, end.bytes = t.bytes \o b
  PROVE  Agree(t, r, there, end)
<1>1. << >> \o b = b
  BY ConcatEmptySeq
<1>. QED
  BY <1>1 DEF Agree

\* The bytes of a string of which the bytes are replaced.
LEMMA BytesOf ==
  ASSUME NEW t, Good(t), NEW b, NEW k
  PROVE  Counted(Sized(t, b), k).bytes = b /\ Uncached(Sized(t, b)).bytes = b
<1>1. t \in [bytes : Seq(Byte), cached : BOOLEAN, usize : Nat]
  BY DEF Good
<1>2. PICK u : u = Sized(t, b)
  OBVIOUS
<1>3. u = [bytes |-> b, cached |-> t.cached, usize |-> t.usize]
  BY <1>1, <1>2 DEF Sized
<1>4. Counted(u, k).bytes = b
  BY <1>3 DEF Counted
<1>5. Uncached(u).bytes = b
  BY <1>3 DEF Uncached
<1>. QED
  BY <1>2, <1>4, <1>5

\* A text that is a part of one.
LEMMA PartText ==
  ASSUME NEW b, Text(b), NEW i \in Offsets(b), NEW j \in Offsets(b), i <= j
  PROVE  Cut(b, i, j) \in Seq(Byte) /\ Without(b, i, j, Len(b)) \in Seq(Byte)
<1>1. PICK d : d = Len(b)
  OBVIOUS
<1>2. d \in Offsets(b) /\ j <= d
  <2>1. b \in Seq(Byte)
    BY DEF Text
  <2>. QED
    BY <1>1, <2>1, Ends
<1>3. Text(Without(b, i, j, d))
  BY <1>2, WithoutText
<1>4. Text(Cut(b, i, j))
  BY CutText
<1>. QED
  BY <1>1, <1>3, <1>4 DEF Text

\* ss_substr, ss_cpy_substr and ss_cat_substr.
LEMMA SubstrAgrees ==
  ASSUME NEW t, Kept(t), NEW o, Kept(o), NEW off \in Offsets(o.bytes),
         NEW n \in Lengths(o.bytes, off)
  PROVE  Agree(t, SubstrInPlace(o, off, n), ss_cat_substr(Cleared, o, off, n),
                ss_cat_substr(t, o, off, n))
<1>1. PICK b, e, c, d : b = o.bytes /\ e = Stop(b, off, n) /\ c = Cut(b, off, e) /\ d = Cleared
  OBVIOUS
<1>2. Good(t) /\ Good(o) /\ Text(b) /\ Good(d) /\ d.bytes = << >>
  BY <1>1, GoodText, LeftCleared DEF Kept, Left
<1>3. e \in Offsets(b) /\ off <= e /\ off \in Offsets(b)
  BY <1>1, <1>2, StopOffset
<1>4. c \in Seq(Byte)
  BY <1>1, <1>2, <1>3, PartText
<1>5. SubstrInPlace(o, off, n).bytes = c
  BY <1>1, SubstrInPlaceLeaves DEF Left
<1>6. ss_cat_substr(d, o, off, n).bytes = << >> \o c
  BY <1>1, <1>2, SubstrLeaves DEF Left
<1>7. ss_cat_substr(t, o, off, n).bytes = t.bytes \o c
  BY <1>1, <1>2, SubstrLeaves DEF Left
<1>. QED
  BY <1>1, <1>2, <1>4, <1>5, <1>6, <1>7, AgreeBy

\* ss_erase, ss_cpy_erase and ss_cat_erase.
LEMMA EraseAgrees ==
  ASSUME NEW t, Kept(t), NEW o, Kept(o), NEW off \in Offsets(o.bytes),
         NEW n \in Lengths(o.bytes, off)
  PROVE  Agree(t, aux_erase(o, o, TRUE, FALSE, off, n), aux_erase(t, o, FALSE, FALSE, off, n),
                aux_erase(t, o, FALSE, TRUE, off, n))
<1>1. PICK b, e, c : /\ b = o.bytes /\ e = Stop(b, off, n)
                              /\ c = Without(b, off, e, Len(b))
  OBVIOUS
<1>2. Good(t) /\ Good(o) /\ Text(b)
  BY <1>1, GoodText DEF Kept
<1>3. e \in Offsets(b) /\ off <= e /\ off \in Offsets(b)
  BY <1>1, <1>2, StopOffset
<1>4. c \in Seq(Byte)
  BY <1>1, <1>2, <1>3, PartText
<1>5. aux_erase(o, o, TRUE, FALSE, off, n).bytes = c
  BY <1>1, EraseInPlaceLeaves DEF Left
<1>6. ASSUME NEW cat \in BOOLEAN PROVE aux_erase(t, o, FALSE, cat, off, n).bytes = At(t, cat) \o c
  BY <1>1, <1>2, EraseLeaves DEF Left
<1>7. /\ aux_erase(t, o, FALSE, FALSE, off, n).bytes = At(t, FALSE) \o c
      /\ aux_erase(t, o, FALSE, TRUE, off, n).bytes = At(t, TRUE) \o c
  BY <1>6
<1>8. At(t, FALSE) = << >> /\ At(t, TRUE) = t.bytes
  BY DEF At
<1>. QED
  BY <1>2, <1>4, <1>5, <1>7, <1>8, AgreeBy

\* ss_substr_u, ss_cpy_substr_u and ss_cat_substr_u.
LEMMA SubstrUAgrees ==
  ASSUME NEW t, Kept(t), NEW o, Kept(o), NEW k \in Nat, NEW n \in Nat
  PROVE  Agree(t, SubstrUInPlace(o, k, n), ss_cat_substr_u(Cleared, o, k, n),
                ss_cat_substr_u(t, o, k, n))
<1>1. PICK b, i, e, c, d : /\ b = o.bytes /\ i = UOff(b, k) /\ e = UStop(b, k, n)
                           /\ c = Cut(b, i, e) /\ d = Cleared
  OBVIOUS
<1>2. Good(t) /\ Good(o) /\ Text(b) /\ Good(d) /\ d.bytes = << >>
  BY <1>1, GoodText, LeftCleared DEF Kept, Left
<1>3. e \in Offsets(b) /\ i <= e /\ i \in Offsets(b)
  BY <1>1, <1>2, UOffOffset, UStopOffset
<1>4. c \in Seq(Byte)
  BY <1>1, <1>2, <1>3, PartText
<1>5. SubstrUInPlace(o, k, n).bytes = c
  BY <1>1, SubstrUInPlaceLeaves DEF Left
<1>6. ss_cat_substr_u(d, o, k, n).bytes = << >> \o c
  <2>1. Left(ss_cat_substr_u(d, o, k, n),
             d.bytes \o Cut(o.bytes, UOff(o.bytes, k), UStop(o.bytes, k, n)))
    BY <1>2, SubstrULeaves
  <2>. QED
    BY <1>1, <1>2, <2>1 DEF Left
<1>7. ss_cat_substr_u(t, o, k, n).bytes = t.bytes \o c
  BY <1>1, <1>2, SubstrULeaves DEF Left
<1>. QED
  BY <1>1, <1>2, <1>4, <1>5, <1>6, <1>7, AgreeBy

\* r has the bytes b.
Holds(r, b) == r.bytes = b

\* The bytes ss_cat_erase_u and ss_cpy_erase_u leave do not depend on the counts.
LEMMA EraseUBytes ==
  ASSUME NEW t, Good(t), NEW x, Good(x), NEW cat \in BOOLEAN, NEW k \in Nat, NEW n \in Nat,
         NEW c, c = Without(x.bytes, UOff(x.bytes, k), UStop(x.bytes, k, n), Len(x.bytes))
  PROVE  Holds(aux_erase_u(t, x, FALSE, cat, k, n), At(t, cat) \o c)
<1>1. PICK b, o, e, p, z, d, a : /\ b = x.bytes /\ o = UOff(b, k) /\ e = UStop(b, k, n)
                                 /\ p = UPart(b, k, n) /\ z = 0 /\ d = Len(b)
                                 /\ a = At(t, cat)
  OBVIOUS
<1>2. Text(b) /\ b \in Seq(Byte) /\ Whole(b)
  BY <1>1, GoodText DEF Good
<1>3. /\ o \in Offsets(b) /\ e \in Offsets(b) /\ z <= o /\ e <= d
      /\ d \in Offsets(b) /\ z \in Offsets(b)
  <2>1. d \in Offsets(b) /\ z \in Offsets(b)
    BY <1>1, <1>2, Ends
  <2>2. o \in Offsets(b) /\ e \in Offsets(b) /\ o \in Nat /\ e <= d
    BY <1>1, <1>2, UOffOffset, UStopOffset
  <2>. QED
    BY <1>1, <2>1, <2>2
<1>4. e = o + p.size
  BY <1>1 DEF UStop
<1>5. PICK f, g : f = Cut(b, z, o) /\ g = Cut(b, e, d)
  OBVIOUS
<1>6. f \in Seq(Byte) /\ g \in Seq(Byte) /\ a \in Seq(Byte)
  BY <1>1, <1>2, <1>3, <1>5, CutText, AtText, CharsNat
<1>7. (a \o f) \o g = a \o (f \o g)
  BY <1>6, ConcatAssociative
<1>8. Prefix(b, o) = f /\ Suffix(b, o + p.size) = g
  BY <1>1, <1>4, <1>5, PrefixIs, SuffixIs
<1>9. PICK out, w : out = (a \o f) \o g /\ w = t.usize + t.usize - p.count
  OBVIOUS
<1>10. PICK r : r = aux_erase_u(t, x, FALSE, cat, k, n)
  OBVIOUS
<1>11. r = IF t.usize > p.count THEN Counted(Sized(t, out), w) ELSE Uncached(Sized(t, out))
  BY <1>1, <1>8, <1>9, <1>10 DEF aux_erase_u, UOff, UPart
<1>12. Counted(Sized(t, out), w).bytes = out /\ Uncached(Sized(t, out)).bytes = out
  BY BytesOf
<1>13. r.bytes = out
  BY <1>11, <1>12
<1>. QED
  BY <1>1, <1>5, <1>7, <1>9, <1>10, <1>13 DEF Without, Holds

\* ss_erase_u, ss_cpy_erase_u and ss_cat_erase_u.
LEMMA EraseUAgrees ==
  ASSUME NEW t, Kept(t), NEW o, Kept(o), NEW k \in Nat, NEW n \in Nat
  PROVE  Agree(t, aux_erase_u(o, o, TRUE, FALSE, k, n), aux_erase_u(t, o, FALSE, FALSE, k, n),
                aux_erase_u(t, o, FALSE, TRUE, k, n))
<1>1. PICK b, i, e, c : /\ b = o.bytes /\ i = UOff(b, k) /\ e = UStop(b, k, n)
                                 /\ c = Without(b, i, e, Len(b))
  OBVIOUS
<1>2. Good(t) /\ Good(o) /\ Text(b)
  BY <1>1, GoodText DEF Kept
<1>3. e \in Offsets(b) /\ i <= e /\ i \in Offsets(b)
  BY <1>1, <1>2, UOffOffset, UStopOffset
<1>4. c \in Seq(Byte)
  BY <1>1, <1>2, <1>3, PartText
<1>5. aux_erase_u(o, o, TRUE, FALSE, k, n).bytes = c
  BY <1>1, EraseUInPlaceLeaves DEF Left
<1>6. ASSUME NEW cat \in BOOLEAN PROVE aux_erase_u(t, o, FALSE, cat, k, n).bytes = At(t, cat) \o c
  <2>1. c = Without(o.bytes, UOff(o.bytes, k), UStop(o.bytes, k, n), Len(o.bytes))
    BY <1>1
  <2>2. Holds(aux_erase_u(t, o, FALSE, cat, k, n), At(t, cat) \o c)
    BY <1>2, <2>1, EraseUBytes
  <2>. QED
    BY <2>2 DEF Holds
<1>7. /\ aux_erase_u(t, o, FALSE, FALSE, k, n).bytes = At(t, FALSE) \o c
      /\ aux_erase_u(t, o, FALSE, TRUE, k, n).bytes = At(t, TRUE) \o c
  BY <1>6
<1>8. At(t, FALSE) = << >> /\ At(t, TRUE) = t.bytes
  BY DEF At
<1>. QED
  BY <1>2, <1>4, <1>5, <1>7, <1>8, AgreeBy

\* ss_resize, ss_cpy_resize and ss_cat_resize.
LEMMA ResizeAgrees ==
  ASSUME NEW t, Kept(t), NEW o, Kept(o), NEW n \in Lengths(o.bytes, 0)
  PROVE  Agree(t, aux_resize(o, o, TRUE, FALSE, n), aux_resize(t, o, FALSE, FALSE, n),
                aux_resize(t, o, FALSE, TRUE, n))
<1>1. PICK b, c : b = o.bytes /\ c = Resized(b, n)
  OBVIOUS
<1>2. Good(t) /\ Good(o) /\ Text(b)
  BY <1>1, GoodText DEF Kept
<1>3. c \in Seq(Byte)
  BY <1>1, <1>2, ResizedText DEF Text
<1>4. aux_resize(o, o, TRUE, FALSE, n).bytes = c
  BY <1>1, ResizeInPlaceLeaves DEF Left
<1>5. ASSUME NEW cat \in BOOLEAN PROVE aux_resize(t, o, FALSE, cat, n).bytes = At(t, cat) \o c
  <2>1. Left(aux_resize(t, o, FALSE, cat, n), At(t, cat) \o Resized(o.bytes, n))
    BY <1>2, ResizeLeaves
  <2>. QED
    BY <1>1, <2>1 DEF Left
<1>6. /\ aux_resize(t, o, FALSE, FALSE, n).bytes = At(t, FALSE) \o c
      /\ aux_resize(t, o, FALSE, TRUE, n).bytes = At(t, TRUE) \o c
  BY <1>5
<1>7. At(t, FALSE) = << >> /\ At(t, TRUE) = t.bytes
  BY DEF At
<1>. QED
  BY <1>2, <1>3, <1>4, <1>6, <1>7, AgreeBy

\* ss_resize_u, ss_cpy_resize_u and ss_cat_resize_u.
LEMMA ResizeUAgrees ==
  ASSUME NEW t, Kept(t), NEW o, Kept(o), NEW n \in Nat, n # Chars(o.bytes)
  PROVE  Agree(t, aux_resize_u(o, o, TRUE, FALSE, n), aux_resize_u(t, o, FALSE, FALSE, n),
                aux_resize_u(t, o, FALSE, TRUE, n))
<1>1. PICK b, c : b = o.bytes /\ c = ResizedU(b, n)
  OBVIOUS
<1>2. Good(t) /\ Good(o) /\ Text(b)
  BY <1>1, GoodText DEF Kept
<1>3. Left(aux_resize_u(o, o, TRUE, FALSE, n), c)
  BY <1>1, ResizeUInPlaceLeaves
<1>4. c \in Seq(Byte)
  BY <1>3, GoodText DEF Left
<1>5. ASSUME NEW cat \in BOOLEAN PROVE aux_resize_u(t, o, FALSE, cat, n).bytes = At(t, cat) \o c
  BY <1>1, <1>2, ResizeULeaves DEF Left
<1>6. /\ aux_resize_u(t, o, FALSE, FALSE, n).bytes = At(t, FALSE) \o c
      /\ aux_resize_u(t, o, FALSE, TRUE, n).bytes = At(t, TRUE) \o c
  BY <1>5
<1>7. At(t, FALSE) = << >> /\ At(t, TRUE) = t.bytes
  BY DEF At
<1>. QED
  BY <1>2, <1>3, <1>4, <1>6, <1>7, AgreeBy DEF Left

\* ss_ltrim and ss_rtrim, to a string and at the end of one.
LEMMA TrimAgrees ==
  ASSUME NEW t, Kept(t), NEW o, Kept(o)
  PROVE  /\ Agree(t, aux_ltrim(o, o, TRUE, FALSE), aux_ltrim(t, o, FALSE, FALSE),
                   aux_ltrim(t, o, FALSE, TRUE))
         /\ Agree(t, aux_rtrim(o, o, TRUE, FALSE), aux_rtrim(t, o, FALSE, FALSE),
                   aux_rtrim(t, o, FALSE, TRUE))
<1>1. PICK b, c, e : b = o.bytes /\ c = LTrim(b) /\ e = RTrim(b)
  OBVIOUS
<1>2. Good(t) /\ Good(o) /\ Text(b)
  BY <1>1, GoodText DEF Kept
<1>3. c \in Seq(Byte) /\ e \in Seq(Byte)
  BY <1>1, <1>2, LTrimText, RTrimText DEF Text
<1>4. aux_ltrim(o, o, TRUE, FALSE).bytes = c /\ aux_rtrim(o, o, TRUE, FALSE).bytes = e
  BY <1>1, LTrimInPlaceLeaves, RTrimInPlaceLeaves DEF Left
<1>5. ASSUME NEW cat \in BOOLEAN
      PROVE  /\ aux_ltrim(t, o, FALSE, cat).bytes = At(t, cat) \o c
             /\ aux_rtrim(t, o, FALSE, cat).bytes = At(t, cat) \o e
  BY <1>1, <1>2, LTrimLeaves, RTrimLeaves DEF Left
<1>6. At(t, FALSE) = << >> /\ At(t, TRUE) = t.bytes
  BY DEF At
<1>7. /\ aux_ltrim(t, o, FALSE, FALSE).bytes = << >> \o c
      /\ aux_ltrim(t, o, FALSE, TRUE).bytes = t.bytes \o c
      /\ aux_rtrim(t, o, FALSE, FALSE).bytes = << >> \o e
      /\ aux_rtrim(t, o, FALSE, TRUE).bytes = t.bytes \o e
  BY <1>5, <1>6
<1>. QED
  BY <1>2, <1>3, <1>4, <1>7, AgreeBy

\* All of them, for any two good strings.
LEMMA KeptAgree ==
  ASSUME NEW t, Kept(t), NEW o, Kept(o)
  PROVE  AgreeOn(t, o)
<1>1. Good(o) /\ 0 .. MaxLen \subseteq Nat
  BY SStringAssumption DEF Kept
<1>2. CountChars(o.bytes) = Chars(o.bytes)
  BY <1>1, GoodText, CountCharsIs
<1>3. ASSUME NEW off \in Offsets(o.bytes), NEW n \in Lengths(o.bytes, off)
      PROVE  /\ Agree(t, SubstrInPlace(o, off, n), ss_cat_substr(Cleared, o, off, n),
                       ss_cat_substr(t, o, off, n))
             /\ Agree(t, aux_erase(o, o, TRUE, FALSE, off, n),
                       aux_erase(t, o, FALSE, FALSE, off, n), aux_erase(t, o, FALSE, TRUE, off, n))
  BY SubstrAgrees, EraseAgrees
<1>4. ASSUME NEW coff \in 0 .. MaxLen, NEW n \in 0 .. MaxLen
      PROVE  /\ Agree(t, SubstrUInPlace(o, coff, n), ss_cat_substr_u(Cleared, o, coff, n),
                       ss_cat_substr_u(t, o, coff, n))
             /\ Agree(t, aux_erase_u(o, o, TRUE, FALSE, coff, n),
                       aux_erase_u(t, o, FALSE, FALSE, coff, n),
                       aux_erase_u(t, o, FALSE, TRUE, coff, n))
  BY <1>1, SubstrUAgrees, EraseUAgrees
<1>5. ASSUME NEW n \in Lengths(o.bytes, 0)
      PROVE  Agree(t, aux_resize(o, o, TRUE, FALSE, n), aux_resize(t, o, FALSE, FALSE, n),
                    aux_resize(t, o, FALSE, TRUE, n))
  BY ResizeAgrees
<1>6. ASSUME NEW n \in (0 .. MaxLen) \ {CountChars(o.bytes)}
      PROVE  Agree(t, aux_resize_u(o, o, TRUE, FALSE, n),
                    aux_resize_u(t, o, FALSE, FALSE, n), aux_resize_u(t, o, FALSE, TRUE, n))
  BY <1>1, <1>2, ResizeUAgrees
<1>. QED
  BY <1>3, <1>4, <1>5, <1>6, TrimAgrees DEF AgreeOn

\* A call has the same effect in place, where it moves bytes over themselves, and
\* into another string; and it appends what it would have copied: for strings of
\* any length, in any state calls lead to.
THEOREM SStringInPlaceAgrees == Spec => []InPlaceAgrees
<1>1. IInv => InPlaceAgrees
  <2>1. ASSUME IInv, NEW s \in Var, NEW x \in Var
        PROVE  AgreeOn(str[s], str[x])
    <3>1. PICK t, o : t = str[s] /\ o = str[x]
      OBVIOUS
    <3>2. Kept(t) /\ Kept(o)
      BY <2>1, <3>1, InvFits
    <3>3. AgreeOn(t, o)
      BY <3>2, KeptAgree
    <3>. QED
      BY <3>1, <3>3
  <2>. QED
    BY <2>1 DEF InPlaceAgrees
<1>. QED
  BY <1>1, InitHolds, StepKeeps, PTL DEF Spec
=============================================================================
