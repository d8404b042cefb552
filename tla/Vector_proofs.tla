---------------------------- MODULE Vector_proofs ----------------------------
(***************************************************************************)
(* For every set of types and sizes: a vector announces only elements      *)
(* that lie in its block and that a call has written, whatever it is       *)
(* retyped to, copied from or cut to, itself included; and concatenations, *)
(* copies, cuts, look-ups and comparisons give what was asked for.         *)
(***************************************************************************)
EXTENDS Vector, SequenceTheorems, TLAPS

\* A vector of elements that were written, within the room, within the block.
Good(x) ==
  /\ x \in [type : Type, ext : BOOLEAN, max : Nat, block : Nat, seq : Seq(Val)]
  /\ x.max * ElemSize[x.type] <= x.block
  /\ Len(x.seq) <= x.max

\* TypeOK says nothing of the blank ones, and not that the parts of a vector are
\* what they are taken for: both are needed to go on from a step to the next.
IInv ==
  /\ vec = [h \in Handle |-> vec[h]]
  /\ \A h \in Handle : vec[h] = Blank \/ Good(vec[h])
  /\ res \in Val \cup {S_TRUE, S_FALSE}

----------------------------------------------------------------------------
(* Sequences.                                                              *)

LEMMA LeastOf ==
  ASSUME NEW a \in Nat, NEW b \in Nat
  PROVE  Least(a, b) \in Nat /\ Least(a, b) <= a /\ Least(a, b) <= b
BY DEF Least

LEMMA TakeSeq ==
  ASSUME NEW s \in Seq(Val), NEW n \in Nat
  PROVE  Take(s, n) \in Seq(Val) /\ Len(Take(s, n)) = Least(n, Len(s))
<1>1. Len(s) \in Nat /\ \A i \in 1 .. Len(s) : s[i] \in Val
  BY LenProperties, ElementOfSeq
<1>2. Least(n, Len(s)) \in Nat /\ Least(n, Len(s)) <= Len(s)
  BY <1>1, LeastOf
<1>3. \A i \in 1 .. Least(n, Len(s)) : s[i] \in Val
  BY <1>1, <1>2
<1>. QED
  BY <1>2, <1>3, SubSeqProperties DEF Take

LEMMA DropSeq ==
  ASSUME NEW s \in Seq(Val), NEW n \in Nat, n <= Len(s)
  PROVE  Drop(s, n) \in Seq(Val) /\ Len(Drop(s, n)) = Len(s) - n
<1>1. Len(s) \in Nat /\ \A i \in 1 .. Len(s) : s[i] \in Val
  BY LenProperties, ElementOfSeq
<1>2. \A i \in n + 1 .. Len(s) : s[i] \in Val
  BY <1>1
<1>. QED
  BY <1>1, <1>2, SubSeqProperties DEF Drop

\* Setting the size to no more than it is announces nothing new.
LEMMA AnnouncedSeq ==
  ASSUME NEW s \in Seq(Val), NEW n \in Nat, n <= Len(s)
  PROVE  Announced(s, n) \in Seq(Val) /\ Len(Announced(s, n)) = n
<1>1. Len(s) \in Nat /\ \A i \in 1 .. Len(s) : s[i] \in Val
  BY LenProperties, ElementOfSeq
<1>2. Announced(s, n) = [i \in 1 .. n |-> s[i]]
  BY <1>1 DEF Announced
<1>. QED
  BY <1>1, <1>2

----------------------------------------------------------------------------
(* Room.                                                                   *)

LEMMA ProductOrder ==
  ASSUME NEW a \in Nat, NEW b \in Nat, NEW c \in Nat, a <= b
  PROVE  a * c <= b * c
<1>1. PICK d \in Nat : b = a + d
  BY b - a \in Nat, b = a + (b - a)
<1>2. b * c = a * c + d * c
  BY <1>1
<1>3. d * c \in Nat /\ a * c \in Nat
  OBVIOUS
<1>. QED
  BY <1>2, <1>3

LEMMA Rounding ==
  ASSUME NEW a \in Nat, NEW b \in Nat \ {0}
  PROVE  a \div b \in Nat /\ (a \div b) * b <= a
BY SMT

LEMMA FreshGood ==
  ASSUME NEW t \in Type, NEW n \in Nat, NEW ext \in BOOLEAN
  PROVE  Good(Fresh(t, n, ext))
<1>1. n * ElemSize[t] \in Nat
  BY VectorAssumption
<1>2. << >> \in Seq(Val) /\ Len(<< >>) = 0
  BY EmptySeq
<1>. QED
  BY <1>1, <1>2 DEF Fresh, Good

LEMMA ReservedGood ==
  ASSUME NEW x, Good(x), NEW n \in Nat, NEW y \in Reserved(x, n)
  PROVE  Good(y) /\ y.type = x.type /\ y.seq = x.seq
<1>1. CASE y = x
  BY <1>1
<1>2. CASE ~(n <= x.max \/ x.ext) /\ y # x
  <2>1. y = [x EXCEPT !.max = Grown(n), !.block = Grown(n) * ElemSize[x.type]]
    BY <1>2 DEF Reserved
  <2>2. n * GrowPct \in Nat
    BY VectorAssumption
  <2>3. (n * GrowPct) \div 100 \in Nat
    BY <2>2, Rounding
  <2>4. Grown(n) \in Nat /\ n <= Grown(n)
    BY <2>3 DEF Grown
  <2>5. Grown(n) * ElemSize[x.type] \in Nat
    BY <2>4, VectorAssumption DEF Good
  <2>6. Len(x.seq) <= Grown(n)
    BY <1>2, <2>4, LenProperties DEF Good
  <2>7. y.max = Grown(n) /\ y.block = Grown(n) * ElemSize[x.type]
        /\ y.type = x.type /\ y.seq = x.seq
    BY <2>1 DEF Good
  <2>8. y \in [type : Type, ext : BOOLEAN, max : Nat, block : Nat, seq : Seq(Val)]
    BY <2>1, <2>4, <2>5 DEF Good
  <2>. QED
    BY <2>4, <2>5, <2>6, <2>7, <2>8 DEF Good
<1>. QED
  BY <1>1, <1>2 DEF Reserved

LEMMA ReservedLikeGood ==
  ASSUME NEW x, x = Blank \/ Good(x), NEW src, Good(src), NEW n \in Nat,
         NEW y \in ReservedLike(x, src, n)
  PROVE  /\ Good(y)
         /\ y.type = IF x = Blank THEN src.type ELSE x.type
         /\ x # Blank => y.seq = x.seq
<1>1. CASE x = Blank
  <2>1. y = Fresh(src.type, n, FALSE)
    BY <1>1 DEF ReservedLike
  <2>2. Good(y)
    BY <2>1, FreshGood DEF Good
  <2>. QED
    BY <1>1, <2>1, <2>2 DEF Fresh
<1>2. CASE x # Blank
  BY <1>2, ReservedGood DEF ReservedLike
<1>. QED
  BY <1>1, <1>2

\* Room counted in another element size stays within the block.
LEMMA RetypedGood ==
  ASSUME NEW x, Good(x), NEW src, Good(src)
  PROVE  Good(Retyped(x, src))
<1>. DEFINE e1 == ElemSize[x.type]
            e2 == ElemSize[src.type]
<1>1. e1 \in Nat \ {0} /\ e2 \in Nat \ {0} /\ x.max \in Nat /\ x.block \in Nat
  BY VectorAssumption DEF Good
<1>2. x.max * e1 \in Nat
  BY <1>1
<1>3. (x.max * e1) \div e2 \in Nat /\ ((x.max * e1) \div e2) * e2 <= x.max * e1
  BY <1>1, <1>2, Rounding
<1>4. << >> \in Seq(Val) /\ Len(<< >>) = 0
  BY EmptySeq
<1>5. x.max * e1 <= x.block
  BY DEF Good
<1>6. Retyped(x, src).max = (x.max * e1) \div e2 /\ Retyped(x, src).type = src.type
      /\ Retyped(x, src).block = x.block /\ Retyped(x, src).seq = << >>
      /\ Retyped(x, src).ext = x.ext
  BY DEF Retyped, Good
<1>7. ((x.max * e1) \div e2) * e2 <= x.block
  BY <1>1, <1>2, <1>3, <1>5
<1>8. Retyped(x, src) \in [type : Type, ext : BOOLEAN, max : Nat, block : Nat, seq : Seq(Val)]
  BY <1>3, <1>4 DEF Retyped, Good
<1>. QED
  BY <1>3, <1>4, <1>6, <1>7, <1>8 DEF Good

----------------------------------------------------------------------------
(* The three families.                                                     *)

\* What x reads of a source whose elements have the size of its own.
LEMMA ReadBySame ==
  ASSUME NEW x, NEW src, x # Blank => ElemSize[x.type] = ElemSize[src.type]
  PROVE  ReadBy(x, src) = src.seq
BY DEF ReadBy

\* Putting a sequence that fits into a good vector.
LEMMA FilledGood ==
  ASSUME NEW y, Good(y), NEW q \in Seq(Val)
  PROVE  LET z == IF y.max >= Len(q) THEN [y EXCEPT !.seq = q] ELSE y
         IN  Good(z) /\ z.type = y.type
<1>1. CASE y.max >= Len(q)
  <2>1. Len(q) \in Nat
    BY LenProperties
  <2>. DEFINE z == [y EXCEPT !.seq = q]
  <2>2. z \in [type : Type, ext : BOOLEAN, max : Nat, block : Nat, seq : Seq(Val)]
    BY DEF Good
  <2>3. z.max = y.max /\ z.block = y.block /\ z.type = y.type /\ z.seq = q
    BY DEF Good
  <2>4. Good(z)
    BY <1>1, <2>1, <2>2, <2>3 DEF Good
  <2>. QED
    BY <1>1, <2>3, <2>4
<1>2. CASE ~(y.max >= Len(q))
  BY <1>2
<1>. QED
  BY <1>1, <1>2

LEMMA KeptSeq ==
  ASSUME NEW x, x = Blank \/ Good(x), NEW cat \in BOOLEAN
  PROVE  (IF cat THEN x.seq ELSE << >>) \in Seq(Val)
<1>1. << >> \in Seq(Val)
  BY EmptySeq
<1>2. x.seq \in Seq(Val)
  <2>1. Blank.seq = << >>
    BY DEF Blank
  <2>2. Good(x) => x.seq \in Seq(Val)
    BY DEF Good
  <2>. QED
    BY <1>1, <2>1, <2>2
<1>. QED
  BY <1>1, <1>2

\* What concatenation (cat) or copying leaves: the type is that of x, if there is
\* one and it is not a copy.
CatDone(x, cat, src, z) ==
  /\ Good(z)
  /\ x # Blank /\ cat => z.type = x.type
  /\ x = Blank => z.type = src.type

LEMMA CatGood ==
  ASSUME NEW x, x = Blank \/ Good(x), NEW cat \in BOOLEAN, NEW src, Good(src), NEW n \in Nat,
         x # Blank /\ Sub[x.type] = Sub[src.type] => ElemSize[x.type] = ElemSize[src.type],
         NEW z \in aux_cat(x, cat, src, n)
  PROVE  CatDone(x, cat, src, z)
<1>. DEFINE ss == Least(n, Len(src.seq))
            kept == IF cat THEN x.seq ELSE << >>
<1>1. src.seq \in Seq(Val) /\ Len(src.seq) \in Nat
  BY LenProperties DEF Good
<1>2. ss \in Nat
  BY <1>1, LeastOf
<1>3. kept \in Seq(Val) /\ Len(kept) \in Nat
  BY KeptSeq, LenProperties
<1>4. Take(src.seq, ss) \in Seq(Val)
  BY <1>1, <1>2, TakeSeq
<1>5. CASE x = Blank
  <2>1. z = [Fresh(src.type, Len(src.seq), FALSE) EXCEPT !.seq = src.seq]
    BY <1>5 DEF aux_cat
  <2>2. Good(Fresh(src.type, Len(src.seq), FALSE))
    BY <1>1, FreshGood DEF Good
  <2>. DEFINE y == Fresh(src.type, Len(src.seq), FALSE)
  <2>3. y.max >= Len(src.seq) /\ y.type = src.type
    BY <1>1 DEF Fresh
  <2>. HIDE DEF y
  <2>4. Good(y) /\ z = [y EXCEPT !.seq = src.seq]
    BY <2>1, <2>2 DEF y
  <2>5. Good(z) /\ z.type = src.type
    BY <1>1, <2>3, <2>4, FilledGood
  <2>. QED
    BY <1>5, <2>5 DEF CatDone
<1>6. CASE x # Blank /\ Sub[x.type] = Sub[src.type]
  <2>1. ReadBy(x, src) = src.seq
    BY <1>6, ReadBySame
  <2>2. kept \o Take(src.seq, ss) \in Seq(Val)
    BY <1>3, <1>4, ConcatProperties
  <2>3. PICK y \in Reserved(x, Len(kept) + ss) :
          z = IF y.max >= Len(kept \o Take(src.seq, ss))
                THEN [y EXCEPT !.seq = kept \o Take(src.seq, ss)] ELSE y
    BY <1>6, <2>1 DEF aux_cat
  <2>4. Good(y) /\ y.type = x.type
    BY <1>2, <1>3, <1>6, ReservedGood
  <2>5. Good(z) /\ z.type = y.type
    BY <2>2, <2>3, <2>4, FilledGood
  <2>. QED
    BY <1>6, <2>4, <2>5 DEF CatDone
<1>7. CASE x # Blank /\ Sub[x.type] # Sub[src.type]
  <2>1. CASE cat
    BY <1>7, <2>1 DEF aux_cat, CatDone
  <2>2. CASE ~cat
    <3>1. PICK y \in Reserved(Retyped(x, src), ss) :
            z = IF y.max >= Len(Take(src.seq, ss))
                  THEN [y EXCEPT !.seq = Take(src.seq, ss)] ELSE y
      BY <1>7, <2>2 DEF aux_cat
    <3>2. Good(Retyped(x, src)) /\ Retyped(x, src).type = src.type
      BY <1>7, RetypedGood DEF Retyped, Good
    <3>3. Good(y) /\ y.type = src.type
      BY <1>2, <3>2, ReservedGood
    <3>4. Good(z) /\ z.type = y.type
      BY <1>4, <3>1, <3>3, FilledGood
    <3>. QED
      BY <1>7, <2>2, <3>3, <3>4 DEF CatDone
  <2>. QED
    BY <2>1, <2>2
<1>. QED
  BY <1>5, <1>6, <1>7

LEMMA EraseGood ==
  ASSUME NEW x, x = Blank \/ Good(x), NEW cat \in BOOLEAN, NEW src, Good(src),
         NEW self \in BOOLEAN, self => x = src,
         x # Blank => ElemSize[x.type] = ElemSize[src.type],
         NEW off \in 0 .. Len(src.seq), NEW n \in Nat,
         NEW z \in aux_erase(x, cat, src, self, off, n)
  PROVE  Good(z)
<1>. DEFINE ss0  == Len(src.seq)
            kept == IF cat THEN x.seq ELSE << >>
            rest == Drop(src.seq, Least(off + n, ss0))
            out  == kept \o Announced(src.seq, off) \o rest
<1>1. src.seq \in Seq(Val) /\ ss0 \in Nat
  BY LenProperties DEF Good
<1>2. ReadBy(x, src) = src.seq
  BY ReadBySame
<1>3. /\ Least(off + n, ss0) \in Nat /\ Least(off + n, ss0) <= ss0
      /\ off + n < ss0 => Least(off + n, ss0) = off + n
  BY <1>1 DEF Least
<1>4. rest \in Seq(Val) /\ Len(rest) = ss0 - Least(off + n, ss0)
  BY <1>1, <1>3, DropSeq
<1>5. kept \in Seq(Val)
  BY KeptSeq
<1>6. Announced(src.seq, off) \in Seq(Val) /\ Len(Announced(src.seq, off)) = off
  BY <1>1, AnnouncedSeq
<1>7. out \in Seq(Val) /\ Len(out) \in Nat
  BY <1>4, <1>5, <1>6, ConcatProperties, LenProperties
<1>8. CASE self
  <2>. DEFINE q == IF off + n >= ss0 THEN Announced(src.seq, off)
                   ELSE Take(src.seq, off) \o rest
  <2>1. z = [x EXCEPT !.seq = q] /\ Good(x) /\ x = src
    BY <1>2, <1>8 DEF aux_erase
  <2>2. q \in Seq(Val) /\ Len(q) <= ss0
    <3>1. CASE off + n >= ss0
      BY <1>1, <1>6, <3>1
    <3>2. CASE ~(off + n >= ss0)
      <4>1. Take(src.seq, off) \in Seq(Val) /\ Len(Take(src.seq, off)) = off
        BY <1>1, TakeSeq DEF Least
      <4>2. Len(Take(src.seq, off) \o rest) = off + Len(rest)
            /\ Take(src.seq, off) \o rest \in Seq(Val)
        BY <1>4, <4>1, ConcatProperties
      <4>3. Len(rest) = ss0 - (off + n)
        <5>1. PICK cut : cut = Least(off + n, ss0)
          OBVIOUS
        <5>2. cut = off + n
          BY <1>1, <1>3, <3>2, <5>1
        <5>. QED
          BY <1>4, <5>1, <5>2
      <4>. QED
        BY <1>1, <3>2, <4>2, <4>3
    <3>. QED
      BY <3>1, <3>2
  <2>3. Len(q) \in Nat /\ x.max \in Nat /\ ss0 <= x.max
    BY <2>1, <2>2, LenProperties DEF Good
  <2>4. x.max >= Len(q)
    BY <1>1, <2>2, <2>3
  <2>. QED
    BY <2>1, <2>2, <2>4, FilledGood
<1>9. CASE ~self
  <2>1. PICK y \in ReservedLike(x, src, Len(out)) :
          z = IF y.max >= Len(out) THEN [y EXCEPT !.seq = out] ELSE y
    BY <1>2, <1>9 DEF aux_erase
  <2>2. Good(y)
    BY <1>7, <2>1, ReservedLikeGood
  <2>. QED
    BY <1>7, <2>1, <2>2, FilledGood
<1>. QED
  BY <1>8, <1>9

LEMMA ResizeGood ==
  ASSUME NEW x, x = Blank \/ Good(x), NEW cat \in BOOLEAN, NEW src, Good(src),
         NEW self \in BOOLEAN, self => x = src /\ ~cat,
         x # Blank => ElemSize[x.type] = ElemSize[src.type],
         NEW n \in Nat, NEW z \in aux_resize(x, cat, src, self, n)
  PROVE  Good(z)
<1>. DEFINE kept == IF cat THEN x.seq ELSE << >>
            size == Len(kept) + Least(n, Len(src.seq))
            out  == IF self THEN Announced(x.seq, size) ELSE kept \o Take(src.seq, n)
<1>1. src.seq \in Seq(Val) /\ Len(src.seq) \in Nat
  BY LenProperties DEF Good
<1>2. ReadBy(x, src) = src.seq
  BY ReadBySame
<1>3. Least(n, Len(src.seq)) \in Nat /\ Least(n, Len(src.seq)) <= Len(src.seq)
  BY <1>1, LeastOf
<1>4. kept \in Seq(Val) /\ Len(kept) \in Nat
  BY KeptSeq, LenProperties
<1>5. out \in Seq(Val) /\ Len(out) = size
  <2>1. CASE self
    <3>1. Len(kept) = 0
      BY <2>1, EmptySeq
    <3>2. size \in Nat /\ size <= Len(src.seq)
      BY <1>1, <1>3, <2>1, <3>1
    <3>3. out = Announced(src.seq, size)
      BY <2>1
    <3>. HIDE DEF size, out
    <3>4. Announced(src.seq, size) \in Seq(Val) /\ Len(Announced(src.seq, size)) = size
      BY <1>1, <3>2, AnnouncedSeq
    <3>. QED
      BY <3>3, <3>4
  <2>2. CASE ~self
    <3>1. Take(src.seq, n) \in Seq(Val) /\ Len(Take(src.seq, n)) = Least(n, Len(src.seq))
      BY <1>1, TakeSeq
    <3>2. out = kept \o Take(src.seq, n)
      BY <2>2
    <3>3. kept \o Take(src.seq, n) \in Seq(Val)
          /\ Len(kept \o Take(src.seq, n)) = Len(kept) + Len(Take(src.seq, n))
      BY <1>4, <3>1, ConcatProperties
    <3>. QED
      BY <3>1, <3>2, <3>3
  <2>. QED
    BY <2>1, <2>2
<1>6. PICK y \in ReservedLike(x, src, size) :
        z = IF y.max >= size THEN [y EXCEPT !.seq = out] ELSE y
  BY <1>2 DEF aux_resize
<1>7. size \in Nat
  BY <1>3, <1>4
<1>. HIDE DEF size, out
<1>8. Good(y)
  BY <1>6, <1>7, ReservedLikeGood
<1>. QED
  BY <1>5, <1>6, <1>8, FilledGood

----------------------------------------------------------------------------
(* Sorting.                                                                *)

\* However they are arranged, the elements are the same.
LEMMA ArrangedSeq ==
  ASSUME NEW s \in Seq(Val), NEW q \in Arranged(s)
  PROVE  q \in Seq(Val) /\ Len(q) = Len(s)
<1>1. Len(s) \in Nat /\ DOMAIN s = 1 .. Len(s) /\ \A i \in 1 .. Len(s) : s[i] \in Val
  BY LenProperties, ElementOfSeq
<1>2. PICK p \in [DOMAIN s -> DOMAIN s] : q = [i \in DOMAIN s |-> s[p[i]]]
  BY DEF Arranged, Bijection, Injection
<1>3. \A i \in DOMAIN s : p[i] \in DOMAIN s
  BY <1>2
<1>4. q = [i \in 1 .. Len(s) |-> s[p[i]]] /\ \A i \in 1 .. Len(s) : s[p[i]] \in Val
  BY <1>1, <1>2, <1>3
<1>. QED
  BY <1>1, <1>4

----------------------------------------------------------------------------
(* The steps.                                                              *)

LEMMA InitIInv == Init => IInv
BY DEF Init, IInv

\* A call that leaves the other vectors alone, and answers a truth value.
LEMMA BecomesIInv ==
  ASSUME IInv, NEW h \in Handle, NEW outcomes, Becomes(h, outcomes),
         \A y \in outcomes : y = Blank \/ Good(y)
  PROVE  IInv'
<1>1. PICK y \in outcomes : vec' = [vec EXCEPT ![h] = y]
  BY DEF Becomes
<1>2. vec' = [k \in Handle |-> IF k = h THEN y ELSE vec[k]]
  BY <1>1 DEF IInv
<1>. QED
  BY <1>2 DEF Becomes, IInv

LEMMA GoodVec ==
  ASSUME IInv, NEW h \in Handle, IsVec(h)
  PROVE  Good(vec[h])
BY DEF IInv, IsVec

LEMMA NoElements ==
  ASSUME NEW x, Good(x)
  PROVE  Good([x EXCEPT !.seq = << >>])
<1>1. << >> \in Seq(Val) /\ Len(<< >>) = 0
  BY EmptySeq
<1>2. x.max >= 0
  BY DEF Good
<1>. DEFINE none == << >>
<1>. HIDE DEF none
<1>3. none \in Seq(Val) /\ Len(none) = 0
  BY <1>1 DEF none
<1>4. Good([x EXCEPT !.seq = none])
  BY <1>2, <1>3, FilledGood
<1>. QED
  BY <1>4 DEF none

LEMMA MemoryIInv ==
  ASSUME IInv, NEW h \in Handle, Memory(h)
  PROVE  IInv'
<1>1. CASE \E t \in Type, n \in 0 .. ReqMax, ext \in BOOLEAN : sv_alloc(h, t, n, ext)
  <2>1. PICK t \in Type, n \in 0 .. ReqMax, ext \in BOOLEAN : sv_alloc(h, t, n, ext)
    BY <1>1
  <2>2. Good(Fresh(t, n, ext))
    BY FreshGood
  <2>. QED
    BY <2>1, <2>2, BecomesIInv DEF sv_alloc
<1>2. CASE \E n \in 0 .. ReqMax : sv_reserve(h, n)
  <2>1. PICK n \in 0 .. ReqMax : sv_reserve(h, n)
    BY <1>2
  <2>2. \A y \in Reserved(vec[h], n) : Good(y)
    BY <2>1, GoodVec, ReservedGood DEF sv_reserve
  <2>. QED
    BY <2>1, <2>2, BecomesIInv DEF sv_reserve
<1>3. CASE sv_free(h)
  BY <1>3, BecomesIInv DEF sv_free
<1>4. CASE sv_clear(h)
  BY <1>4, GoodVec, NoElements, BecomesIInv DEF sv_clear
<1>5. CASE sv_shrink(h)
  <2>. DEFINE x == vec[h]
              n == Len(x.seq)
              less == [x EXCEPT !.max = n, !.block = n * ElemSize[x.type]]
  <2>1. Good(x)
    BY <1>5, GoodVec DEF sv_shrink
  <2>2. n \in Nat
    BY <2>1, LenProperties DEF Good
  <2>3. n * ElemSize[x.type] \in Nat
    BY <2>1, <2>2, VectorAssumption DEF Good
  <2>4. less.max = n /\ less.block = n * ElemSize[x.type] /\ less.type = x.type
        /\ less.seq = x.seq
    BY <2>1 DEF Good
  <2>5. less \in [type : Type, ext : BOOLEAN, max : Nat, block : Nat, seq : Seq(Val)]
    BY <2>1, <2>2, <2>3 DEF Good
  <2>6. Good(less)
    BY <2>2, <2>3, <2>4, <2>5 DEF Good
  <2>7. PICK outcomes \in {{x}, {x, less}} : Becomes(h, outcomes)
    BY <1>5 DEF sv_shrink
  <2>. QED
    BY <2>1, <2>6, <2>7, BecomesIInv
<1>. QED
  BY <1>1, <1>2, <1>3, <1>4, <1>5 DEF Memory

LEMMA PushedGood ==
  ASSUME NEW y, Good(y), NEW e \in Val
  PROVE  Good(Pushed(y, e, ElemSize[y.type]))
<1>1. CASE y.max <= Len(y.seq)
  BY <1>1 DEF Pushed
<1>2. CASE ~(y.max <= Len(y.seq))
  <2>. DEFINE q == Append(y.seq, e)
  <2>1. Pushed(y, e, ElemSize[y.type]) = [y EXCEPT !.seq = q]
    BY <1>2 DEF Pushed, Good
  <2>2. q \in Seq(Val) /\ Len(q) = Len(y.seq) + 1
    BY AppendProperties DEF Good
  <2>3. y.max \in Nat /\ Len(y.seq) \in Nat
    BY LenProperties DEF Good
  <2>4. y.max >= Len(q)
    BY <1>2, <2>2, <2>3
  <2>. HIDE DEF q
  <2>. QED
    BY <2>1, <2>2, <2>4, FilledGood
<1>. QED
  BY <1>1, <1>2

\* Both answers of a call, when it leaves a good vector.
LEMMA ChangedIInv ==
  ASSUME IInv, NEW h \in Handle, NEW y, Good(y), vec' = [vec EXCEPT ![h] = y],
         res' \in Val \cup {S_TRUE, S_FALSE}
  PROVE  IInv'
<1>1. vec' = [k \in Handle |-> IF k = h THEN y ELSE vec[k]]
  BY DEF IInv
<1>. QED
  BY <1>1 DEF IInv

\* The element set may be the one past the end.
LEMMA PutSeq ==
  ASSUME NEW s \in Seq(Val), NEW i \in 0 .. Len(s), NEW e \in Val
  PROVE  LET size == IF i < Len(s) THEN Len(s) ELSE i + 1
             q == [Announced(s, size) EXCEPT ![i + 1] = e]
         IN  q \in Seq(Val) /\ Len(q) = size /\ size \in Nat
<1>. DEFINE size == IF i < Len(s) THEN Len(s) ELSE i + 1
            q == [Announced(s, size) EXCEPT ![i + 1] = e]
<1>1. Len(s) \in Nat /\ \A k \in 1 .. Len(s) : s[k] \in Val
  BY LenProperties, ElementOfSeq
<1>2. size \in Nat
  BY <1>1
<1>3. q = [k \in 1 .. size |-> IF k = i + 1 THEN e
                              ELSE IF k <= Len(s) THEN s[k] ELSE Junk]
  BY <1>1 DEF Announced
<1>4. \A k \in 1 .. size : k = i + 1 \/ k \in 1 .. Len(s)
  BY <1>1
<1>5. \A k \in 1 .. size : (IF k = i + 1 THEN e
                           ELSE IF k <= Len(s) THEN s[k] ELSE Junk) \in Val
  BY <1>1, <1>4
<1>. HIDE DEF size, q
<1>6. q \in Seq(Val) /\ Len(q) = size
  BY <1>2, <1>3, <1>5
<1>. QED
  BY <1>2, <1>6 DEF size, q

LEMMA ElementsIInv ==
  ASSUME IInv, NEW h \in Handle, Elements(h)
  PROVE  IInv'
<1>. DEFINE x == vec[h]
<1>1. CASE \E e \in Val : IsVec(h) /\ sv_push(h, e, ElemSize[vec[h].type])
  <2>1. PICK e \in Val : IsVec(h) /\ sv_push(h, e, ElemSize[x.type])
    BY <1>1
  <2>2. Good(x) /\ Len(x.seq) + 1 \in Nat
    BY <2>1, GoodVec, LenProperties DEF Good
  <2>3. PICK y \in Reserved(x, Len(x.seq) + 1) :
          /\ vec' = [vec EXCEPT ![h] = Pushed(y, e, ElemSize[x.type])]
          /\ res' \in {S_TRUE, S_FALSE}
    BY <2>1 DEF sv_push
  <2>4. Good(y) /\ y.type = x.type
    BY <2>2, ReservedGood
  <2>5. Good(Pushed(y, e, ElemSize[x.type]))
    BY <2>4, PushedGood
  <2>. QED
    BY <2>3, <2>5, ChangedIInv
<1>2. CASE \E i \in 0 .. SizeOf(h) - 1 : SizeOf(h) < vec[h].max /\ sv_push_own(h, i)
  <2>1. PICK i \in 0 .. SizeOf(h) - 1 : SizeOf(h) < x.max /\ sv_push_own(h, i)
    BY <1>2
  <2>2. Good(x) /\ Len(x.seq) \in Nat /\ x.max \in Nat /\ x.seq[i + 1] \in Val
    BY <2>1, GoodVec, LenProperties, ElementOfSeq DEF sv_push_own, SizeOf, Good
  <2>3. Reserved(x, Len(x.seq) + 1) = {x}
    BY <2>1, <2>2 DEF Reserved, SizeOf
  <2>4. /\ vec' = [vec EXCEPT ![h] = Pushed(x, x.seq[i + 1], ElemSize[x.type])]
        /\ res' \in {S_TRUE, S_FALSE}
    BY <2>1, <2>3 DEF sv_push_own
  <2>5. Good(Pushed(x, x.seq[i + 1], ElemSize[x.type]))
    BY <2>2, PushedGood
  <2>. QED
    BY <2>4, <2>5, ChangedIInv
<1>3. CASE \E i \in 0 .. SizeOf(h), e \in Val, t \in Type : sv_set(h, i, e, ElemSize[t])
  <2>1. PICK i \in 0 .. SizeOf(h), e \in Val, t \in Type : sv_set(h, i, e, ElemSize[t])
    BY <1>3
  <2>. DEFINE size == IF i < Len(x.seq) THEN Len(x.seq) ELSE i + 1
              put(y) == [y EXCEPT !.seq = [Announced(@, size) EXCEPT ![i + 1] = e]]
              q == [Announced(x.seq, size) EXCEPT ![i + 1] = e]
  <2>2. Good(x)
    BY <2>1, GoodVec DEF sv_set
  <2>3. q \in Seq(Val) /\ Len(q) = size /\ size \in Nat
    BY <2>1, <2>2, PutSeq DEF Good, SizeOf
  <2>4. CASE ElemSize[t] # ElemSize[x.type]
    <3>1. UNCHANGED vec /\ res' = S_FALSE
      BY <2>1, <2>4 DEF sv_set
    <3>. QED
      BY <3>1 DEF IInv
  <2>5. CASE ElemSize[t] = ElemSize[x.type]
    <3>1. PICK y \in Reserved(x, size) :
            /\ vec' = [vec EXCEPT ![h] = IF y.max < size THEN y ELSE put(y)]
            /\ res' \in {S_TRUE, S_FALSE}
      BY <2>1, <2>5 DEF sv_set
    <3>2. Good(y) /\ y.seq = x.seq
      BY <2>2, <2>3, ReservedGood
    <3>3. put(y) = [y EXCEPT !.seq = q]
      BY <3>2 DEF Good
    <3>4. CASE y.max < size
      BY <3>1, <3>2, <3>4, ChangedIInv
    <3>5. CASE ~(y.max < size)
      <4>1. y.max >= Len(q)
        BY <2>3, <3>2, <3>5 DEF Good
      <4>. HIDE DEF q, size
      <4>2. Good([y EXCEPT !.seq = q])
        BY <2>3, <3>2, <4>1, FilledGood
      <4>3. vec' = [vec EXCEPT ![h] = [y EXCEPT !.seq = q]]
        BY <3>1, <3>3, <3>5
      <4>. QED
        BY <3>1, <4>2, <4>3, ChangedIInv
    <3>. QED
      BY <3>4, <3>5
  <2>. QED
    BY <2>4, <2>5
<1>4. CASE sv_pop(h)
  <2>1. Good(x)
    BY <1>4, GoodVec DEF sv_pop
  <2>2. CASE Len(x.seq) = 0
    <3>1. UNCHANGED vec /\ res' = S_FALSE
      BY <1>4, <2>2 DEF sv_pop
    <3>. QED
      BY <3>1 DEF IInv
  <2>3. CASE Len(x.seq) # 0
    <3>. DEFINE n == Len(x.seq)
                q == Take(x.seq, n - 1)
    <3>1. vec' = [vec EXCEPT ![h] = [x EXCEPT !.seq = q]] /\ res' = x.seq[n]
      BY <1>4, <2>3 DEF sv_pop, IInv
    <3>2. n \in Nat \ {0} /\ n <= x.max /\ x.max \in Nat /\ x.seq \in Seq(Val)
      BY <2>1, <2>3, LenProperties DEF Good
    <3>3. q \in Seq(Val) /\ Len(q) = n - 1
      BY <3>2, TakeSeq DEF Least
    <3>4. x.seq[n] \in Val
      BY <3>2, ElementOfSeq
    <3>5. x.max >= Len(q)
      BY <3>2, <3>3
    <3>. HIDE DEF q
    <3>6. Good([x EXCEPT !.seq = q])
      BY <2>1, <3>3, <3>5, FilledGood
    <3>. QED
      BY <3>1, <3>4, <3>6, ChangedIInv
  <2>. QED
    BY <2>2, <2>3
<1>5. CASE sv_sort(h)
  <2>1. Good(x)
    BY <1>5, GoodVec DEF sv_sort
  <2>2. Becomes(h, {[x EXCEPT !.seq = q] : q \in Arranged(x.seq)})
    BY <1>5 DEF sv_sort
  <2>3. ASSUME NEW q \in Arranged(x.seq)
        PROVE  Good([x EXCEPT !.seq = q])
    <3>1. q \in Seq(Val) /\ Len(q) = Len(x.seq)
      BY <2>1, ArrangedSeq DEF Good
    <3>2. x.max >= Len(q)
      BY <2>1, <3>1, LenProperties DEF Good
    <3>. QED
      BY <2>1, <3>1, <3>2, FilledGood
  <2>4. \A y \in {[x EXCEPT !.seq = q] : q \in Arranged(x.seq)} : Good(y)
    BY <2>3
  <2>. QED
    BY <2>2, <2>4, BecomesIInv
<1>. QED
  BY <1>1, <1>2, <1>3, <1>4, <1>5 DEF Elements

LEMMA WholeIInv ==
  ASSUME IInv, NEW h \in Handle, Whole(h)
  PROVE  IInv'
<1>. DEFINE x == vec[h]
<1>1. x = Blank \/ Good(x)
  BY DEF IInv
<1>2. PICK s \in Handle :
        \/ ToldApart(h, s) /\ sv_cpy(h, s)
        \/ \E s2 \in Handle :
             ToldApart(h, s) /\ ToldApart(h, s2) /\ ToldApart(s, s2) /\ sv_cat(h, s, s2)
        \/ \E cat \in BOOLEAN, off \in 0 .. SizeOf(s), n \in 0 .. MaxLen[s] \cup {Npos} :
             Alike(h, s) /\ sv_erase(h, cat, s, off, n)
        \/ \E cat \in BOOLEAN, n \in 0 .. MaxLen[s] + 1 :
             Alike(h, s) /\ ~(cat /\ h = s) /\ sv_resize(h, cat, s, n)
  BY DEF Whole
<1>. DEFINE src == vec[s]
<1>3. IsVec(s) /\ Good(src) /\ Len(src.seq) \in Nat
  <2>1. IsVec(s)
    BY <1>2 DEF sv_cpy, sv_cat, sv_erase, sv_resize
  <2>. QED
    BY <2>1, GoodVec, LenProperties DEF Good
<1>4. \A k, l \in Handle : ToldApart(k, l) /\ IsVec(l) /\ vec[k] # Blank
        /\ Sub[vec[k].type] = Sub[vec[l].type]
        => ElemSize[vec[k].type] = ElemSize[vec[l].type]
  BY DEF ToldApart, Alike, IsVec
<1>5. Alike(h, s) /\ x # Blank => ElemSize[x.type] = ElemSize[src.type]
  BY DEF Alike, IsVec
<1>6. CASE ToldApart(h, s) /\ sv_cpy(h, s)
  <2>1. x # Blank /\ Sub[x.type] = Sub[src.type] => ElemSize[x.type] = ElemSize[src.type]
    BY <1>3, <1>4, <1>6
  <2>. HIDE DEF x, src
  <2>2. ASSUME NEW y \in aux_cat(x, FALSE, src, Len(src.seq))
        PROVE  Good(y)
    BY <1>1, <1>3, <2>1, CatGood DEF CatDone
  <2>. QED
    BY <1>6, <2>2, BecomesIInv DEF sv_cpy, x, src
<1>7. CASE \E s2 \in Handle :
             ToldApart(h, s) /\ ToldApart(h, s2) /\ ToldApart(s, s2) /\ sv_cat(h, s, s2)
  <2>1. PICK s2 \in Handle :
          ToldApart(h, s) /\ ToldApart(h, s2) /\ ToldApart(s, s2) /\ sv_cat(h, s, s2)
    BY <1>7
  <2>2. IsVec(s2) /\ Good(vec[s2]) /\ Len(vec[s2].seq) \in Nat
    BY <2>1, GoodVec, LenProperties DEF sv_cat, Good
  <2>3. ASSUME NEW y \in CatOne(h, x, s)
        PROVE  /\ Good(y)
               /\ y.type = IF x = Blank THEN src.type ELSE x.type
    <3>1. y \in aux_cat(x, TRUE, src, Len(src.seq))
      BY DEF CatOne
    <3>2. x # Blank /\ Sub[x.type] = Sub[src.type] => ElemSize[x.type] = ElemSize[src.type]
      BY <1>3, <1>4, <2>1
    <3>. HIDE DEF x, src
    <3>3. CatDone(x, TRUE, src, y)
      BY <1>1, <1>3, <3>1, <3>2, CatGood
    <3>. QED
      BY <3>3 DEF CatDone
  <2>4. ASSUME NEW y \in CatOne(h, x, s), NEW z \in CatOne(h, y, s2)
        PROVE  Good(z)
    <3>. DEFINE src2 == IF s2 = h /\ IsVec(h) THEN y ELSE vec[s2]
    <3>1. z \in aux_cat(y, TRUE, src2, Len(vec[s2].seq))
      BY DEF CatOne
    <3>2. Good(y) /\ Good(src2)
      BY <2>2, <2>3
    <3>3. Sub[y.type] = Sub[src2.type] => ElemSize[y.type] = ElemSize[src2.type]
      <4>1. CASE s2 = h /\ IsVec(h)
        BY <4>1
      <4>2. CASE ~(s2 = h /\ IsVec(h))
        BY <1>3, <1>4, <2>1, <2>2, <2>3, <4>2 DEF IsVec
      <4>. QED
        BY <4>1, <4>2
    <3>. HIDE DEF src2
    <3>. QED
      BY <2>2, <3>1, <3>2, <3>3, CatGood DEF CatDone
  <2>5. \A z \in sv_cat_aux(h, s, s2) : Good(z)
    BY <2>4 DEF sv_cat_aux
  <2>. QED
    BY <2>1, <2>5, BecomesIInv DEF sv_cat
<1>8. CASE \E cat \in BOOLEAN, off \in 0 .. SizeOf(s), n \in 0 .. MaxLen[s] \cup {Npos} :
             Alike(h, s) /\ sv_erase(h, cat, s, off, n)
  <2>1. PICK cat \in BOOLEAN, off \in 0 .. SizeOf(s), n \in 0 .. MaxLen[s] \cup {Npos} :
          Alike(h, s) /\ sv_erase(h, cat, s, off, n)
    BY <1>8
  <2>2. n \in Nat /\ off \in 0 .. Len(src.seq)
    BY VectorAssumption DEF Npos, SizeOf
  <2>3. \A y \in aux_erase(x, cat, src, h = s, off, n) : Good(y)
    BY <1>1, <1>3, <1>5, <2>1, <2>2, EraseGood
  <2>. QED
    BY <2>1, <2>3, BecomesIInv DEF sv_erase
<1>9. CASE \E cat \in BOOLEAN, n \in 0 .. MaxLen[s] + 1 :
             Alike(h, s) /\ ~(cat /\ h = s) /\ sv_resize(h, cat, s, n)
  <2>1. PICK cat \in BOOLEAN, n \in 0 .. MaxLen[s] + 1 :
          Alike(h, s) /\ ~(cat /\ h = s) /\ sv_resize(h, cat, s, n)
    BY <1>9
  <2>2. /\ n \in Nat
        /\ h = s => x = src /\ ~cat
        /\ x # Blank => ElemSize[x.type] = ElemSize[src.type]
    BY <1>5, <2>1, VectorAssumption
  <2>. HIDE DEF x, src
  <2>3. ASSUME NEW y \in aux_resize(x, cat, src, h = s, n)
        PROVE  Good(y)
    BY <1>1, <1>3, <2>2, ResizeGood
  <2>. QED
    BY <2>1, <2>3, BecomesIInv DEF sv_resize, x, src
<1>. QED
  BY <1>2, <1>6, <1>7, <1>8, <1>9

LEMMA NextIInv ==
  ASSUME IInv, [Next]_vars
  PROVE  IInv'
<1>1. CASE Next
  BY <1>1, MemoryIInv, ElementsIInv, WholeIInv DEF Next
<1>2. CASE UNCHANGED vars
  BY <1>2 DEF vars, IInv
<1>. QED
  BY <1>1, <1>2

LEMMA IInvReal == IInv => ElementsReal
<1>. SUFFICES ASSUME IInv PROVE ElementsReal
  OBVIOUS
<1>1. \A h \in Handle : IsVec(h) => Good(vec[h])
  BY GoodVec
<1>2. TypeOK
  BY <1>1 DEF TypeOK, Good, IInv
<1>3. ASSUME NEW h \in Handle PROVE Junk \notin Range(vec[h].seq)
  <2>1. vec[h].seq \in Seq(Val)
    <3>1. Blank.seq = << >> /\ << >> \in Seq(Val)
      BY EmptySeq DEF Blank
    <3>. QED
      BY <1>1, <3>1 DEF Good, IsVec
  <2>2. \A i \in DOMAIN vec[h].seq : vec[h].seq[i] \in Val
    BY <2>1, LenProperties, ElementOfSeq
  <2>. QED
    BY <2>2, VectorAssumption DEF Range
<1>. QED
  BY <1>2, <1>3 DEF ElementsReal

\* Whatever calls a client makes within the guards of Next, a vector announces
\* only elements within its block that some call wrote (svector.c).
THEOREM VectorElementsReal == Spec => []ElementsReal
<1>1. IInv /\ [Next]_vars => IInv'
  BY NextIInv
<1>. QED
  BY InitIInv, <1>1, IInvReal, PTL DEF Spec

----------------------------------------------------------------------------
(* What the families compute.                                              *)

\* Taking as many as there are, or more, is taking all; the first ones are
\* those of the sequence.
LEMMA TakeIs ==
  ASSUME NEW s \in Seq(Val), NEW n \in Nat
  PROVE  /\ Take(s, n) \in Seq(Val) /\ Len(Take(s, n)) = Least(n, Len(s))
         /\ n >= Len(s) => Take(s, n) = s
         /\ \A i \in 1 .. Least(n, Len(s)) : Take(s, n)[i] = s[i]
<1>1. Take(s, n) \in Seq(Val) /\ Len(Take(s, n)) = Least(n, Len(s))
  BY TakeSeq
<1>2. Len(s) \in Nat /\ \A i \in 1 .. Len(s) : s[i] \in Val
  BY LenProperties, ElementOfSeq
<1>3. PICK m : m = Least(n, Len(s))
  OBVIOUS
<1>4. m \in Nat /\ m <= Len(s) /\ (n >= Len(s) => m = Len(s))
  BY <1>2, <1>3 DEF Least
<1>5. Take(s, n) = SubSeq(s, 1, m)
  BY <1>3 DEF Take
<1>6. \A i \in 1 .. m : s[i] \in Val
  BY <1>2, <1>4
<1>7. \A i \in 1 .. m : SubSeq(s, 1, m)[i] = s[i]
  BY <1>2, <1>4, SubSeqProperties
<1>8. \A i \in 1 .. m : Take(s, n)[i] = s[i]
  BY <1>5, <1>7
<1>9. ASSUME n >= Len(s) PROVE Take(s, n) = s
  <2>1. Len(Take(s, n)) = Len(s) /\ m = Len(s)
    BY <1>1, <1>3, <1>4, <1>9
  <2>. QED
    BY <1>1, <1>8, <2>1, SeqEqual
<1>. QED
  BY <1>1, <1>3, <1>8, <1>9

\* Setting the size to no more than it is takes the first ones.
LEMMA AnnouncedTake ==
  ASSUME NEW s \in Seq(Val), NEW n \in Nat, n <= Len(s)
  PROVE  Announced(s, n) = Take(s, n)
<1>1. Announced(s, n) \in Seq(Val) /\ Len(Announced(s, n)) = n
  BY AnnouncedSeq
<1>2. Least(n, Len(s)) = n
  BY LenProperties DEF Least
<1>3. Take(s, n) \in Seq(Val) /\ Len(Take(s, n)) = n /\ \A i \in 1 .. n : Take(s, n)[i] = s[i]
  BY <1>2, TakeIs
<1>4. Len(s) \in Nat
  BY LenProperties
<1>5. \A i \in 1 .. n : Announced(s, n)[i] = s[i]
  BY <1>4 DEF Announced
<1>. QED
  BY <1>1, <1>3, <1>5, SeqEqual

\* The first ones of two sequences in a row, when they are the first sequence.
LEMMA TakeFirst ==
  ASSUME NEW s \in Seq(Val), NEW t \in Seq(Val)
  PROVE  Take(s \o t, Len(s)) = s
<1>1. PICK u, n : u = s \o t /\ n = Len(s)
  OBVIOUS
<1>2. u \in Seq(Val) /\ Len(u) = n + Len(t) /\ n \in Nat /\ Len(t) \in Nat
  BY <1>1, ConcatProperties, LenProperties
<1>3. \A i \in 1 .. n : u[i] = s[i]
  BY <1>1, <1>2, ConcatProperties
<1>4. Least(n, Len(u)) = n
  BY <1>2 DEF Least
<1>5. Take(u, n) \in Seq(Val) /\ Len(Take(u, n)) = n /\ \A i \in 1 .. n : Take(u, n)[i] = u[i]
  BY <1>2, <1>4, TakeIs
<1>6. Take(u, n) = s
  BY <1>1, <1>3, <1>5, SeqEqual
<1>. QED
  BY <1>1, <1>6

\* As many as there are.
LEMMA TakeWhole ==
  ASSUME NEW s \in Seq(Val), NEW n, n = Len(s)
  PROVE  Take(s, n) = s
BY LenProperties, TakeIs

\* The first ones of a sequence, or of one that starts with it.
LEMMA TakeStart ==
  ASSUME NEW s \in Seq(Val), NEW t \in Seq(Val), NEW u, u = s \/ u = s \o t, NEW n, n = Len(s)
  PROVE  Take(u, n) = s
BY TakeWhole, TakeFirst

\* A reserve changes the room alone, and none that was enough; a vector on the
\* heap may get what it asks.
LEMMA ReservedIs ==
  ASSUME NEW x, Good(x), NEW n \in Nat
  PROVE  /\ \A y \in Reserved(x, n) :
              Good(y) /\ y.type = x.type /\ y.seq = x.seq /\ y.ext = x.ext /\ (n <= x.max => y = x)
         /\ ~x.ext => \E y \in Reserved(x, n) : y.max >= n
         /\ x \in Reserved(x, n)
<1>1. ASSUME NEW y \in Reserved(x, n)
      PROVE  Good(y) /\ y.type = x.type /\ y.seq = x.seq /\ y.ext = x.ext /\ (n <= x.max => y = x)
  <2>1. Good(y) /\ y.type = x.type /\ y.seq = x.seq
    BY ReservedGood
  <2>2. y.ext = x.ext /\ (n <= x.max => y = x)
    BY DEF Reserved, Good
  <2>. QED
    BY <2>1, <2>2
<1>2. ASSUME ~x.ext PROVE \E y \in Reserved(x, n) : y.max >= n
  <2>1. CASE n <= x.max
    BY <2>1 DEF Reserved, Good
  <2>2. CASE ~(n <= x.max)
    <3>. DEFINE y == [x EXCEPT !.max = Grown(n), !.block = Grown(n) * ElemSize[x.type]]
    <3>1. y \in Reserved(x, n)
      BY <1>2, <2>2 DEF Reserved
    <3>2. n * GrowPct \in Nat
      BY VectorAssumption
    <3>3. (n * GrowPct) \div 100 \in Nat
      BY <3>2, Rounding
    <3>4. y.max = Grown(n)
      BY DEF Good
    <3>5. Grown(n) >= n
      BY <3>3 DEF Grown
    <3>. QED
      BY <3>1, <3>4, <3>5
  <2>. QED
    BY <2>1, <2>2
<1>3. x \in Reserved(x, n)
  BY DEF Reserved
<1>. QED
  BY <1>1, <1>2, <1>3

\* A sequence put where there is room for it.
Filled(y, q) == IF y.max >= Len(q) THEN [y EXCEPT !.seq = q] ELSE y

LEMMA FilledIs ==
  ASSUME NEW y, Good(y), NEW q \in Seq(Val)
  PROVE  /\ Good(Filled(y, q)) /\ Filled(y, q).type = y.type /\ Filled(y, q).ext = y.ext
         /\ Filled(y, q).max = y.max
         /\ y.max >= Len(q) => Filled(y, q).seq = q
         /\ ~(y.max >= Len(q)) => Filled(y, q).seq = y.seq
<1>1. Good(Filled(y, q)) /\ Filled(y, q).type = y.type
  BY FilledGood DEF Filled
<1>. QED
  BY <1>1 DEF Filled, Good

----------------------------------------------------------------------------
(* Concatenation.                                                          *)

\* What a concatenation adds of a source, of which it takes n elements at most.
Adds(x, src, n) ==
  IF x = Blank THEN src.seq
  ELSE IF Sub[x.type] # Sub[src.type] THEN << >> ELSE Take(src.seq, n)

LEMMA NoMore ==
  ASSUME NEW s \in Seq(Val)
  PROVE  s \o << >> = s /\ << >> \o s = s /\ << >> \in Seq(Val) /\ Len(<< >>) = 0
BY ConcatEmptySeq, EmptySeq

\* Take takes as many as there are.
LEMMA TakeLeast ==
  ASSUME NEW s \in Seq(Val), NEW n \in Nat
  PROVE  Take(s, Least(n, Len(s))) = Take(s, n)
<1>1. Len(s) \in Nat
  BY LenProperties
<1>2. Least(Least(n, Len(s)), Len(s)) = Least(n, Len(s))
  BY <1>1 DEF Least
<1>. QED
  BY <1>2 DEF Take

\* The vectors Z a concatenation may leave x as, when q is what it should become:
\* q, or what it was for lack of room.
CatOutcomes(x, type, q, Z) ==
  /\ \A z \in Z : /\ Good(z) /\ z.ext = x.ext /\ z.type = type
                  /\ z.seq \in {x.seq, q}
                  /\ x.max >= Len(q) => z.seq = q /\ (x # Blank => z.max = x.max)
  /\ ~x.ext => \E z \in Z : z.seq = q
  /\ Z # {}

LEMMA CatAdds ==
  ASSUME NEW x, x = Blank \/ Good(x), NEW src, Good(src), NEW n \in Nat,
         x # Blank /\ Sub[x.type] = Sub[src.type] => ElemSize[x.type] = ElemSize[src.type]
  PROVE  /\ Adds(x, src, n) \in Seq(Val) /\ x.seq \o Adds(x, src, n) \in Seq(Val)
         /\ CatOutcomes(x, IF x = Blank THEN src.type ELSE x.type,
                        x.seq \o Adds(x, src, n), aux_cat(x, TRUE, src, n))
<1>0. PICK add, q, Z, t : /\ add = Adds(x, src, n) /\ q = x.seq \o add
                          /\ Z = aux_cat(x, TRUE, src, n)
                          /\ t = IF x = Blank THEN src.type ELSE x.type
  OBVIOUS
<1>1. src.seq \in Seq(Val) /\ Len(src.seq) \in Nat
  BY LenProperties DEF Good
<1>2. x.seq \in Seq(Val)
  BY KeptSeq
<1>3. Take(src.seq, n) \in Seq(Val) /\ Take(src.seq, Least(n, Len(src.seq))) = Take(src.seq, n)
      /\ Len(Take(src.seq, n)) = Least(n, Len(src.seq))
  BY <1>1, TakeIs, TakeLeast
<1>4. add \in Seq(Val)
  BY <1>0, <1>1, <1>2, <1>3, NoMore DEF Adds
<1>5. q \in Seq(Val) /\ Len(q) = Len(x.seq) + Len(add)
  BY <1>0, <1>2, <1>4, ConcatProperties
<1>6. ASSUME x = Blank
      PROVE  CatOutcomes(x, t, q, Z)
  <2>1. x.seq = << >> /\ x.ext = FALSE /\ x.max = 0
    BY <1>6 DEF Blank
  <2>2. add = src.seq /\ q = src.seq
    BY <1>0, <1>1, <1>6, <2>1, NoMore DEF Adds
  <2>3. PICK y : y = Fresh(src.type, Len(src.seq), FALSE)
    OBVIOUS
  <2>4. Z = {[y EXCEPT !.seq = src.seq]}
    BY <1>0, <1>6, <2>3 DEF aux_cat
  <2>5. Good(y) /\ y.max = Len(src.seq) /\ y.type = src.type /\ y.ext = FALSE
    BY <1>1, <2>3, FreshGood DEF Good, Fresh
  <2>6. Filled(y, src.seq) = [y EXCEPT !.seq = src.seq]
    BY <1>1, <2>5 DEF Filled
  <2>7. /\ Good(Filled(y, src.seq)) /\ Filled(y, src.seq).type = y.type
        /\ Filled(y, src.seq).ext = y.ext /\ Filled(y, src.seq).seq = src.seq
    BY <1>1, <2>5, FilledIs
  <2>8. Z = {Filled(y, src.seq)}
    BY <2>4, <2>6
  <2>. QED
    BY <1>0, <1>5, <1>6, <2>1, <2>2, <2>5, <2>7, <2>8 DEF CatOutcomes
<1>7. ASSUME x # Blank, Sub[x.type] = Sub[src.type]
      PROVE  CatOutcomes(x, t, q, Z)
  <2>1. ReadBy(x, src) = src.seq
    BY <1>7, ReadBySame
  <2>2. add = Take(src.seq, n)
    BY <1>0, <1>7 DEF Adds
  <2>3. PICK m : m = Len(x.seq) + Least(n, Len(src.seq))
    OBVIOUS
  <2>4. m = Len(q) /\ m \in Nat
    BY <1>3, <1>5, <2>2, <2>3, LenProperties
  <2>5. Z = {Filled(y, q) : y \in Reserved(x, m)}
    BY <1>0, <1>3, <1>7, <2>1, <2>2, <2>3 DEF aux_cat, Filled
  <2>6. Good(x)
    BY <1>7
  <2>7. /\ \A y \in Reserved(x, m) : Good(y) /\ y.type = x.type /\ y.seq = x.seq /\ y.ext = x.ext
                                     /\ (m <= x.max => y = x)
        /\ ~x.ext => \E y \in Reserved(x, m) : y.max >= m
        /\ x \in Reserved(x, m)
    BY <2>4, <2>6, ReservedIs
  <2>8. ASSUME NEW y \in Reserved(x, m)
        PROVE  /\ Good(Filled(y, q)) /\ Filled(y, q).ext = x.ext /\ Filled(y, q).type = x.type
               /\ Filled(y, q).seq \in {x.seq, q}
               /\ x.max >= Len(q) => Filled(y, q).seq = q /\ Filled(y, q).max = x.max
               /\ y.max >= m => Filled(y, q).seq = q
    <3>1. /\ Good(Filled(y, q)) /\ Filled(y, q).type = y.type /\ Filled(y, q).ext = y.ext
          /\ Filled(y, q).max = y.max
          /\ y.max >= Len(q) => Filled(y, q).seq = q
          /\ ~(y.max >= Len(q)) => Filled(y, q).seq = y.seq
      BY <1>5, <2>7, FilledIs
    <3>. QED
      BY <2>4, <2>6, <2>7, <3>1 DEF Good
  <2>9. \A z \in Z : \E y \in Reserved(x, m) : z = Filled(y, q)
    BY <2>5
  <2>10. \A y \in Reserved(x, m) : Filled(y, q) \in Z
    BY <2>5
  <2>11. t = x.type
    BY <1>0, <1>7
  <2>12. ASSUME NEW z \in Z
         PROVE  /\ Good(z) /\ z.ext = x.ext /\ z.type = t
                /\ z.seq \in {x.seq, q}
                /\ x.max >= Len(q) => z.seq = q /\ (x # Blank => z.max = x.max)
    BY <2>8, <2>9, <2>11
  <2>13. ~x.ext => \E z \in Z : z.seq = q
    BY <2>7, <2>8, <2>10
  <2>14. Z # {}
    BY <2>7, <2>10
  <2>. QED
    BY <2>12, <2>13, <2>14 DEF CatOutcomes
<1>8. ASSUME x # Blank, Sub[x.type] # Sub[src.type]
      PROVE  CatOutcomes(x, t, q, Z)
  <2>1. add = << >> /\ q = x.seq
    BY <1>0, <1>2, <1>8, NoMore DEF Adds
  <2>2. Z = {x}
    BY <1>0, <1>8 DEF aux_cat
  <2>. QED
    BY <1>0, <1>2, <1>8, <2>1, <2>2 DEF CatOutcomes
<1>9. CatOutcomes(x, t, q, Z)
  BY <1>6, <1>7, <1>8
<1>. QED
  BY <1>0, <1>4, <1>5, <1>9

LEMMA NotBlank ==
  ASSUME NEW x, Good(x)
  PROVE  x # Blank
BY VectorAssumption DEF Good, Blank

\* Two sources, one after the other, either of which may be the vector itself.
LEMMA InvCatExact == IInv => CatExact
<1>1. SUFFICES ASSUME IInv, NEW h \in Handle, NEW s1 \in Handle, NEW s2 \in Handle,
                      IsVec(s1), IsVec(s2),
                      ToldApart(h, s1), ToldApart(h, s2), ToldApart(s1, s2)
               PROVE  CatEnds(h, s1, s2)
  BY DEF CatExact
<1>0. PICK l, g1, g2, all, ends :
        /\ l = vec[h].seq /\ g1 = Given(h, s1)
        /\ g2 = IF IsVec(h) \/ Sub[vec[s1].type] = Sub[vec[s2].type]
                  THEN Given(h, s2) ELSE << >>
        /\ all = l \o g1 \o g2
        /\ ends = {y.seq : y \in sv_cat_aux(h, s1, s2)}
  OBVIOUS
<1>2. PICK x, a, b : x = vec[h] /\ a = vec[s1] /\ b = vec[s2]
  OBVIOUS
<1>3. /\ x = Blank \/ Good(x)
      /\ Good(a) /\ Good(b) /\ a # Blank /\ b # Blank /\ (x = Blank => s1 # h /\ s2 # h)
  BY <1>0, <1>1, <1>2, GoodVec DEF IInv, IsVec
<1>4. PICK n1, n2 : n1 = Len(a.seq) /\ n2 = Len(b.seq)
  OBVIOUS
<1>5. /\ l \in Seq(Val) /\ a.seq \in Seq(Val) /\ b.seq \in Seq(Val)
      /\ n1 \in Nat /\ n2 \in Nat
  <2>1. x.seq \in Seq(Val)
    BY <1>3, KeptSeq
  <2>. QED
    BY <1>0, <1>1, <1>2, <1>3, <1>4, <2>1, LenProperties DEF Good
<1>6. \A k, m \in Handle : ToldApart(k, m) /\ vec[m] # Blank /\ vec[k] # Blank
        /\ Sub[vec[k].type] = Sub[vec[m].type]
        => ElemSize[vec[k].type] = ElemSize[vec[m].type]
  BY DEF ToldApart, Alike, IsVec
<1>7. g1 = Adds(x, a, n1)
  <2>1. Take(a.seq, n1) = a.seq
    BY <1>4, <1>5, TakeWhole
  <2>. QED
    BY <1>0, <1>1, <1>2, <2>1 DEF Given, Adds, IsVec
<1>8. PICK t, Z : /\ t = (IF x = Blank THEN a.type ELSE x.type) /\ Z = CatOne(h, x, s1)
  OBVIOUS
<1>9. Z = aux_cat(x, TRUE, a, n1)
  BY <1>2, <1>4, <1>8 DEF CatOne
<1>10. x # Blank /\ Sub[x.type] = Sub[a.type] => ElemSize[x.type] = ElemSize[a.type]
  BY <1>0, <1>1, <1>2, <1>3, <1>6
<1>11. /\ g1 \in Seq(Val) /\ l \o g1 \in Seq(Val)
       /\ CatOutcomes(x, t, l \o g1, Z)
  <2>1. /\ Adds(x, a, n1) \in Seq(Val) /\ x.seq \o Adds(x, a, n1) \in Seq(Val)
        /\ CatOutcomes(x, IF x = Blank THEN a.type ELSE x.type,
                       x.seq \o Adds(x, a, n1), aux_cat(x, TRUE, a, n1))
    BY <1>3, <1>5, <1>10, CatAdds
  <2>. QED
    BY <1>0, <1>1, <1>2, <1>7, <1>8, <1>9, <2>1
<1>12. /\ Z # {} /\ \A y \in Z : Good(y) /\ y.ext = x.ext /\ y.type = t
       /\ \A y \in Z : y.seq \in {l, l \o g1}
       /\ x.max >= Len(l \o g1) =>
            \A y \in Z : y.seq = l \o g1 /\ (x # Blank => y.max = x.max)
       /\ ~x.ext => \E y \in Z : y.seq = l \o g1
  BY <1>0, <1>1, <1>2, <1>11 DEF CatOutcomes
<1>13. ASSUME NEW y \in Z
       PROVE  /\ y.seq \in Seq(Val) /\ g2 \in Seq(Val) /\ y.seq \o g2 \in Seq(Val)
              /\ CatOutcomes(y, t, y.seq \o g2, CatOne(h, y, s2))
  <2>1. PICK src : src = IF s2 = h /\ IsVec(h) THEN y ELSE b
    OBVIOUS
  <2>2. Good(y) /\ y # Blank /\ y.type = t /\ Good(src) /\ src.seq \in Seq(Val)
    BY <1>3, <1>12, <2>1, NotBlank DEF Good
  <2>3. CatOne(h, y, s2) = aux_cat(y, TRUE, src, n2)
    BY <1>2, <1>4, <2>1 DEF CatOne
  <2>4. Sub[y.type] = Sub[src.type] => ElemSize[y.type] = ElemSize[src.type]
    <3>1. CASE src = y
      BY <3>1
    <3>2. CASE src = b
      BY <1>0, <1>1, <1>2, <1>3, <1>6, <1>8, <2>2, <3>2
    <3>. QED
      BY <2>1, <3>1, <3>2
  <2>5. Adds(y, src, n2) = g2
    <3>1. CASE s2 = h /\ IsVec(h)
      <4>1. src = y /\ b = x /\ n2 = Len(l) /\ x # Blank
        BY <1>0, <1>1, <1>2, <1>4, <2>1, <3>1 DEF IsVec
      <4>2. Take(y.seq, n2) = l
        <5>1. PICK q : q = y.seq
          OBVIOUS
        <5>2. /\ q = l \/ q = l \o g1
              /\ l \in Seq(Val) /\ g1 \in Seq(Val) /\ n2 = Len(l)
          BY <1>5, <1>11, <1>12, <4>1, <5>1
        <5>3. Take(q, n2) = l
          BY <5>2, TakeStart
        <5>. QED
          BY <5>1, <5>3
      <4>3. g2 = l
        BY <1>0, <1>1, <3>1 DEF Given
      <4>. QED
        BY <2>2, <4>1, <4>2, <4>3 DEF Adds
    <3>2. CASE ~(s2 = h /\ IsVec(h))
      <4>1. src = b
        BY <2>1, <3>2
      <4>2. Take(b.seq, n2) = b.seq
        BY <1>4, <1>5, TakeWhole
      <4>3. g2 = IF Sub[t] # Sub[b.type] THEN << >> ELSE b.seq
        <5>1. CASE x = Blank
          BY <1>0, <1>1, <1>2, <1>8, <5>1 DEF Given, IsVec
        <5>2. CASE x # Blank
          BY <1>0, <1>1, <1>2, <1>8, <5>2 DEF Given, IsVec
        <5>. QED
          BY <5>1, <5>2
      <4>. QED
        BY <2>2, <4>1, <4>2, <4>3 DEF Adds
    <3>. QED
      BY <3>1, <3>2
  <2>6. /\ Adds(y, src, n2) \in Seq(Val) /\ y.seq \o Adds(y, src, n2) \in Seq(Val)
        /\ CatOutcomes(y, IF y = Blank THEN src.type ELSE y.type,
                       y.seq \o Adds(y, src, n2), aux_cat(y, TRUE, src, n2))
    BY <1>5, <2>2, <2>4, CatAdds
  <2>. QED
    BY <2>2, <2>3, <2>5, <2>6 DEF Good
<1>14. \A e : e \in ends <=> \E y \in Z : \E z \in CatOne(h, y, s2) : e = z.seq
  BY <1>0, <1>1, <1>2, <1>8 DEF sv_cat_aux
<1>15. ends \subseteq {l, l \o g1, l \o g2, all}
  <2>1. ASSUME NEW y \in Z, NEW z \in CatOne(h, y, s2)
        PROVE  z.seq \in {l, l \o g1, l \o g2, all}
    <3>1. z.seq \in {y.seq, y.seq \o g2}
      BY <1>13, <2>1 DEF CatOutcomes
    <3>. QED
      BY <1>0, <1>1, <1>12, <3>1
  <2>. QED
    BY <1>14, <2>1
<1>16. ASSUME vec[h].max >= Len(all) PROVE ends = {all}
  <2>1. PICK y0 \in Z : TRUE
    BY <1>12
  <2>2. g2 \in Seq(Val)
    BY <1>13, <2>1
  <2>3. /\ Len(all) = Len(l \o g1) + Len(g2) /\ Len(l \o g1) \in Nat /\ Len(g2) \in Nat
        /\ x.max \in Nat /\ x.max >= Len(all)
    <3>1. x.max \in Nat
      BY <1>3 DEF Good, Blank
    <3>2. PICK lg : lg = l \o g1
      OBVIOUS
    <3>3. Len(lg \o g2) = Len(lg) + Len(g2) /\ Len(lg) \in Nat /\ Len(g2) \in Nat
      BY <1>11, <2>2, <3>2, ConcatProperties, LenProperties
    <3>. QED
      BY <1>0, <1>2, <1>16, <3>1, <3>2, <3>3
  <2>4. x.max >= Len(l \o g1)
    BY <2>3
  <2>5. ASSUME NEW y \in Z
        PROVE  /\ \A z \in CatOne(h, y, s2) : z.seq = all
               /\ CatOne(h, y, s2) # {}
    <3>1. y.seq = l \o g1 /\ y.seq \o g2 = all
      BY <1>0, <1>1, <1>12, <2>4, <2>5
    <3>2. y.max >= Len(all)
      <4>1. CASE x # Blank
        BY <1>12, <2>3, <2>4, <2>5, <4>1
      <4>2. CASE x = Blank
        <5>1. x.max = 0
          BY <4>2 DEF Blank
        <5>2. y.max \in Nat
          BY <1>12, <2>5 DEF Good
        <5>. QED
          BY <2>3, <5>1, <5>2
      <4>. QED
        BY <4>1, <4>2
    <3>. QED
      BY <1>13, <2>5, <3>1, <3>2 DEF CatOutcomes
  <2>. QED
    BY <1>14, <2>1, <2>5
<1>17. ASSUME ~vec[h].ext PROVE all \in ends
  <2>1. PICK y \in Z : y.seq = l \o g1
    BY <1>2, <1>12, <1>17
  <2>2. ~y.ext
    BY <1>2, <1>12, <1>17
  <2>3. PICK z \in CatOne(h, y, s2) : z.seq = y.seq \o g2
    BY <1>13, <2>2 DEF CatOutcomes
  <2>. QED
    BY <1>0, <1>1, <1>14, <2>1, <2>3
<1>. QED
  BY <1>0, <1>15, <1>16, <1>17 DEF CatEnds

----------------------------------------------------------------------------
(* Copies and cuts.                                                        *)

\* What is put where a target asked for as much room is there, or the target is
\* what it was.
LEMMA PutOutcome ==
  ASSUME NEW x, x = Blank \/ Good(x), NEW src, Good(src), NEW q \in Seq(Val),
         NEW n, n = Len(q), NEW y \in ReservedLike(x, src, n), NEW z, z = Filled(y, q)
  PROVE  /\ z.seq = q \/ (x # Blank /\ z.max < Len(q) /\ z.seq = x.seq /\ z.type = x.type)
         /\ x # Blank /\ n <= x.max => z.seq = q
<1>1. n \in Nat
  BY LenProperties
<1>2. CASE x = Blank
  <2>1. y = Fresh(src.type, n, FALSE)
    BY <1>2 DEF ReservedLike
  <2>2. Good(y) /\ y.max = n
    BY <1>1, <2>1, FreshGood DEF Good, Fresh
  <2>3. z.seq = q
    BY <1>1, <2>2, FilledIs
  <2>. QED
    BY <1>2, <2>3
<1>3. CASE x # Blank
  <2>1. y \in Reserved(x, n) /\ Good(x)
    BY <1>3 DEF ReservedLike
  <2>2. Good(y) /\ y.type = x.type /\ y.seq = x.seq /\ (n <= x.max => y = x)
    BY <1>1, <2>1, ReservedIs
  <2>3. /\ Filled(y, q).type = y.type /\ Filled(y, q).max = y.max
        /\ y.max >= Len(q) => Filled(y, q).seq = q
        /\ ~(y.max >= Len(q)) => Filled(y, q).seq = y.seq
    BY <2>2, FilledIs
  <2>4. y.max \in Nat /\ x.max \in Nat
    BY <2>1, <2>2 DEF Good
  <2>5. CASE y.max >= n
    BY <2>3, <2>5
  <2>6. CASE ~(y.max >= n)
    <3>1. ~(n <= x.max)
      BY <1>1, <2>2, <2>4, <2>6
    <3>2. y.max < n
      BY <1>1, <2>4, <2>6
    <3>. QED
      BY <1>3, <2>2, <2>3, <2>6, <3>1, <3>2
  <2>. QED
    BY <2>5, <2>6
<1>. QED
  BY <1>2, <1>3

\* The whole of a source, in place of what the target had.
WholeDone(x, src, z) ==
  \/ z.seq = src.seq
  \/ /\ x # Blank /\ x # src /\ z.max < Len(src.seq)
     /\ IF Sub[x.type] = Sub[src.type] THEN z.seq = x.seq
        ELSE z.seq = << >> /\ z.type # x.type

LEMMA CopyWhole ==
  ASSUME NEW x, x = Blank \/ Good(x), NEW src, Good(src), NEW no, no = FALSE,
         NEW m, m = Len(src.seq),
         x # Blank /\ Sub[x.type] = Sub[src.type] => ElemSize[x.type] = ElemSize[src.type],
         NEW z \in aux_cat(x, no, src, m)
  PROVE  WholeDone(x, src, z)
<1>1. src.seq \in Seq(Val) /\ m \in Nat
  BY LenProperties DEF Good
<1>2. PICK q : q = src.seq
  OBVIOUS
<1>3. PICK ss : ss = Least(m, Len(src.seq))
  OBVIOUS
<1>4. ss = m /\ Take(src.seq, ss) = q
  BY <1>1, <1>2, <1>3, TakeWhole DEF Least
<1>5. CASE x = Blank
  <2>1. z = [Fresh(src.type, m, FALSE) EXCEPT !.seq = src.seq]
    BY <1>5 DEF aux_cat
  <2>. QED
    BY <2>1 DEF Fresh, WholeDone
<1>6. CASE x # Blank /\ Sub[x.type] = Sub[src.type]
  <2>1. ReadBy(x, src) = q
    BY <1>2, <1>6, ReadBySame
  <2>2. PICK e : e = << >>
    OBVIOUS
  <2>3. e \o q = q /\ Len(e) = 0
    BY <1>1, <1>2, <2>2, NoMore
  <2>4. PICK y \in Reserved(x, Len(e) + ss) :
          z = IF y.max >= Len(e \o Take(q, ss)) THEN [y EXCEPT !.seq = e \o Take(q, ss)] ELSE y
    BY <1>3, <1>6, <2>1, <2>2 DEF aux_cat
  <2>5. y \in ReservedLike(x, src, m) /\ z = Filled(y, q)
    BY <1>1, <1>2, <1>4, <1>6, <2>3, <2>4 DEF ReservedLike, Filled
  <2>6. q \in Seq(Val) /\ m = Len(q) /\ m \in Nat /\ (x = Blank \/ Good(x)) /\ Good(src)
    BY <1>1, <1>2
  <2>7. /\ z.seq = q \/ (x # Blank /\ z.max < Len(q) /\ z.seq = x.seq /\ z.type = x.type)
        /\ x # Blank /\ m <= x.max => z.seq = q
    BY <2>5, <2>6, PutOutcome
  <2>8. x = src => m <= x.max
    BY DEF Good
  <2>. QED
    BY <1>2, <1>6, <2>7, <2>8 DEF WholeDone
<1>7. CASE x # Blank /\ Sub[x.type] # Sub[src.type]
  <2>0. PICK r : r = Retyped(x, src)
    OBVIOUS
  <2>1. PICK y \in Reserved(r, ss) :
          z = IF y.max >= Len(Take(src.seq, ss))
                THEN [y EXCEPT !.seq = Take(src.seq, ss)] ELSE y
    BY <1>3, <1>7, <2>0 DEF aux_cat
  <2>2. Good(r) /\ r.type = src.type /\ r.seq = << >> /\ r # Blank
    BY <1>7, <2>0, RetypedGood, NotBlank DEF Retyped, Good
  <2>3. y \in ReservedLike(r, src, m) /\ z = Filled(y, q)
    BY <1>2, <1>4, <2>1, <2>2 DEF ReservedLike, Filled
  <2>4. q \in Seq(Val) /\ m = Len(q)
    BY <1>1, <1>2
  <2>5. z.seq = q \/ (r # Blank /\ z.max < Len(q) /\ z.seq = r.seq /\ z.type = r.type)
    BY <2>2, <2>3, <2>4, PutOutcome
  <2>6. src.type # x.type
    BY <1>7
  <2>. QED
    BY <1>2, <1>7, <2>2, <2>5, <2>6 DEF WholeDone
<1>. QED
  BY <1>5, <1>6, <1>7

\* A part of a source of elements of the target's size.
PartDone(x, self, z, want) ==
  \/ z.seq = want
  \/ x # Blank /\ ~self /\ z.max < Len(want) /\ z.seq = x.seq /\ z.type = x.type

LEMMA CopyFirst ==
  ASSUME NEW x, x = Blank \/ Good(x), NEW src, Good(src), NEW no, no = FALSE,
         NEW self \in BOOLEAN, self => x = src,
         x # Blank => ElemSize[x.type] = ElemSize[src.type],
         NEW n \in Nat, NEW z \in aux_resize(x, no, src, self, n)
  PROVE  PartDone(x, self, z, Take(src.seq, n))
<1>1. src.seq \in Seq(Val) /\ Len(src.seq) \in Nat
  BY LenProperties DEF Good
<1>2. ReadBy(x, src) = src.seq
  BY ReadBySame
<1>3. PICK e, size, q : e = << >> /\ size = Least(n, Len(src.seq)) /\ q = Take(src.seq, n)
  OBVIOUS
<1>4. /\ q \in Seq(Val) /\ Len(q) = size /\ size \in Nat /\ size <= Len(src.seq)
      /\ Take(src.seq, size) = q
  BY <1>1, <1>3, LeastOf, TakeIs, TakeLeast
<1>5. e \o q = q /\ Len(e) = 0
  BY <1>3, <1>4, NoMore
<1>6. Announced(src.seq, size) = q
  BY <1>1, <1>4, AnnouncedTake
<1>7. PICK y \in ReservedLike(x, src, Len(e) + size) :
        z = IF y.max >= Len(e) + size
              THEN [y EXCEPT !.seq = IF self THEN Announced(x.seq, Len(e) + size)
                                     ELSE e \o Take(ReadBy(x, src), n)]
              ELSE y
  BY <1>3 DEF aux_resize
<1>8. (IF self THEN Announced(x.seq, Len(e) + size) ELSE e \o Take(ReadBy(x, src), n)) = q
  BY <1>2, <1>3, <1>4, <1>5, <1>6
<1>9. y \in ReservedLike(x, src, size) /\ z = Filled(y, q)
  <2>1. Len(e) + size = size
    BY <1>4, <1>5
  <2>2. y \in ReservedLike(x, src, size) /\ z = IF y.max >= size THEN [y EXCEPT !.seq = q] ELSE y
    BY <1>7, <1>8, <2>1
  <2>. QED
    BY <1>4, <2>2 DEF Filled
<1>10. /\ z.seq = q \/ (x # Blank /\ z.max < Len(q) /\ z.seq = x.seq /\ z.type = x.type)
       /\ x # Blank /\ size <= x.max => z.seq = q
  BY <1>4, <1>9, PutOutcome
<1>11. self => x # Blank /\ size <= x.max
  BY <1>1, <1>4, NotBlank DEF Good
<1>. QED
  BY <1>3, <1>10, <1>11 DEF PartDone

LEMMA CopyCut ==
  ASSUME NEW x, x = Blank \/ Good(x), NEW src, Good(src), NEW no, no = FALSE,
         NEW self \in BOOLEAN, self => x = src,
         x # Blank => ElemSize[x.type] = ElemSize[src.type],
         NEW off \in 0 .. Len(src.seq), NEW n \in Nat,
         NEW z \in aux_erase(x, no, src, self, off, n)
  PROVE  PartDone(x, self, z, Take(src.seq, off) \o Drop(src.seq, Least(off + n, Len(src.seq))))
<1>1. PICK l, ss0 : l = src.seq /\ ss0 = Len(l)
  OBVIOUS
<1>2. l \in Seq(Val) /\ ss0 \in Nat /\ off \in Nat /\ off <= ss0
  BY <1>1, LenProperties DEF Good
<1>3. ReadBy(x, src) = l
  BY <1>1, ReadBySame
<1>4. PICK to, first, rest, q :
        /\ to = Least(off + n, ss0) /\ first = Take(l, off) /\ rest = Drop(l, to)
        /\ q = first \o rest
  OBVIOUS
<1>5. to \in Nat /\ to <= ss0 /\ (off + n >= ss0 => to = ss0)
  BY <1>2, <1>4 DEF Least
<1>6. rest \in Seq(Val) /\ Len(rest) = ss0 - to
  BY <1>1, <1>2, <1>4, <1>5, DropSeq
<1>7. first \in Seq(Val) /\ Announced(l, off) = first
  BY <1>1, <1>2, <1>4, TakeIs, AnnouncedTake
<1>8. q \in Seq(Val)
  BY <1>4, <1>6, <1>7, ConcatProperties
<1>9. CASE self
  <2>1. x.seq = l /\ x = src
    BY <1>1, <1>9
  <2>2. z = [x EXCEPT !.seq = IF off + n >= ss0 THEN Announced(l, off) ELSE first \o rest]
    BY <1>1, <1>3, <1>4, <1>9, <2>1 DEF aux_erase
  <2>3. z.seq = IF off + n >= ss0 THEN Announced(l, off) ELSE first \o rest
    BY <2>1, <2>2 DEF Good
  <2>4. CASE off + n >= ss0
    <3>1. Len(rest) = 0
      BY <1>2, <1>5, <1>6, <2>4
    <3>2. rest = << >>
      BY <1>6, <3>1, EmptySeq
    <3>3. q = first
      BY <1>4, <1>7, <3>2, NoMore
    <3>. QED
      BY <1>1, <1>4, <1>7, <2>3, <2>4, <3>3 DEF PartDone
  <2>5. CASE ~(off + n >= ss0)
    BY <1>1, <1>4, <2>3, <2>5 DEF PartDone
  <2>. QED
    BY <2>4, <2>5
<1>10. CASE ~self
  <2>1. PICK e : e = << >>
    OBVIOUS
  <2>2. e \o first = first
    BY <1>7, <2>1, NoMore
  <2>3. PICK y \in ReservedLike(x, src, Len(e \o Announced(l, off) \o rest)) :
          z = IF y.max >= Len(e \o Announced(l, off) \o rest)
                THEN [y EXCEPT !.seq = e \o Announced(l, off) \o rest] ELSE y
    BY <1>1, <1>3, <1>4, <1>10, <2>1 DEF aux_erase
  <2>4. PICK m : m = Len(q)
    OBVIOUS
  <2>5. y \in ReservedLike(x, src, m) /\ z = Filled(y, q)
    <3>1. e \o Announced(l, off) \o rest = q
      BY <1>4, <1>7, <2>2
    <3>2. PICK k : k = e \o Announced(l, off) \o rest
      OBVIOUS
    <3>4. k = q /\ y \in ReservedLike(x, src, Len(k))
      BY <3>1, <3>2
    <3>5. y \in ReservedLike(x, src, m)
      BY <2>4, <3>4
    <3>3. z = IF y.max >= Len(q) THEN [y EXCEPT !.seq = q] ELSE y
      BY <2>3, <3>1
    <3>. QED
      BY <3>3, <3>5 DEF Filled
  <2>6. (x = Blank \/ Good(x)) /\ Good(src) /\ q \in Seq(Val) /\ m = Len(q) /\ m \in Nat
    BY <1>8, <2>4, LenProperties
  <2>7. /\ z.seq = q \/ (x # Blank /\ z.max < Len(q) /\ z.seq = x.seq /\ z.type = x.type)
        /\ x # Blank /\ m <= x.max => z.seq = q
    BY <2>5, <2>6, PutOutcome
  <2>. QED
    BY <1>1, <1>4, <1>10, <2>7 DEF PartDone
<1>. QED
  BY <1>9, <1>10

\* Copies and cuts, in place and from another vector.
LEMMA InvCopiesExact == IInv => CopiesExact
<1>1. SUFFICES ASSUME IInv, NEW h \in Handle, NEW s \in Handle, IsVec(s)
               PROVE  /\ ToldApart(h, s) =>
                           \A y \in aux_cat(vec[h], FALSE, vec[s], Len(vec[s].seq)) :
                             CopyDone(h, s, y, vec[s].seq)
                      /\ Alike(h, s) =>
                           \A n \in 0 .. MaxLen[s] + 1 :
                             /\ \A y \in aux_resize(vec[h], FALSE, vec[s], h = s, n) :
                                  CopyDone(h, s, y, Take(vec[s].seq, n))
                             /\ \A off \in 0 .. Len(vec[s].seq) :
                                  \A y \in aux_erase(vec[h], FALSE, vec[s], h = s, off, n) :
                                    CopyDone(h, s, y, Take(vec[s].seq, off)
                                               \o Drop(vec[s].seq, Least(off + n, Len(vec[s].seq))))
  BY DEF CopiesExact
<1>2. PICK x, src, no, self, m :
        /\ x = vec[h] /\ src = vec[s] /\ no = FALSE /\ self = (h = s) /\ m = Len(src.seq)
  OBVIOUS
<1>3. /\ x = Blank \/ Good(x)
      /\ Good(src) /\ self \in BOOLEAN /\ (self => x = src) /\ (IsVec(h) <=> x # Blank)
  BY <1>1, <1>2, GoodVec DEF IInv, IsVec
<1>4. ASSUME ToldApart(h, s), NEW y \in aux_cat(vec[h], FALSE, vec[s], Len(vec[s].seq))
      PROVE  CopyDone(h, s, y, vec[s].seq)
  <2>1. x # Blank /\ Sub[x.type] = Sub[src.type] => ElemSize[x.type] = ElemSize[src.type]
    BY <1>1, <1>2, <1>3, <1>4 DEF ToldApart, Alike
  <2>2. y \in aux_cat(x, no, src, m)
    BY <1>2, <1>4
  <2>3. WholeDone(x, src, y)
    <3>1. /\ x = Blank \/ Good(x)
          /\ Good(src) /\ no = FALSE /\ m = Len(src.seq)
      BY <1>2, <1>3
    <3>. QED
      BY <2>1, <2>2, <3>1, CopyWhole
  <2>. QED
    BY <1>2, <1>3, <2>3 DEF CopyDone, WholeDone
<1>5. ASSUME Alike(h, s), NEW n \in 0 .. MaxLen[s] + 1
      PROVE  /\ \A y \in aux_resize(vec[h], FALSE, vec[s], h = s, n) :
                  CopyDone(h, s, y, Take(vec[s].seq, n))
             /\ \A off \in 0 .. Len(vec[s].seq) :
                  \A y \in aux_erase(vec[h], FALSE, vec[s], h = s, off, n) :
                    CopyDone(h, s, y, Take(vec[s].seq, off)
                               \o Drop(vec[s].seq, Least(off + n, Len(vec[s].seq))))
  <2>1. x # Blank => ElemSize[x.type] = ElemSize[src.type]
    BY <1>2, <1>3, <1>5 DEF Alike
  <2>2. n \in Nat
    BY VectorAssumption
  <2>3. ASSUME NEW y, NEW want, PartDone(x, self, y, want)
        PROVE  CopyDone(h, s, y, want)
    BY <1>2, <1>3, <2>3 DEF PartDone, CopyDone
  <2>4. \A y \in aux_resize(x, no, src, self, n) : PartDone(x, self, y, Take(src.seq, n))
    BY <1>2, <1>3, <2>1, <2>2, CopyFirst
  <2>5. \A off \in 0 .. Len(src.seq) : \A y \in aux_erase(x, no, src, self, off, n) :
          PartDone(x, self, y, Take(src.seq, off)
                     \o Drop(src.seq, Least(off + n, Len(src.seq))))
    BY <1>2, <1>3, <2>1, <2>2, CopyCut
  <2>. QED
    BY <1>2, <2>3, <2>4, <2>5
<1>. QED
  BY <1>4, <1>5

----------------------------------------------------------------------------
(* Look-ups and comparisons.                                               *)

\* No client puts more elements in a vector than it says it will.
Bounded == \A h \in Handle : Len(vec[h].seq) <= MaxLen[h]

\* n elements of a sequence, from the one after the first off ones.
LEMMA PartIs ==
  ASSUME NEW s \in Seq(Val), NEW off \in Nat, NEW n \in Nat, off + n <= Len(s)
  PROVE  /\ Take(Drop(s, off), n) \in Seq(Val) /\ Len(Take(Drop(s, off), n)) = n
         /\ \A k \in 1 .. n : Take(Drop(s, off), n)[k] = s[off + k]
<1>1. Len(s) \in Nat /\ \A i \in 1 .. Len(s) : s[i] \in Val
  BY LenProperties, ElementOfSeq
<1>2. PICK r : r = Drop(s, off)
  OBVIOUS
<1>3. r \in Seq(Val) /\ Len(r) = Len(s) - off
  BY <1>1, <1>2, DropSeq
<1>4. ASSUME NEW k \in 1 .. n PROVE r[k] = s[off + k]
  <2>1. \A i \in off + 1 .. Len(s) : s[i] \in Val
    BY <1>1
  <2>2. k \in 1 .. Len(s) - off
    BY <1>1
  <2>3. r = SubSeq(s, off + 1, Len(s))
    BY <1>2 DEF Drop
  <2>4. r[k] = s[(off + 1) + k - 1]
    BY <1>1, <2>1, <2>2, <2>3, SubSeqProperties
  <2>. QED
    BY <2>4
<1>5. Least(n, Len(r)) = n
  BY <1>1, <1>3 DEF Least
<1>6. Take(r, n) \in Seq(Val) /\ Len(Take(r, n)) = n /\ \A k \in 1 .. n : Take(r, n)[k] = r[k]
  BY <1>3, <1>5, TakeIs
<1>. QED
  BY <1>2, <1>4, <1>6

\* Two stretches compare equal when both have the n elements and they are the same.
Compared(x, i, y, j, n) ==
  (sv_ncmp(x, i, y, j, n) = 0) <=>
    /\ i + n <= Len(x.seq) /\ j + n <= Len(y.seq)
    /\ Take(Drop(x.seq, i), n) = Take(Drop(y.seq, j), n)

LEMMA NcmpIs ==
  ASSUME NEW x, x.seq \in Seq(Val), NEW y, y.seq \in Seq(Val),
         NEW i \in 0 .. Len(x.seq), NEW j \in 0 .. Len(y.seq), NEW n \in Nat
  PROVE  Compared(x, i, y, j, n)
<1>1. PICK a, b : a = x.seq /\ b = y.seq
  OBVIOUS
<1>2. a \in Seq(Val) /\ b \in Seq(Val) /\ Len(a) \in Nat /\ Len(b) \in Nat
  BY <1>1, LenProperties
<1>3. PICK la, lb : la = (IF i < Len(a) THEN Len(a) - i ELSE 0)
                    /\ lb = (IF j < Len(b) THEN Len(b) - j ELSE 0)
  OBVIOUS
<1>4. la = Len(a) - i /\ lb = Len(b) - j /\ la \in Nat /\ lb \in Nat
  BY <1>1, <1>2, <1>3
<1>5. PICK m : m = Least(n, Least(la, lb))
  OBVIOUS
<1>6. m \in Nat /\ m <= n /\ (m = n <=> n <= la /\ n <= lb)
  BY <1>4, <1>5 DEF Least
<1>7. PICK diff : diff = {k \in 1 .. m : a[i + k] # b[j + k]}
  OBVIOUS
<1>8. (sv_ncmp(x, i, y, j, n) = 0) <=> diff = {} /\ m = n
  <2>1. PICK least, more, less :
          /\ least = (CHOOSE k \in diff : \A l \in diff : k <= l)
          /\ more = (IF a[i + least] < b[j + least] THEN -1 ELSE 1)
          /\ less = (IF Len(a) > Len(b) THEN 1 ELSE -1)
    OBVIOUS
  <2>2. sv_ncmp(x, i, y, j, n) = IF diff # {} THEN more ELSE IF m = n THEN 0 ELSE less
    BY <1>1, <1>3, <1>5, <1>7, <2>1 DEF sv_ncmp
  <2>3. more # 0 /\ less # 0
    BY <2>1
  <2>. QED
    BY <2>2, <2>3
<1>9. n <= la /\ n <= lb <=> i + n <= Len(a) /\ j + n <= Len(b)
  BY <1>2, <1>4
<1>10. ASSUME i + n <= Len(a), j + n <= Len(b)
       PROVE  diff = {} <=> Take(Drop(a, i), n) = Take(Drop(b, j), n)
  <2>1. i \in Nat /\ j \in Nat
    OBVIOUS
  <2>2. PICK p, q : p = Take(Drop(a, i), n) /\ q = Take(Drop(b, j), n)
    OBVIOUS
  <2>3. p \in Seq(Val) /\ Len(p) = n /\ \A k \in 1 .. n : p[k] = a[i + k]
    <3>1. n \in Nat /\ i + n <= Len(a)
      BY <1>10
    <3>. QED
      BY <1>2, <2>1, <2>2, <3>1, PartIs
  <2>4. q \in Seq(Val) /\ Len(q) = n /\ \A k \in 1 .. n : q[k] = b[j + k]
    <3>1. n \in Nat /\ j + n <= Len(b)
      BY <1>10
    <3>. QED
      BY <1>2, <2>1, <2>2, <3>1, PartIs
  <2>5. diff = {} <=> \A k \in 1 .. n : p[k] = q[k]
    BY <1>6, <1>7, <1>9, <1>10, <2>3, <2>4
  <2>6. (\A k \in 1 .. n : p[k] = q[k]) <=> p = q
    BY <2>3, <2>4, SeqEqual
  <2>. QED
    BY <2>2, <2>5, <2>6
<1>. QED
  BY <1>1, <1>6, <1>8, <1>9, <1>10 DEF Compared

LEMMA Remainder ==
  ASSUME NEW c \in Nat, NEW d \in Nat \ {0}, NEW r \in Nat, r < d,
         NEW w, w = c * d + r
  PROVE  w % d = r
<1>1. w \in Nat
  OBVIOUS
<1>2. PICK q, m : q = w \div d /\ m = w % d
  OBVIOUS
<1>3. q \in Nat /\ m \in Nat /\ m < d /\ w = q * d + m
  BY <1>1, <1>2
<1>4. q * d \in Nat /\ c * d \in Nat
  BY <1>3
<1>5. ~(q + 1 <= c)
  <2>1. ASSUME q + 1 <= c PROVE FALSE
    <3>1. PICK p \in Nat : p = q + 1
      BY <1>3
    <3>2. p * d <= c * d
      BY <2>1, <3>1, ProductOrder
    <3>3. p * d = q * d + d
      BY <1>3, <3>1
    <3>. QED
      BY <1>3, <1>4, <3>2, <3>3
  <2>. QED
    BY <2>1
<1>6. ~(c + 1 <= q)
  <2>1. ASSUME c + 1 <= q PROVE FALSE
    <3>1. PICK p \in Nat : p = c + 1
      OBVIOUS
    <3>2. p * d <= q * d
      BY <1>3, <2>1, <3>1, ProductOrder
    <3>3. p * d = c * d + d
      BY <3>1
    <3>. QED
      BY <1>3, <1>4, <3>2, <3>3
  <2>. QED
    BY <2>1
<1>7. q = c
  BY <1>3, <1>5, <1>6
<1>. QED
  BY <1>2, <1>3, <1>4, <1>7

\* The element a look-up starts from, as its bytes count.
Start(off, es) == ((off * es) % (SizeMax + 1)) \div es

\* Where a look-up starts: at the offset, or past the end when that is Npos and
\* its bytes wrap around.
LEMMA FirstIs ==
  ASSUME NEW len \in Nat, NEW es \in Nat \ {0}, (len + 1) * es <= SizeMax,
         NEW off \in Unwrapped(es) \cup {Npos}
  PROVE  /\ Start(off, es) \in Nat
         /\ off <= len => Start(off, es) = off
         /\ off > len => Start(off, es) >= len
<1>1. SizeMax \in Nat /\ off \in Nat
  BY VectorAssumption DEF Npos, Unwrapped
<1>2. PICK w \in Nat : w = off * es
  BY <1>1
<1>3. (len + 1) * es = len * es + es /\ len * es \in Nat
  OBVIOUS
<1>4. CASE w <= SizeMax
  <2>1. w % (SizeMax + 1) = w
    BY <1>1, <1>4
  <2>2. (off * es) \div es = off
    BY <1>1
  <2>. QED
    BY <1>1, <1>2, <2>1, <2>2 DEF Start
<1>5. CASE w > SizeMax
  <2>1. off = SizeMax
    BY <1>1, <1>2, <1>5 DEF Npos, Unwrapped
  <2>2. PICK r \in Nat : r = SizeMax + 1 - es
    BY <1>1, <1>3
  <2>3. w = (es - 1) * (SizeMax + 1) + r
    BY <1>1, <1>2, <2>1, <2>2
  <2>4. w % (SizeMax + 1) = r
    <3>1. PICK c \in Nat, d \in Nat \ {0} : c = es - 1 /\ d = SizeMax + 1
      BY <1>1
    <3>2. r < d /\ w = c * d + r
      BY <1>1, <2>2, <2>3, <3>1
    <3>3. w % d = r
      BY <3>2, Remainder
    <3>. QED
      BY <3>1, <3>3
  <2>5. Start(off, es) = r \div es
    BY <1>2, <2>4 DEF Start
  <2>6. len * es <= r
    BY <1>1, <1>3, <2>2
  <2>7. r \div es \in Nat /\ r \div es >= len
    BY <2>6
  <2>8. off > len
    <3>1. PICK top \in Nat : top = len + 1
      OBVIOUS
    <3>2. 1 * top <= es * top
      BY ProductOrder
    <3>3. 1 * top = top /\ es * top = (len + 1) * es
      BY <3>1
    <3>. QED
      BY <1>1, <2>1, <3>1, <3>2, <3>3
  <2>. QED
    BY <1>1, <2>5, <2>7, <2>8
<1>. QED
  BY <1>1, <1>2, <1>4, <1>5

LEMMA FindIs ==
  ASSUME NEW x, x.seq \in Seq(Val), ElemSize[x.type] \in Nat \ {0},
         (Len(x.seq) + 1) * ElemSize[x.type] <= SizeMax,
         NEW off \in Unwrapped(ElemSize[x.type]) \cup {Npos}, NEW e,
         NEW at, at = {i \in 0 .. Len(x.seq) - 1 : i >= off /\ x.seq[i + 1] = e}
  PROVE  sv_find(x, off, e) = FirstOf(at)
<1>1. PICK len, es, first : /\ len = Len(x.seq) /\ es = ElemSize[x.type]
                            /\ first = Start(off, es)
  OBVIOUS
<1>2. len \in Nat /\ es \in Nat \ {0} /\ (len + 1) * es <= SizeMax
      /\ off \in Unwrapped(es) \cup {Npos}
  BY <1>1, LenProperties
<1>3. /\ first \in Nat
      /\ off <= len => first = off
      /\ off > len => first >= len
  BY <1>1, <1>2, FirstIs
<1>4. off \in Nat
  BY <1>2, VectorAssumption DEF Npos, Unwrapped
<1>5. at = {i \in first .. len - 1 : x.seq[i + 1] = e}
  BY <1>1, <1>2, <1>3, <1>4
<1>. QED
  BY <1>1, <1>5 DEF sv_find, Start

LEMMA InvReadsExact == IInv /\ Bounded => ReadsExact
<1>1. SUFFICES ASSUME IInv, Bounded, NEW h \in Handle, NEW s \in Handle, IsVec(h), IsVec(s)
               PROVE
    /\ \A off \in Unwrapped(ElemSize[vec[h].type]) \cup {Npos}, e \in Val :
         sv_find(vec[h], off, e) =
           FirstOf({i \in 0 .. SizeOf(h) - 1 : i >= off /\ vec[h].seq[i + 1] = e})
    /\ \A i \in 0 .. SizeOf(h), j \in 0 .. SizeOf(s), n \in 0 .. MaxLen[h] :
         Alike(h, s) =>
           ((sv_ncmp(vec[h], i, vec[s], j, n) = 0) <=>
              /\ i + n <= SizeOf(h) /\ j + n <= SizeOf(s)
              /\ Take(Drop(vec[h].seq, i), n) = Take(Drop(vec[s].seq, j), n))
  BY DEF ReadsExact
<1>2. PICK x, y : x = vec[h] /\ y = vec[s]
  OBVIOUS
<1>3. Good(x) /\ Good(y) /\ x.seq \in Seq(Val) /\ y.seq \in Seq(Val)
      /\ Len(x.seq) \in Nat /\ Len(y.seq) \in Nat
  BY <1>1, <1>2, GoodVec, LenProperties DEF Good
<1>4. SizeOf(h) = Len(x.seq) /\ SizeOf(s) = Len(y.seq)
  BY <1>2 DEF SizeOf
<1>5. ASSUME NEW off \in Unwrapped(ElemSize[vec[h].type]) \cup {Npos}, NEW e \in Val
      PROVE  sv_find(vec[h], off, e) =
               FirstOf({i \in 0 .. SizeOf(h) - 1 : i >= off /\ vec[h].seq[i + 1] = e})
  <2>1. PICK at : at = {i \in 0 .. SizeOf(h) - 1 : i >= off /\ vec[h].seq[i + 1] = e}
    OBVIOUS
  <2>2. PICK es, len, top : es = ElemSize[x.type] /\ len = Len(x.seq) + 1 /\ top = MaxLen[h] + 1
    OBVIOUS
  <2>3. es \in Nat \ {0} /\ len \in Nat /\ top \in Nat /\ len <= top /\ top * es <= SizeMax
    <3>1. x.type \in Type
      BY <1>3 DEF Good
    <3>2. es \in Nat \ {0} /\ (MaxLen[h] + 1) * es <= SizeMax /\ MaxLen[h] \in Nat
      BY <2>2, <3>1, VectorAssumption
    <3>3. Len(x.seq) <= MaxLen[h]
      BY <1>1, <1>2 DEF Bounded
    <3>. QED
      BY <1>3, <2>2, <3>2, <3>3
  <2>4. len * es <= top * es /\ len * es \in Nat /\ top * es \in Nat /\ SizeMax \in Nat
    BY <2>3, ProductOrder, VectorAssumption
  <2>5. len * es <= SizeMax
    BY <2>3, <2>4
  <2>6. /\ x.seq \in Seq(Val) /\ ElemSize[x.type] \in Nat \ {0}
        /\ (Len(x.seq) + 1) * ElemSize[x.type] <= SizeMax
        /\ off \in Unwrapped(ElemSize[x.type]) \cup {Npos}
        /\ at = {i \in 0 .. Len(x.seq) - 1 : i >= off /\ x.seq[i + 1] = e}
    BY <1>2, <1>3, <1>4, <2>1, <2>2, <2>3, <2>5
  <2>7. sv_find(x, off, e) = FirstOf(at)
    BY <2>6, FindIs
  <2>. QED
    BY <1>2, <2>1, <2>7
<1>6. ASSUME NEW i \in 0 .. SizeOf(h), NEW j \in 0 .. SizeOf(s), NEW n \in 0 .. MaxLen[h]
      PROVE  (sv_ncmp(vec[h], i, vec[s], j, n) = 0) <=>
               /\ i + n <= SizeOf(h) /\ j + n <= SizeOf(s)
               /\ Take(Drop(vec[h].seq, i), n) = Take(Drop(vec[s].seq, j), n)
  <2>1. n \in Nat
    BY VectorAssumption
  <2>2. Compared(x, i, y, j, n)
    <3>1. i \in 0 .. Len(x.seq) /\ j \in 0 .. Len(y.seq)
      BY <1>4
    <3>. QED
      BY <1>3, <2>1, <3>1, NcmpIs
  <2>. QED
    BY <1>2, <1>4, <2>2 DEF Compared
<1>. QED
  BY <1>5, <1>6

\* A call changes one vector.
LEMMA OneChanges ==
  ASSUME IInv, NEW h \in Handle, Memory(h) \/ Elements(h) \/ Whole(h)
  PROVE  \A k \in Handle \ {h} : vec'[k] = vec[k]
<1>1. ASSUME NEW Z, Becomes(h, Z) PROVE \E y : vec' = [vec EXCEPT ![h] = y]
  BY <1>1 DEF Becomes
<1>2. (\E y : vec' = [vec EXCEPT ![h] = y]) \/ vec' = vec
  <2>1. CASE Memory(h)
    BY <1>1, <2>1 DEF Memory, sv_alloc, sv_reserve, sv_free, sv_shrink, sv_clear
  <2>2. CASE Elements(h)
    <3>1. CASE sv_sort(h)
      BY <1>1, <3>1 DEF sv_sort
    <3>2. CASE sv_pop(h)
      BY <3>2 DEF sv_pop, IInv
    <3>3. CASE \E i \in 0 .. SizeOf(h), e \in Val, t \in Type : sv_set(h, i, e, ElemSize[t])
      BY <3>3 DEF sv_set
    <3>. QED
      BY <2>2, <3>1, <3>2, <3>3 DEF Elements, sv_push, sv_push_own
  <2>3. CASE Whole(h)
    BY <1>1, <2>3 DEF Whole, sv_cpy, sv_cat, sv_erase, sv_resize
  <2>. QED
    BY <2>1, <2>2, <2>3
<1>. QED
  BY <1>2 DEF IInv

LEMMA InitBounded == Init => Bounded
<1>1. Len(Blank.seq) = 0
  BY EmptySeq DEF Blank
<1>. QED
  BY <1>1, VectorAssumption DEF Init, Bounded

LEMMA NextBounded ==
  ASSUME IInv, Bounded, [Next]_vars
  PROVE  Bounded'
<1>1. CASE Next
  <2>1. PICK h \in Handle : (Memory(h) \/ Elements(h) \/ Whole(h)) /\ Fits(h)
    BY <1>1 DEF Next
  <2>2. \A k \in Handle \ {h} : vec'[k] = vec[k]
    BY <2>1, OneChanges
  <2>. QED
    BY <2>1, <2>2 DEF Fits, Bounded
<1>2. CASE UNCHANGED vars
  BY <1>2 DEF vars, Bounded
<1>. QED
  BY <1>1, <1>2

\* A concatenation adds the elements its sources had when it was called, also when
\* a source is the vector it grows (sv_cat_aux, aux_cat).
THEOREM VectorCatExact == Spec => []CatExact
<1>1. IInv /\ [Next]_vars => IInv'
  BY NextIInv
<1>. QED
  BY InitIInv, <1>1, InvCatExact, PTL DEF Spec

\* A copy, a cut and a resize leave what was asked of the source, in place too
\* (aux_cat, aux_erase, aux_resize).
THEOREM VectorCopiesExact == Spec => []CopiesExact
<1>1. IInv /\ [Next]_vars => IInv'
  BY NextIInv
<1>. QED
  BY InitIInv, <1>1, InvCopiesExact, PTL DEF Spec

\* A look-up finds the first of the elements from its offset on, for S_NPOS and
\* every offset whose bytes do not wrap around, and two stretches compare equal
\* when they are (sv_find_aux, sv_ncmp).
THEOREM VectorReadsExact == Spec => []ReadsExact
<1>1. IInv /\ Bounded /\ [Next]_vars => (IInv /\ Bounded)'
  BY NextIInv, NextBounded
<1>2. Init => IInv /\ Bounded
  BY InitIInv, InitBounded
<1>. QED
  BY <1>1, <1>2, InvReadsExact, PTL DEF Spec
=============================================================================
