---------------------------- MODULE StrMap_proofs ----------------------------
(***************************************************************************)
(* For every number of maps and blocks, and every set of strings: a block  *)
(* has one owner, none is lost, and the maps are dictionaries of strings,  *)
(* each its own, whatever is stored where, overwritten, deleted or copied  *)
(* by the calls of CoreSpec: trees are cleared and copied onto, hash maps  *)
(* are freed and duplicated.                                               *)
(***************************************************************************)
EXTENDS StrMap, SequenceTheorems, TLAPS

\* What an element is made of.
Elem(e) ==
  /\ e = [t |-> e.t, in |-> e.in, ref |-> e.ref]
  /\ e.t \in Form
  /\ e.t \in {"D", "I"} <=> ~type.two
  /\ Len(e.in) = CASE e.t \in {"D", "DI", "ID"} -> 1
                   [] e.t = "DD" -> 2 [] OTHER -> 0
  /\ e.ref \in Seq(Block)
  /\ Len(e.ref) = CASE e.t \in {"I", "DI", "ID"} -> 1
                    [] e.t = "II" -> 2 [] OTHER -> 0

\* The state of a copy: some elements of the source, as they were copied.
CopyOK ==
  \/ copy = NoCopy
  \/ /\ copy = [to |-> copy.to, from |-> copy.from, todo |-> copy.todo]
     /\ copy.to \in Map /\ copy.from \in Map /\ copy.to # copy.from
     /\ copy.todo # {}
     /\ copy.todo \subseteq elems[copy.to] /\ copy.todo \subseteq elems[copy.from]

OwnInv ==
  /\ type \in Type
  /\ DOMAIN elems = Map
  /\ \A m \in Map : \A e \in elems[m] : Elem(e)
  /\ DOMAIN heap \subseteq Block
  /\ CopyOK
  /\ OneOwner
  /\ NoLeak

----------------------------------------------------------------------------
(* The blocks of an element.                                               *)

\* A new element's references: as many as it has strings outside, all
\* different, each a block it was handed or one just allocated.
Fresh(ref, n, spare) ==
  /\ ref \in Seq(Block) /\ Len(ref) = n
  /\ \A i \in 1 .. n : ref[i] \in Range(spare) \/ ref[i] \in Unused
  /\ \A i, j \in 1 .. n : ref[i] = ref[j] => i = j

\* The blocks an element may hand over.
Owned(spare) ==
  /\ spare \in Seq(Block) /\ Len(spare) \in 0 .. 2
  /\ Range(spare) \subseteq DOMAIN heap
  /\ \A i, j \in 1 .. Len(spare) : spare[i] = spare[j] => i = j

\* malloc returns two different blocks that were not in use.
LEMMA NewBlocks ==
  ASSUME HasRoom
  PROVE  New1 \in Unused /\ New2 \in Unused /\ New1 # New2
<1>1. New1 \in Unused
  BY DEF HasRoom, New1
<1>2. New2 \in Unused \ {New1}
  BY DEF HasRoom, New2
<1>. QED
  BY <1>1, <1>2

\* References to new blocks only.
LEMMA TwoNew ==
  ASSUME HasRoom, NEW n \in 0 .. 2, NEW spare
  PROVE  Fresh(SubSeq(<<New1, New2>>, 1, n), n, spare)
<1>1. New1 \in Unused /\ New2 \in Unused /\ New1 # New2
  BY NewBlocks
<1>2. <<New1, New2>> \in Seq(Block)
  BY <1>1 DEF Unused
<1>. DEFINE new == <<New1, New2>>
            s == SubSeq(new, 1, n)
<1>3. Len(new) = 2 /\ new[1] = New1 /\ new[2] = New2
  OBVIOUS
<1>4. s \in Seq(Block) /\ Len(s) = n /\ \A i \in 1 .. n : s[i] = new[i]
  <2>1. \A i \in 1 .. n : new[i] \in Block
    BY <1>1, <1>3 DEF Unused
  <2>2. Len(s) = n /\ \A i \in 1 .. n : s[i] = new[1 + i - 1]
    BY <1>2, <1>3, <2>1, SubSeqProperties
  <2>3. s \in Seq(Block)
    BY <1>2, <1>3, <2>1, SubSeqProperties
  <2>. QED
    BY <2>2, <2>3
<1>. HIDE DEF s, new
<1>5. \A i \in 1 .. n : i = 1 \/ i = 2
  OBVIOUS
<1>6. \A i \in 1 .. n : s[i] \in Unused
  BY <1>1, <1>3, <1>4, <1>5
<1>7. \A i, j \in 1 .. n : s[i] = s[j] => i = j
  BY <1>1, <1>3, <1>4, <1>5
<1>. QED
  BY <1>4, <1>6, <1>7 DEF Fresh, s, new

\* An element has at most two strings on the heap.
LEMMA OutsideLen ==
  ASSUME NEW k, NEW v
  PROVE  Len(Outside(k, v)) \in 0 .. 2
<1>1. Outside(k, v) \in {<<k>>, <<v>>, <<k, v>>, << >>}
  BY DEF Outside
<1>2. /\ Len(<<k>>) = 1 /\ Len(<<v>>) = 1 /\ Len(<<k, v>>) = 2
      /\ Len(<< >>) = 0
  OBVIOUS
<1>. QED
  BY <1>1, <1>2

\* What sso_set0 leaves an element to refer to.
LEMMA RefsFresh ==
  ASSUME HasRoom, NEW k, NEW v, NEW spare, Owned(spare)
  PROVE  Fresh(RefsFor(k, v, spare), Len(Outside(k, v)), spare)
<1>. DEFINE n == Len(Outside(k, v))
            ref == RefsFor(k, v, spare)
<1>0. n \in 0 .. 2
  BY OutsideLen
<1>. HIDE DEF n
<1>1. CASE Len(spare) >= n
  <2>1. ref = SubSeq(spare, 1, n)
    BY <1>1 DEF RefsFor, n
  <2>2. \A i \in 1 .. n : spare[i] \in Block
    BY <1>0, <1>1, ElementOfSeq DEF Owned
  <2>3. ref \in Seq(Block) /\ Len(ref) = n /\ \A i \in 1 .. n : ref[i] = spare[i]
    <3>1. Len(ref) = n /\ \A i \in 1 .. n : ref[i] = spare[1 + i - 1]
      BY <1>0, <1>1, <2>1, <2>2, SubSeqProperties DEF Owned
    <3>2. ref \in Seq(Block)
      BY <1>0, <1>1, <2>1, <2>2, SubSeqProperties DEF Owned
    <3>. QED
      BY <3>1, <3>2
  <2>4. \A i \in 1 .. n : ref[i] \in Range(spare)
    BY <1>0, <1>1, <2>3, LenProperties DEF Range, Owned
  <2>5. \A i, j \in 1 .. n : ref[i] = ref[j] => i = j
    BY <1>0, <1>1, <2>3 DEF Owned
  <2>. QED
    BY <2>3, <2>4, <2>5 DEF Fresh, n
<1>2. CASE ~ (Len(spare) >= n) /\ Len(spare) = 1 /\ n = 2
  <2>1. ref = <<spare[1], New1>>
    BY <1>2 DEF RefsFor, n
  <2>2. spare[1] \in Block /\ spare[1] \in Range(spare)
    <3>1. spare \in Seq(Block) /\ 1 \in 1 .. Len(spare)
      BY <1>2 DEF Owned
    <3>2. spare[1] \in Block /\ DOMAIN spare = 1 .. Len(spare)
      BY <3>1, ElementOfSeq, LenProperties
    <3>. QED
      BY <3>1, <3>2 DEF Range
  <2>3. New1 \in Unused
    BY NewBlocks
  <2>4. spare[1] # New1
    BY <2>2, <2>3 DEF Owned, Unused
  <2>5. Len(ref) = 2 /\ ref[1] = spare[1] /\ ref[2] = New1
    BY <2>1
  <2>6. ref \in Seq(Block)
    <3>1. <<spare[1], New1>> \in Seq(Block)
      BY <2>2, <2>3 DEF Unused
    <3>. QED
      BY <2>1, <3>1
  <2>7. \A i \in 1 .. n : i = 1 \/ i = 2
    BY <1>2
  <2>. QED
    BY <1>2, <2>2, <2>3, <2>4, <2>5, <2>6, <2>7 DEF Fresh, n
<1>3. CASE ~ (Len(spare) >= n) /\ ~ (Len(spare) = 1 /\ n = 2)
  <2>1. ref = SubSeq(<<New1, New2>>, 1, n)
    BY <1>3 DEF RefsFor, n
  <2>. QED
    BY <1>0, <2>1, TwoNew DEF n
<1>. QED
  BY <1>1, <1>2, <1>3

----------------------------------------------------------------------------
(* Accounts.  S is the set of elements of each map, H the blocks in use.   *)

Accounted(S, H) ==
  /\ \A m, n \in Map : \A e \in S[m], f \in S[n] :
       \A i \in DOMAIN e.ref, j \in DOMAIN f.ref :
         e.ref[i] = f.ref[j] => m = n /\ e = f /\ i = j
  /\ \A b \in H : \E m \in Map : \E e \in S[m] : \E i \in DOMAIN e.ref : b = e.ref[i]
  /\ \A m \in Map : \A e \in S[m] : \A i \in DOMAIN e.ref : e.ref[i] \in H

Blocks(E) == UNION {Range(e.ref) : e \in E}

Without(S, m, D) == [n \in Map |-> IF n = m THEN S[n] \ D ELSE S[n]]
With(S, m, x) == [n \in Map |-> IF n = m THEN S[n] \cup {x} ELSE S[n]]

\* Elements leave, and their blocks are released.
LEMMA Leaves ==
  ASSUME NEW S, NEW H, Accounted(S, H), NEW m \in Map, NEW D, D \subseteq S[m]
  PROVE  Accounted(Without(S, m, D), H \ Blocks(D))
<1>. DEFINE T == Without(S, m, D)
<1>0. \A n \in Map : T[n] = IF n = m THEN S[n] \ D ELSE S[n]
  BY DEF Without
<1>. HIDE DEF T
<1>1. \A n \in Map : T[n] \subseteq S[n]
  BY <1>0
<1>2. \A n, o \in Map : \A e \in T[n], f \in T[o] :
        \A i \in DOMAIN e.ref, j \in DOMAIN f.ref :
          e.ref[i] = f.ref[j] => n = o /\ e = f /\ i = j
  BY <1>1 DEF Accounted
<1>3. ASSUME NEW b \in H \ Blocks(D)
      PROVE  \E n \in Map : \E e \in T[n] : \E i \in DOMAIN e.ref : b = e.ref[i]
  <2>1. PICK n, e, i :
         n \in Map /\ e \in S[n] /\ i \in DOMAIN e.ref /\ b = e.ref[i]
    BY DEF Accounted
  <2>2. b \in Range(e.ref)
    BY <2>1 DEF Range
  <2>3. e \notin D
    BY <2>2 DEF Blocks
  <2>4. e \in T[n]
    BY <1>0, <2>1, <2>3
  <2>. QED
    BY <2>1, <2>4
<1>4. ASSUME NEW n \in Map, NEW e \in T[n], NEW i \in DOMAIN e.ref
      PROVE  e.ref[i] \in H \ Blocks(D)
  <2>1. e.ref[i] \in H
    BY <1>1 DEF Accounted
  <2>2. SUFFICES ASSUME e.ref[i] \in Blocks(D) PROVE FALSE
    BY <2>1
  <2>3. PICK f \in D : e.ref[i] \in Range(f.ref)
    BY <2>2 DEF Blocks
  <2>4. PICK j \in DOMAIN f.ref : e.ref[i] = f.ref[j]
    BY <2>3 DEF Range
  <2>5. n = m /\ e = f
    BY <1>1, <2>4 DEF Accounted
  <2>. QED
    BY <1>0, <2>5
<1>. QED
  BY <1>2, <1>3, <1>4 DEF Accounted, T

\* An element comes in, with blocks that nothing refers to.
LEMMA Enters ==
  ASSUME NEW S, NEW H, Accounted(S, H), NEW m \in Map, NEW x,
         \A i \in DOMAIN x.ref : x.ref[i] \notin H,
         \A i, j \in DOMAIN x.ref : x.ref[i] = x.ref[j] => i = j
  PROVE  Accounted(With(S, m, x), H \cup Range(x.ref))
<1>. DEFINE T == With(S, m, x)
<1>0. \A n \in Map : T[n] = IF n = m THEN S[n] \cup {x} ELSE S[n]
  BY DEF With
<1>. HIDE DEF T
<1>1. ASSUME NEW n \in Map, NEW e \in T[n]
      PROVE  e \in S[n] \/ (n = m /\ e = x)
  BY <1>0
<1>2. ASSUME NEW n \in Map, NEW o \in Map, NEW e \in T[n], NEW f \in T[o],
             NEW i \in DOMAIN e.ref, NEW j \in DOMAIN f.ref, e.ref[i] = f.ref[j]
      PROVE  n = o /\ e = f /\ i = j
  <2>1. CASE e \in S[n] /\ f \in S[o]
    BY <1>2, <2>1 DEF Accounted
  <2>2. CASE e \in S[n] /\ o = m /\ f = x
    <3>1. e.ref[i] \in H
      BY <2>2 DEF Accounted
    <3>. QED
      BY <1>2, <2>2, <3>1
  <2>3. CASE f \in S[o] /\ n = m /\ e = x
    <3>1. f.ref[j] \in H
      BY <2>3 DEF Accounted
    <3>. QED
      BY <1>2, <2>3, <3>1
  <2>4. CASE n = m /\ e = x /\ o = m /\ f = x
    BY <1>2, <2>4
  <2>. QED
    BY <1>1, <2>1, <2>2, <2>3, <2>4
<1>3. ASSUME NEW b \in H \cup Range(x.ref)
      PROVE  \E n \in Map : \E e \in T[n] : \E i \in DOMAIN e.ref : b = e.ref[i]
  <2>1. CASE b \in H
    <3>1. PICK n, e, i :
           n \in Map /\ e \in S[n] /\ i \in DOMAIN e.ref /\ b = e.ref[i]
      BY <2>1 DEF Accounted
    <3>2. e \in T[n]
      BY <1>0, <3>1
    <3>. QED
      BY <3>1, <3>2
  <2>2. CASE b \in Range(x.ref)
    <3>1. x \in T[m] /\ \E i \in DOMAIN x.ref : b = x.ref[i]
      BY <1>0, <2>2 DEF Range
    <3>. QED
      BY <3>1
  <2>. QED
    BY <2>1, <2>2
<1>4. ASSUME NEW n \in Map, NEW e \in T[n], NEW i \in DOMAIN e.ref
      PROVE  e.ref[i] \in H \cup Range(x.ref)
  <2>1. CASE e \in S[n]
    BY <2>1 DEF Accounted
  <2>2. CASE e = x
    BY <2>2 DEF Range
  <2>. QED
    BY <1>1, <2>1, <2>2
<1>. QED
  BY <1>2, <1>3, <1>4 DEF Accounted, T

Parts == [m \in Map |-> Settled(m)]

\* One owner for every block and no block without: the accounts are right.
LEMMA AccountedIs ==
  Accounted(Parts, DOMAIN heap) <=> OneOwner /\ NoLeak
<1>1. \A m \in Map : Parts[m] = Settled(m)
  BY DEF Parts
<1>2. ASSUME Accounted(Parts, DOMAIN heap)
      PROVE  OneOwner /\ NoLeak
  <2>1. OneOwner
    BY <1>1, <1>2 DEF OneOwner, Accounted
  <2>2. ASSUME NEW b \in DOMAIN heap
        PROVE  b \in UNION {Range(e.ref) : e \in UNION {Settled(m) : m \in Map}}
    <3>1. PICK m, e, i :
           m \in Map /\ e \in Settled(m) /\ i \in DOMAIN e.ref /\ b = e.ref[i]
      BY <1>1, <1>2 DEF Accounted
    <3>2. b \in Range(e.ref) /\ e \in UNION {Settled(n) : n \in Map}
      BY <3>1 DEF Range
    <3>. QED
      BY <3>2
  <2>3. ASSUME NEW e \in UNION {Settled(m) : m \in Map}, NEW b \in Range(e.ref)
        PROVE  b \in DOMAIN heap
    <3>1. PICK m \in Map : e \in Settled(m)
      OBVIOUS
    <3>2. PICK i \in DOMAIN e.ref : b = e.ref[i]
      BY DEF Range
    <3>. QED
      BY <1>1, <1>2, <3>1, <3>2 DEF Accounted
  <2>4. NoLeak
    BY <2>2, <2>3 DEF NoLeak
  <2>. QED
    BY <2>1, <2>4
<1>3. ASSUME OneOwner, NoLeak
      PROVE  Accounted(Parts, DOMAIN heap)
  <2>1. ASSUME NEW b \in DOMAIN heap
        PROVE  \E m \in Map : \E e \in Parts[m] : \E i \in DOMAIN e.ref : b = e.ref[i]
    <3>1. PICK e \in UNION {Settled(m) : m \in Map} : b \in Range(e.ref)
      BY <1>3 DEF NoLeak
    <3>2. PICK m \in Map : e \in Settled(m)
      OBVIOUS
    <3>. QED
      BY <1>1, <3>1, <3>2 DEF Range
  <2>2. ASSUME NEW m \in Map, NEW e \in Parts[m], NEW i \in DOMAIN e.ref
        PROVE  e.ref[i] \in DOMAIN heap
    BY <1>1, <1>3 DEF OneOwner
  <2>3. ASSUME NEW m \in Map, NEW n \in Map, NEW e \in Parts[m], NEW f \in Parts[n],
               NEW i \in DOMAIN e.ref, NEW j \in DOMAIN f.ref, e.ref[i] = f.ref[j]
        PROVE  m = n /\ e = f /\ i = j
    BY <1>1, <1>3, <2>3 DEF OneOwner
  <2>. QED
    BY <2>1, <2>2, <2>3 DEF Accounted
<1>. QED
  BY <1>2, <1>3

\* The same, of the state a step leads to.
LEMMA AccountedNext ==
  Accounted(Parts', DOMAIN heap') <=> (OneOwner /\ NoLeak)'
<1>1. (Accounted(Parts, DOMAIN heap) <=> OneOwner /\ NoLeak)'
  BY AccountedIs, PTL
<1>. QED
  BY <1>1

----------------------------------------------------------------------------
(* Elements.                                                               *)

\* The references of an element are a sequence of at most two.
LEMMA ElemRefs ==
  ASSUME NEW e, Elem(e)
  PROVE  /\ e.ref \in Seq(Block) /\ Len(e.ref) \in 0 .. 2
         /\ DOMAIN e.ref = 1 .. Len(e.ref)
<1>1. e.ref \in Seq(Block) /\ DOMAIN e.ref = 1 .. Len(e.ref)
  BY LenProperties DEF Elem
<1>2. Len(e.ref) = 0 \/ Len(e.ref) = 1 \/ Len(e.ref) = 2
  BY DEF Elem, Form
<1>. QED
  BY <1>1, <1>2

\* The form of an element says what it holds, and what it refers to.
LEMMA FormIs ==
  ASSUME type \in Type, NEW k, NEW v
  PROVE  /\ FormOf(k, v) \in Form
         /\ FormOf(k, v) \in {"D", "I"} <=> ~type.two
         /\ Len(Inside(k, v)) = CASE FormOf(k, v) \in {"D", "DI", "ID"} -> 1
                                  [] FormOf(k, v) = "DD" -> 2 [] OTHER -> 0
         /\ Len(Outside(k, v)) = CASE FormOf(k, v) \in {"I", "DI", "ID"} -> 1
                                   [] FormOf(k, v) = "II" -> 2 [] OTHER -> 0
<1>1. type.two \in BOOLEAN
  BY StrMapAssumption
<1>2. CASE type.two
  <2>1. FormOf(k, v) \in {"DD", "DI", "ID", "II"}
    BY <1>2 DEF FormOf
  <2>. QED
    BY <1>2, <2>1 DEF Form, Inside, Outside
<1>3. CASE ~type.two
  <2>1. FormOf(k, v) \in {"D", "I"}
    BY <1>3 DEF FormOf
  <2>. QED
    BY <1>3, <2>1 DEF Form, Inside, Outside
<1>. QED
  BY <1>1, <1>2, <1>3

\* sso_set0 writes a whole element.
LEMMA WrittenElem ==
  ASSUME type \in Type, HasRoom, NEW k, NEW v, NEW spare, Owned(spare)
  PROVE  Elem(sso_set0(k, v, spare))
<1>. DEFINE x == sso_set0(k, v, spare)
<1>1. /\ x = [t |-> x.t, in |-> x.in, ref |-> x.ref]
      /\ x.t = FormOf(k, v) /\ x.in = Inside(k, v) /\ x.ref = RefsFor(k, v, spare)
  BY DEF sso_set0
<1>2. x.ref \in Seq(Block) /\ Len(x.ref) = Len(Outside(k, v))
  BY <1>1, RefsFresh DEF Fresh
<1>. HIDE DEF x
<1>3. Elem(x)
  BY <1>1, <1>2, FormIs DEF Elem
<1>. QED
  BY <1>3 DEF x

\* The blocks of an element that is settled can be handed over.
LEMMA OwnedRefs ==
  ASSUME OwnInv, NEW m \in Map, NEW e \in Settled(m), Elem(e)
  PROVE  Owned(e.ref)
<1>1. e.ref \in Seq(Block) /\ Len(e.ref) \in 0 .. 2 /\ DOMAIN e.ref = 1 .. Len(e.ref)
  BY ElemRefs
<1>2. /\ \A i \in DOMAIN e.ref : e.ref[i] \in DOMAIN heap
      /\ \A i, j \in DOMAIN e.ref : e.ref[i] = e.ref[j] => i = j
  BY DEF OwnInv, OneOwner
<1>. QED
  BY <1>1, <1>2 DEF Owned, Range

\* An element may hand over nothing.
LEMMA NothingOwned == Owned(<< >>) /\ Range(<< >>) = {}
<1>1. << >> \in Seq(Block) /\ Len(<< >>) = 0 /\ DOMAIN << >> = {}
  BY EmptySeq
<1>. QED
  BY <1>1 DEF Owned, Range

\* Without a copy under way, all elements are settled.
LEMMA SettledIdle ==
  ASSUME Idle, NEW m
  PROVE  Settled(m) = elems[m]
BY DEF Idle, Settled, NoCopy

\* The same, of the state a step leads to.
LEMMA SettledIdleNext ==
  ASSUME copy' = NoCopy, NEW m
  PROVE  Settled(m)' = elems'[m]
BY DEF Settled, NoCopy

\* Parts, map by map.
LEMMA PartsAre ==
  ASSUME NEW m \in Map
  PROVE  Parts[m] = Settled(m) /\ Parts'[m] = Settled(m)'
BY DEF Parts

----------------------------------------------------------------------------
(* The actions.                                                            *)

\* No other element refers to the blocks an element gets.
LEMMA RefsOutside ==
  ASSUME HasRoom, NEW k, NEW v, NEW spare, Owned(spare),
         NEW ref, ref = RefsFor(k, v, spare)
  PROVE  /\ DOMAIN ref = 1 .. Len(ref) /\ Range(ref) \subseteq Block
         /\ \A i \in DOMAIN ref : ref[i] \notin DOMAIN heap \ Range(spare)
         /\ \A i, j \in DOMAIN ref : ref[i] = ref[j] => i = j
         /\ DOMAIN HeapAfter(k, v, spare) = (DOMAIN heap \ Range(spare)) \cup Range(ref)
<1>1. Fresh(ref, Len(Outside(k, v)), spare)
  BY RefsFresh
<1>2. DOMAIN ref = 1 .. Len(ref) /\ Len(ref) = Len(Outside(k, v))
      /\ \A i \in DOMAIN ref : ref[i] \in Block
  BY <1>1, LenProperties, ElementOfSeq DEF Fresh
<1>3. \A i \in DOMAIN ref : ref[i] \notin DOMAIN heap \ Range(spare)
  BY <1>1, <1>2 DEF Fresh, Unused
<1>4. DOMAIN HeapAfter(k, v, spare) = (DOMAIN heap \ Range(spare)) \cup Range(ref)
  BY DEF HeapAfter
<1>. QED
  BY <1>1, <1>2, <1>3, <1>4 DEF Fresh, Range

\* An element is written, in the place of D or of none.
LEMMA RewriteOwn ==
  ASSUME OwnInv, Idle, HasRoom, UNCHANGED <<type, copy>>,
         NEW m \in Map, NEW D, D \subseteq elems[m],
         NEW spare, Owned(spare), Range(spare) = Blocks(D), NEW k, NEW v,
         DOMAIN elems' = Map,
         \A n \in Map : elems'[n] = IF n = m THEN (elems[n] \ D) \cup {sso_set0(k, v, spare)}
                                    ELSE elems[n],
         heap' = HeapAfter(k, v, spare)
  PROVE  OwnInv'
<1>. DEFINE x == sso_set0(k, v, spare)
            ref == RefsFor(k, v, spare)
            H == DOMAIN heap \ Blocks(D)
            T == Without(Parts, m, D)
<1>1. x.ref = ref
  BY DEF sso_set0
<1>2. type' \in Type /\ Elem(x)
  BY WrittenElem DEF OwnInv
<1>3. /\ Range(ref) \subseteq Block
      /\ \A i \in DOMAIN ref : ref[i] \notin H
      /\ \A i, j \in DOMAIN ref : ref[i] = ref[j] => i = j
      /\ DOMAIN heap' = H \cup Range(ref)
  BY RefsOutside
<1>. HIDE DEF x, ref
<1>4. \A n \in Map : \A e \in elems'[n] : Elem(e)'
  <2>1. \A e : Elem(e) => Elem(e)'
    BY DEF Elem
  <2>. QED
    BY <1>2, <2>1 DEF OwnInv, x
<1>5. DOMAIN heap' \subseteq Block
  BY <1>3 DEF OwnInv
<1>6. copy' = NoCopy /\ CopyOK'
  BY DEF Idle, CopyOK
<1>7. Accounted(Parts, DOMAIN heap)
  BY AccountedIs DEF OwnInv
<1>8. Accounted(T, H)
  <2>1. D \subseteq Parts[m]
    BY SettledIdle, PartsAre
  <2>. QED
    BY <1>7, <2>1, Leaves
<1>9. Accounted(Parts', DOMAIN heap')
  <2>1. Parts' = With(T, m, x)
    <3>1. \A n \in Map : Parts'[n] = IF n = m THEN (Parts[n] \ D) \cup {x} ELSE Parts[n]
      BY <1>6, SettledIdle, SettledIdleNext, PartsAre DEF x
    <3>. QED
      BY <3>1 DEF With, Without, Parts
  <2>2. Accounted(With(T, m, x), H \cup Range(x.ref))
    BY <1>1, <1>3, <1>8, Enters
  <2>. QED
    BY <1>1, <1>3, <2>1, <2>2
<1>10. (OneOwner /\ NoLeak)'
  BY <1>9, AccountedNext
<1>. QED
  BY <1>2, <1>4, <1>5, <1>6, <1>10 DEF OwnInv

\* rw_add and shmcb_set on a key that is not there.
LEMMA InsertNewOwn ==
  ASSUME OwnInv, NEW m \in Map, NEW k, NEW v, InsertNew(m, k, v)
  PROVE  OwnInv'
<1>1. /\ Idle /\ HasRoom /\ UNCHANGED <<type, copy>>
      /\ heap' = HeapAfter(k, v, << >>)
      /\ elems' = [elems EXCEPT ![m] = @ \cup {sso_set0(k, v, << >>)}]
  BY DEF InsertNew
<1>2. DOMAIN elems' = Map
  BY <1>1 DEF OwnInv
<1>3. \A n \in Map : elems'[n] = IF n = m THEN (elems[n] \ {}) \cup {sso_set0(k, v, << >>)}
                                 ELSE elems[n]
  BY <1>1 DEF OwnInv
<1>4. Range(<< >>) = Blocks({}) /\ Owned(<< >>)
  BY NothingOwned DEF Blocks
<1>. QED
  BY <1>1, <1>2, <1>3, <1>4, RewriteOwn

\* ... and on one that is.
LEMMA InsertExistingOwn ==
  ASSUME OwnInv, NEW m \in Map, NEW k, NEW v, Settable(m, k), InsertExisting(m, k, v)
  PROVE  OwnInv'
<1>1. Idle /\ HasRoom /\ UNCHANGED <<type, copy>>
  BY DEF InsertExisting
<1>2. PICK e \in Found(m, k) :
        /\ elems' = [elems EXCEPT ![m] = (@ \ {e}) \cup {sso_set0(k, v, Spare(e))}]
        /\ heap' = HeapAfter(k, v, Spare(e))
  BY DEF InsertExisting
<1>3. e \in elems[m] /\ Spare(e) = e.ref
  BY DEF Found, Settable, Spare
<1>4. Owned(e.ref)
  <2>1. e \in Settled(m) /\ Elem(e)
    BY <1>1, <1>3, SettledIdle DEF OwnInv
  <2>. QED
    BY <2>1, OwnedRefs
<1>5. Range(e.ref) = Blocks({e})
  BY DEF Blocks
<1>6. DOMAIN elems' = Map
  BY <1>2 DEF OwnInv
<1>7. \A n \in Map : elems'[n] = IF n = m THEN (elems[n] \ {e}) \cup {sso_set0(k, v, e.ref)}
                                 ELSE elems[n]
  BY <1>2, <1>3 DEF OwnInv
<1>. QED
  BY <1>1, <1>2, <1>3, <1>4, <1>5, <1>6, <1>7, RewriteOwn

\* Without ID elements, all blocks of the elements deleted are released.
LEMMA ReleasedAll ==
  ASSUME NEW D, Releasable(D)
  PROVE  UNION {Released(e) : e \in D} = Blocks(D)
BY DEF Releasable, Released, Blocks

\* Elements that are taken out, and what that leaves on the heap.
LEMMA RemoveOwn ==
  ASSUME OwnInv, Idle, UNCHANGED <<type, copy>>,
         NEW m \in Map, NEW D, D \subseteq elems[m],
         DOMAIN elems' = Map,
         \A n \in Map : elems'[n] = IF n = m THEN elems[n] \ D ELSE elems[n],
         DOMAIN heap' = DOMAIN heap \ Blocks(D)
  PROVE  OwnInv'
<1>1. \A n \in Map : \A e \in elems'[n] : Elem(e)'
  <2>1. \A e : Elem(e) => Elem(e)'
    BY DEF Elem
  <2>. QED
    BY <2>1 DEF OwnInv
<1>2. copy' = NoCopy /\ CopyOK'
  BY DEF Idle, CopyOK
<1>3. Accounted(Parts, DOMAIN heap)
  BY AccountedIs DEF OwnInv
<1>4. D \subseteq Parts[m]
  BY SettledIdle, PartsAre
<1>5. Accounted(Without(Parts, m, D), DOMAIN heap \ Blocks(D))
  BY <1>3, <1>4, Leaves
<1>6. Parts' = Without(Parts, m, D)
  <2>1. \A n \in Map : Parts'[n] = IF n = m THEN Parts[n] \ D ELSE Parts[n]
    BY <1>2, SettledIdle, SettledIdleNext, PartsAre
  <2>. QED
    BY <2>1 DEF Without, Parts
<1>7. (OneOwner /\ NoLeak)'
  BY <1>5, <1>6, AccountedNext
<1>. QED
  BY <1>1, <1>2, <1>7 DEF OwnInv

\* Deleting an element releases what it alone referred to.
LEMMA DeleteOwn ==
  ASSUME OwnInv, NEW m \in Map, NEW k, Releasable(Found(m, k)), Delete(m, k)
  PROVE  OwnInv'
<1>1. PICK e \in Found(m, k) :
        /\ elems' = [elems EXCEPT ![m] = @ \ {e}]
        /\ heap' = Restrict(heap, DOMAIN heap \ Released(e))
  BY DEF Delete
<1>2. Idle /\ UNCHANGED <<type, copy>> /\ {e} \subseteq elems[m]
  BY DEF Delete, Found
<1>3. Released(e) = Blocks({e})
  BY DEF Releasable, Released, Blocks
<1>4. DOMAIN heap' = DOMAIN heap \ Blocks({e})
  BY <1>1, <1>3 DEF Restrict
<1>5. DOMAIN elems' = Map
      /\ \A n \in Map : elems'[n] = IF n = m THEN elems[n] \ {e} ELSE elems[n]
  BY <1>1 DEF OwnInv
<1>. QED
  BY <1>2, <1>4, <1>5, RemoveOwn

\* Emptying a map releases what its elements referred to.
LEMMA EmptiedOwn ==
  ASSUME OwnInv, NEW m \in Map, Releasable(elems[m]), Emptied(m)
  PROVE  OwnInv'
<1>1. Idle /\ UNCHANGED <<type, copy>> /\ elems[m] \subseteq elems[m]
  BY DEF Emptied
<1>2. DOMAIN heap' = DOMAIN heap \ Blocks(elems[m])
  BY ReleasedAll DEF Emptied, Restrict, ReleasedBy
<1>3. DOMAIN elems' = Map
      /\ \A n \in Map : elems'[n] = IF n = m THEN elems[n] \ elems[m] ELSE elems[n]
  BY DEF Emptied, OwnInv
<1>. QED
  BY <1>1, <1>2, <1>3, RemoveOwn

\* What a copy starts from refers to blocks of the source, and owns none.
LEMMA StartCopyOwn ==
  ASSUME OwnInv, NEW to \in Map, NEW from \in Map, Releasable(elems[to]),
         StartCopy(to, from)
  PROVE  OwnInv'
<1>1. /\ Idle /\ to # from /\ UNCHANGED type
      /\ elems' = [elems EXCEPT ![to] = elems[from]]
      /\ heap' = Restrict(heap, DOMAIN heap \ ReleasedBy(to))
      /\ copy' = IF elems[from] = {} THEN NoCopy
                 ELSE [to |-> to, from |-> from, todo |-> elems[from]]
  BY DEF StartCopy
<1>2. DOMAIN elems' = Map
      /\ \A n \in Map : elems'[n] = IF n = to THEN elems[from] ELSE elems[n]
  BY <1>1 DEF OwnInv
<1>3. DOMAIN heap' = DOMAIN heap \ Blocks(elems[to])
  BY <1>1, ReleasedAll DEF Restrict, ReleasedBy
<1>4. \A n \in Map : \A e \in elems'[n] : Elem(e)'
  <2>1. \A e : Elem(e) => Elem(e)'
    BY <1>1 DEF Elem
  <2>. QED
    BY <1>2, <2>1 DEF OwnInv
<1>5. CopyOK'
  <2>1. CASE elems[from] = {}
    BY <1>1, <2>1 DEF CopyOK
  <2>2. CASE elems[from] # {}
    <3>1. copy' = [to |-> to, from |-> from, todo |-> elems[from]]
      BY <1>1, <2>2
    <3>2. copy'.to = to /\ copy'.from = from /\ copy'.todo = elems[from]
      BY <3>1
    <3>3. elems'[to] = elems[from] /\ elems'[from] = elems[from]
      BY <1>1, <1>2
    <3>. QED
      BY <1>1, <2>2, <3>1, <3>2, <3>3 DEF CopyOK
  <2>. QED
    BY <2>1, <2>2
<1>6. Accounted(Parts, DOMAIN heap)
  BY AccountedIs DEF OwnInv
<1>7. Accounted(Without(Parts, to, elems[to]), DOMAIN heap \ Blocks(elems[to]))
  <2>1. elems[to] \subseteq Parts[to]
    BY <1>1, SettledIdle, PartsAre
  <2>. QED
    BY <1>6, <2>1, Leaves
<1>8. Parts' = Without(Parts, to, elems[to])
  <2>1. \A n \in Map : Settled(n)' = IF n = to THEN {} ELSE elems[n]
    <3>1. CASE elems[from] = {}
      <4>1. copy' = NoCopy
        BY <1>1, <3>1
      <4>. QED
        BY <1>2, <3>1, <4>1, SettledIdleNext
    <3>2. CASE elems[from] # {}
      <4>1. copy'.to = to /\ copy'.todo = elems[from]
        BY <1>1, <3>2
      <4>. QED
        BY <1>2, <4>1 DEF Settled
    <3>. QED
      BY <3>1, <3>2
  <2>2. \A n \in Map : Parts'[n] = IF n = to THEN Parts[n] \ elems[to] ELSE Parts[n]
    BY <1>1, <2>1, SettledIdle, PartsAre
  <2>. QED
    BY <2>2 DEF Without, Parts
<1>9. (OneOwner /\ NoLeak)'
  BY <1>3, <1>7, <1>8, AccountedNext
<1>. QED
  BY <1>1, <1>2, <1>3, <1>4, <1>5, <1>9 DEF OwnInv

\* An element with references nothing else has, and the blocks in use with it.
Arrives(x, H) ==
  /\ Elem(x)
  /\ DOMAIN x.ref = 1 .. Len(x.ref) /\ Range(x.ref) \subseteq Block
  /\ \A i \in DOMAIN x.ref : x.ref[i] \notin DOMAIN heap
  /\ \A i, j \in DOMAIN x.ref : x.ref[i] = x.ref[j] => i = j
  /\ H = DOMAIN heap \cup Range(x.ref)

\* sso_dupa gives an element blocks of its own.
LEMMA Duplicated ==
  ASSUME HasRoom, NEW e, Elem(e)
  PROVE  Arrives(sso_dupa(e), DOMAIN HeapDuplicated(e))
<1>. DEFINE none == << >>
            x == sso_dupa(e)
<1>0. Range(none) = {}
  BY NothingOwned
<1>1. /\ x.t = e.t /\ x.in = e.in /\ x.ref = SubSeq(<<New1, New2>>, 1, Len(e.ref))
      /\ x = [t |-> x.t, in |-> x.in, ref |-> x.ref]
  BY DEF sso_dupa, Elem
<1>. HIDE DEF none
<1>2. Fresh(SubSeq(<<New1, New2>>, 1, Len(e.ref)), Len(e.ref), none)
  BY TwoNew, ElemRefs
<1>3. DOMAIN HeapDuplicated(e) = DOMAIN heap \cup Range(x.ref)
  BY <1>1 DEF HeapDuplicated
<1>. HIDE DEF x
<1>4. Fresh(x.ref, Len(e.ref), none)
  BY <1>1, <1>2
<1>5. Elem(x)
  BY <1>1, <1>4 DEF Fresh, Elem
<1>6. DOMAIN x.ref = 1 .. Len(x.ref) /\ Len(x.ref) = Len(e.ref)
  BY <1>4, LenProperties DEF Fresh
<1>7. \A i \in DOMAIN x.ref : x.ref[i] \in Block /\ x.ref[i] \notin DOMAIN heap
  BY <1>0, <1>4, <1>6 DEF Fresh, Unused
<1>8. \A i, j \in DOMAIN x.ref : x.ref[i] = x.ref[j] => i = j
  BY <1>4, <1>6 DEF Fresh
<1>9. Range(x.ref) \subseteq Block
  BY <1>7 DEF Range
<1>10. Arrives(x, DOMAIN HeapDuplicated(e))
  BY <1>3, <1>5, <1>6, <1>7, <1>8, <1>9 DEF Arrives
<1>. QED
  BY <1>10 DEF x

\* A tree's copy stores the strings of the source again.
LEMMA StoredAnew ==
  ASSUME type \in Type, HasRoom, NEW k, NEW v, NEW none, Owned(none), Range(none) = {}
  PROVE  Arrives(sso_set0(k, v, none), DOMAIN HeapAfter(k, v, none))
<1>. DEFINE x == sso_set0(k, v, none)
            ref == RefsFor(k, v, none)
<1>1. x.ref = ref
  BY DEF sso_set0
<1>2. Elem(x)
  BY WrittenElem
<1>3. /\ DOMAIN ref = 1 .. Len(ref) /\ Range(ref) \subseteq Block
      /\ \A i \in DOMAIN ref : ref[i] \notin DOMAIN heap \ Range(none)
      /\ \A i, j \in DOMAIN ref : ref[i] = ref[j] => i = j
      /\ DOMAIN HeapAfter(k, v, none) = (DOMAIN heap \ Range(none)) \cup Range(ref)
  BY RefsOutside
<1>. HIDE DEF x, ref
<1>4. Arrives(x, DOMAIN HeapAfter(k, v, none))
  BY <1>1, <1>2, <1>3 DEF Arrives
<1>. QED
  BY <1>4 DEF x

\* An element of a copy is adapted: it leaves what the source refers to.
LEMMA CopyElementOwn ==
  ASSUME OwnInv, CopyElement
  PROVE  OwnInv'
<1>. DEFINE e == CHOOSE y \in copy.todo : TRUE
            k == sso_get(e)
            v == sso_get_s2(e)
            x == IF type.hash THEN sso_dupa(e) ELSE sso_set0(k, v, << >>)
            to == copy.to
<1>1. /\ ~Idle /\ HasRoom /\ UNCHANGED type
      /\ elems' = [elems EXCEPT ![to] = (@ \ {e}) \cup {x}]
      /\ heap' = IF type.hash THEN HeapDuplicated(e) ELSE HeapAfter(k, v, << >>)
      /\ copy' = IF copy.todo = {e} THEN NoCopy
                 ELSE [copy EXCEPT !.todo = @ \ {e}]
  BY DEF CopyElement
<1>2. /\ copy = [to |-> copy.to, from |-> copy.from, todo |-> copy.todo]
      /\ copy.to \in Map /\ copy.from \in Map /\ copy.to # copy.from
      /\ copy.todo # {}
      /\ copy.todo \subseteq elems[copy.to] /\ copy.todo \subseteq elems[copy.from]
  BY <1>1 DEF OwnInv, CopyOK, Idle
<1>3. e \in copy.todo
  BY <1>2
<1>4. Elem(e)
  BY <1>2, <1>3 DEF OwnInv
<1>5. Arrives(x, DOMAIN heap')
  <2>. DEFINE none == << >>
  <2>0. Owned(none) /\ Range(none) = {}
    BY NothingOwned
  <2>1. CASE type.hash
    <3>1. Arrives(sso_dupa(e), DOMAIN HeapDuplicated(e))
      BY <1>1, <1>4, Duplicated
    <3>. HIDE DEF e, k, v
    <3>2. x = sso_dupa(e) /\ heap' = HeapDuplicated(e)
      BY <1>1, <2>1
    <3>. QED
      BY <3>1, <3>2
  <2>2. CASE ~type.hash
    <3>. HIDE DEF none, e, k, v
    <3>1. Arrives(sso_set0(k, v, none), DOMAIN HeapAfter(k, v, none))
      BY <1>1, <2>0, StoredAnew DEF OwnInv
    <3>2. x = sso_set0(k, v, none) /\ heap' = HeapAfter(k, v, none)
      BY <1>1, <2>2 DEF none
    <3>. QED
      BY <3>1, <3>2
  <2>. QED
    BY <2>1, <2>2
<1>. HIDE DEF e, k, v, x
<1>51. /\ Elem(x)
       /\ DOMAIN x.ref = 1 .. Len(x.ref) /\ Range(x.ref) \subseteq Block
       /\ \A i \in DOMAIN x.ref : x.ref[i] \notin DOMAIN heap
       /\ \A i, j \in DOMAIN x.ref : x.ref[i] = x.ref[j] => i = j
       /\ DOMAIN heap' = DOMAIN heap \cup Range(x.ref)
  BY <1>5 DEF Arrives
<1>6. DOMAIN elems' = Map
      /\ \A n \in Map : elems'[n] = IF n = to THEN (elems[n] \ {e}) \cup {x} ELSE elems[n]
  BY <1>1, <1>2 DEF OwnInv
<1>7. \A n \in Map : \A y \in elems'[n] : Elem(y)'
  <2>1. \A y : Elem(y) => Elem(y)'
    BY <1>1 DEF Elem
  <2>. QED
    BY <1>51, <1>6, <2>1 DEF OwnInv
<1>8. CopyOK'
  <2>1. CASE copy.todo = {e}
    BY <1>1, <2>1 DEF CopyOK
  <2>2. CASE copy.todo # {e}
    <3>1. copy' = [copy EXCEPT !.todo = @ \ {e}]
      BY <1>1, <2>2
    <3>2. /\ copy'.to = copy.to /\ copy'.from = copy.from
          /\ copy'.todo = copy.todo \ {e}
          /\ copy' = [to |-> copy'.to, from |-> copy'.from, todo |-> copy'.todo]
      BY <1>2, <3>1
    <3>3. copy'.todo # {}
      BY <1>3, <2>2, <3>2
    <3>4. copy'.todo \subseteq elems'[to] /\ copy'.todo \subseteq elems'[copy.from]
      BY <1>2, <1>6, <3>2
    <3>. QED
      BY <1>2, <3>2, <3>3, <3>4 DEF CopyOK
  <2>. QED
    BY <2>1, <2>2
<1>9. Accounted(Parts, DOMAIN heap)
  BY AccountedIs DEF OwnInv
<1>10. Accounted(With(Parts, to, x), DOMAIN heap')
  BY <1>2, <1>51, <1>9, Enters
\* What the elements not adapted yet refer to is the source's.
<1>11. x \in copy.todo => x.ref = << >>
  <2>1. SUFFICES ASSUME x \in copy.todo PROVE x.ref = << >>
    OBVIOUS
  <2>2. x \in Settled(copy.from)
    BY <1>2, <2>1 DEF Settled
  <2>3. \A i \in DOMAIN x.ref : x.ref[i] \in DOMAIN heap
    BY <1>2, <2>2 DEF OwnInv, OneOwner
  <2>4. DOMAIN x.ref = {}
    BY <1>51, <2>3
  <2>5. x.ref \in Seq(Block) /\ Len(x.ref) = 0
    BY <1>51, <2>4, ElemRefs
  <2>. QED
    BY <2>5, EmptySeq
<1>12. \A n \in Map : Settled(n)' =
          IF n = to THEN Settled(n) \cup ({x} \ (copy.todo \ {e})) ELSE Settled(n)
  <2>1. \A n \in Map : Settled(n)' =
          IF n = to THEN elems'[n] \ (copy.todo \ {e}) ELSE elems'[n]
    <3>1. CASE copy.todo = {e}
      <4>1. copy' = NoCopy
        BY <1>1, <3>1
      <4>. QED
        BY <3>1, <4>1, SettledIdleNext
    <3>2. CASE copy.todo # {e}
      <4>1. copy'.to = to /\ copy'.todo = copy.todo \ {e}
        BY <1>1, <1>2, <3>2
      <4>. QED
        BY <4>1 DEF Settled
    <3>. QED
      BY <3>1, <3>2
  <2>2. Settled(to) = elems[to] \ copy.todo
        /\ \A n \in Map : n # to => Settled(n) = elems[n]
    BY DEF Settled
  <2>3. ASSUME NEW n \in Map, n = to
        PROVE  elems'[n] \ (copy.todo \ {e}) = Settled(n) \cup ({x} \ (copy.todo \ {e}))
    <3>1. elems'[n] = (elems[n] \ {e}) \cup {x}
      BY <1>6, <2>3
    <3>. QED
      BY <1>3, <2>2, <2>3, <3>1
  <2>. QED
    BY <1>6, <2>1, <2>2, <2>3
<1>13. CASE x \notin copy.todo \ {e}
  <2>1. Parts' = With(Parts, to, x)
    <3>1. \A n \in Map : Parts'[n] = IF n = to THEN Parts[n] \cup {x} ELSE Parts[n]
      BY <1>12, <1>13, PartsAre
    <3>. QED
      BY <3>1 DEF With, Parts
  <2>2. (OneOwner /\ NoLeak)'
    BY <1>10, <2>1, AccountedNext
  <2>. QED
    BY <1>1, <1>51, <1>6, <1>7, <1>8, <2>2 DEF OwnInv
<1>14. CASE x \in copy.todo \ {e}
  <2>1. Parts' = Parts
    <3>1. \A n \in Map : Parts'[n] = Parts[n]
      BY <1>12, <1>14, PartsAre
    <3>. QED
      BY <3>1 DEF Parts
  <2>2. DOMAIN heap' = DOMAIN heap
    BY <1>51, <1>11, <1>14, NothingOwned
  <2>3. (OneOwner /\ NoLeak)'
    BY <1>9, <2>1, <2>2, AccountedNext
  <2>. QED
    BY <1>1, <1>51, <1>6, <1>7, <1>8, <2>3 DEF OwnInv
<1>. QED
  BY <1>13, <1>14

\* Empty maps refer to nothing.
LEMMA InitOwn == Init => OwnInv
<1>. SUFFICES ASSUME Init PROVE OwnInv
  OBVIOUS
<1>1. \A m \in Map : elems[m] = {} /\ Settled(m) = {}
  BY DEF Init, Settled
<1>2. DOMAIN heap = {}
  BY EmptySeq DEF Init
<1>3. OneOwner /\ NoLeak
  BY <1>1, <1>2 DEF OneOwner, NoLeak
<1>. QED
  BY <1>1, <1>2, <1>3 DEF Init, OwnInv, CopyOK

\* Every step keeps the accounts.
LEMMA NextOwn ==
  ASSUME OwnInv, [CoreNext]_vars
  PROVE  OwnInv'
<1>1. ASSUME NEW m \in Map, NEW k, NEW v,
             InsertNew(m, k, v) \/ (Settable(m, k) /\ InsertExisting(m, k, v))
      PROVE  OwnInv'
  BY <1>1, InsertNewOwn, InsertExistingOwn
<1>2. ASSUME NEW m \in Map, NEW p \in Pair, Releasable(Found(m, p[1])), Delete(m, p[1])
      PROVE  OwnInv'
  BY <1>2, DeleteOwn
<1>3. ASSUME NEW m \in Map, Releasable(elems[m]), Emptied(m)
      PROVE  OwnInv'
  BY <1>3, EmptiedOwn
<1>4. ASSUME NEW to \in Map, NEW from \in Map, Releasable(elems[to]), StartCopy(to, from)
      PROVE  OwnInv'
  BY <1>4, StartCopyOwn
<1>5. CASE CopyElement
  BY <1>5, CopyElementOwn
<1>6. CASE UNCHANGED <<type, elems, heap, copy>>
  BY <1>6 DEF OwnInv, Elem, CopyOK, OneOwner, NoLeak, Settled
<1>. QED
  BY <1>1, <1>2, <1>3, <1>4, <1>5, <1>6 DEF CoreNext, Alloc, Clear, Free, vars

\* Null handles have no elements.
AliveOK == alive \subseteq Map /\ \A m \in Map \ alive : elems[m] = {}

LEMMA NextAlive ==
  ASSUME OwnInv, AliveOK, [CoreNext]_vars
  PROVE  AliveOK'
<1>1. ASSUME NEW m \in Map, NEW k, NEW v, InsertNew(m, k, v) \/ InsertExisting(m, k, v)
      PROVE  AliveOK'
  <2>1. m \in alive /\ alive' = alive
    BY <1>1 DEF InsertNew, InsertExisting, Found, AliveOK
  <2>2. \A n \in Map \ {m} : elems'[n] = elems[n]
    BY <1>1 DEF InsertNew, InsertExisting, OwnInv
  <2>. QED
    BY <2>1, <2>2 DEF AliveOK
<1>2. ASSUME NEW m \in Map, NEW k, Delete(m, k)
      PROVE  AliveOK'
  BY <1>2 DEF Delete, Found, AliveOK, OwnInv
<1>3. ASSUME NEW m \in Map, Clear(m) \/ Free(m)
      PROVE  AliveOK'
  BY <1>3 DEF Clear, Free, Emptied, AliveOK, OwnInv
<1>4. ASSUME NEW to \in Map, NEW from \in Map, StartCopy(to, from)
      PROVE  AliveOK'
  BY <1>4 DEF StartCopy, AliveOK, OwnInv
<1>5. CASE CopyElement
  <2>1. copy.to \in Map /\ elems[copy.to] # {} /\ alive' = alive
    BY <1>5 DEF CopyElement, OwnInv, CopyOK, Idle
  <2>2. \A n \in Map \ {copy.to} : elems'[n] = elems[n]
    BY <1>5 DEF CopyElement, OwnInv
  <2>. QED
    BY <2>1, <2>2 DEF AliveOK
<1>6. CASE UNCHANGED <<alive, elems>>
  BY <1>6 DEF AliveOK
<1>7. ASSUME NEW m \in Map, Alloc(m)
      PROVE  AliveOK'
  BY <1>7 DEF Alloc, AliveOK
<1>. QED
  BY <1>1, <1>2, <1>3, <1>4, <1>5, <1>6, <1>7 DEF CoreNext, vars

\* The types follow.
LEMMA OwnType == OwnInv /\ AliveOK => TypeOK
BY DEF OwnInv, AliveOK, Elem, TypeOK

----------------------------------------------------------------------------

\* Every element is of a form its map may have, and holds and refers to as many
\* strings as the form says (the tag byte sso_get and sso_free decide by); a null
\* handle has no elements.
THEOREM StrMapTypeOK == CoreSpec => []TypeOK
<1>1. OwnInv /\ AliveOK /\ [CoreNext]_vars => (OwnInv /\ AliveOK)'
  BY NextOwn, NextAlive
<1>2. Init => AliveOK
  BY DEF Init, AliveOK
<1>. QED
  BY InitOwn, <1>1, <1>2, OwnType, PTL DEF CoreSpec

\* Every reference of an element is to a block in use, and no other element, of
\* the same map, another one or a copy, refers to that block: sso_free, sso_update
\* and the clearing or freeing of a map never release a string that can still be
\* read.
THEOREM StrMapOneOwner == CoreSpec => []OneOwner
<1>1. OwnInv /\ [CoreNext]_vars => OwnInv'
  BY NextOwn
<1>2. OwnInv => OneOwner
  BY DEF OwnInv
<1>. QED
  BY InitOwn, <1>1, <1>2, PTL DEF CoreSpec

\* Every block in use is referred to by an element: what sso_update has no use
\* for, and what a deleted element had, or those of a map that was freed or, of
\* a tree, cleared, was released.
THEOREM StrMapNoLeak == CoreSpec => []NoLeak
<1>1. OwnInv /\ [CoreNext]_vars => OwnInv'
  BY NextOwn
<1>2. OwnInv => NoLeak
  BY DEF OwnInv
<1>. QED
  BY InitOwn, <1>1, <1>2, PTL DEF CoreSpec

----------------------------------------------------------------------------
(* What the elements read as.                                              *)

\* The pairs a map holds.
Reads(m) == {<<sso_get(e), sso_get_s2(e)>> : e \in elems[m]}

\* A key and a value that the client stores, and that an element has room for.
Storable(k, v) ==
  /\ Fitting(k, v)
  /\ \E p \in Pair : k = p[1] /\ v = Second(p[2])

UniqueKeys ==
  \A m \in Map : \A e, f \in elems[m] : sso_get(e) = sso_get(f) => e = f

ReadInv ==
  /\ OwnInv
  /\ UniqueKeys
  /\ \A m \in Map : \A e \in elems[m] : Storable(sso_get(e), sso_get_s2(e))

\* A dictionary, given its pairs.
Functional(R) == \A r, s \in R : r[1] = s[1] => r[2] = s[2]
DictOf(R) == [k \in {r[1] : r \in R} |-> (CHOOSE r \in R : r[1] = k)[2]]
Put(d, k, v) == [x \in DOMAIN d \cup {k} |-> IF x = k THEN v ELSE d[x]]
Drop(d, k) == [x \in DOMAIN d \ {k} |-> d[x]]
Removed(R, k) == {r \in R : r[1] # k}

\* A dictionary reads as its pairs say.
LEMMA DictValue ==
  ASSUME NEW R, Functional(R), NEW r \in R
  PROVE  r[1] \in DOMAIN DictOf(R) /\ DictOf(R)[r[1]] = r[2]
<1>1. r[1] \in {s[1] : s \in R}
  OBVIOUS
<1>. DEFINE c == CHOOSE s \in R : s[1] = r[1]
<1>2. c \in R /\ c[1] = r[1]
  OBVIOUS
<1>3. DictOf(R)[r[1]] = c[2]
  BY <1>1 DEF DictOf
<1>. HIDE DEF c
<1>4. c[2] = r[2]
  BY <1>2 DEF Functional
<1>. QED
  BY <1>1, <1>3, <1>4 DEF DictOf

\* Replacing the pair of a key is an insertion, ...
LEMMA DictInsert ==
  ASSUME NEW R, Functional(R), NEW k, NEW v, NEW S, S = Removed(R, k) \cup {<<k, v>>}
  PROVE  DictOf(S) = Put(DictOf(R), k, v)
<1>1. Functional(S)
  BY DEF Functional, Removed
<1>2. DOMAIN DictOf(S) = DOMAIN DictOf(R) \cup {k}
  <2>1. DOMAIN DictOf(S) = {r[1] : r \in S} /\ DOMAIN DictOf(R) = {r[1] : r \in R}
    BY DEF DictOf
  <2>2. ASSUME NEW x \in {r[1] : r \in S}
        PROVE  x \in {r[1] : r \in R} \cup {k}
    BY DEF Removed
  <2>3. ASSUME NEW x \in {r[1] : r \in R} \cup {k}
        PROVE  x \in {r[1] : r \in S}
    <3>1. CASE x = k
      <4>1. <<k, v>> \in S /\ <<k, v>>[1] = x
        BY <3>1
      <4>. QED
        BY <4>1
    <3>2. CASE x # k
      BY <3>2 DEF Removed
    <3>. QED
      BY <3>1, <3>2
  <2>. QED
    BY <2>1, <2>2, <2>3
<1>3. ASSUME NEW x \in DOMAIN DictOf(S)
      PROVE  DictOf(S)[x] = IF x = k THEN v ELSE DictOf(R)[x]
  <2>1. CASE x = k
    <3>1. <<k, v>> \in S /\ <<k, v>>[1] = k /\ <<k, v>>[2] = v
      OBVIOUS
    <3>. QED
      BY <1>1, <2>1, <3>1, DictValue
  <2>2. CASE x # k
    <3>1. PICK r \in S : x = r[1]
      BY DEF DictOf
    <3>2. r \in R
      BY <2>2, <3>1 DEF Removed
    <3>. QED
      BY <1>1, <2>2, <3>1, <3>2, DictValue
  <2>. QED
    BY <2>1, <2>2
<1>4. DictOf(S) = [x \in DOMAIN DictOf(S) |-> DictOf(S)[x]]
  BY DEF DictOf
<1>. HIDE DEF DictOf
<1>. QED
  BY <1>2, <1>3, <1>4 DEF Put

\* ... taking it out a deletion, ...
LEMMA DictDelete ==
  ASSUME NEW R, Functional(R), NEW k
  PROVE  DictOf(Removed(R, k)) = Drop(DictOf(R), k)
<1>. DEFINE S == Removed(R, k)
<1>1. Functional(S) /\ S \subseteq R
  BY DEF Functional, Removed
<1>2. DOMAIN DictOf(S) = DOMAIN DictOf(R) \ {k}
  BY DEF DictOf, Removed
<1>3. ASSUME NEW x \in DOMAIN DictOf(S)
      PROVE  DictOf(S)[x] = DictOf(R)[x]
  <2>1. PICK r \in S : x = r[1]
    BY DEF DictOf
  <2>. QED
    BY <1>1, <2>1, DictValue
<1>4. DictOf(S) = [x \in DOMAIN DictOf(S) |-> DictOf(S)[x]]
  BY DEF DictOf
<1>. HIDE DEF DictOf, S
<1>5. DictOf(S) = Drop(DictOf(R), k)
  BY <1>2, <1>3, <1>4 DEF Drop
<1>. QED
  BY <1>5 DEF S

\* ... and without pairs there is nothing to read.
LEMMA DictEmpty == DictOf({}) = << >>
<1>1. DOMAIN DictOf({}) = {} /\ DictOf({}) = [x \in {} |-> DictOf({})[x]]
  BY DEF DictOf
<1>. QED
  BY <1>1

\* With one element per key, a key has one value.
LEMMA ReadsFunctional ==
  ASSUME UniqueKeys, NEW m \in Map
  PROVE  Functional(Reads(m))
BY DEF UniqueKeys, Functional, Reads

\* A map is the dictionary of the pairs its elements read as.
LEMMA ContentsAre ==
  UniqueKeys => \A m \in Map : Functional(Reads(m)) /\ Contents[m] = DictOf(Reads(m))
<1>. SUFFICES ASSUME UniqueKeys, NEW m \in Map
              PROVE  Functional(Reads(m)) /\ Contents[m] = DictOf(Reads(m))
  OBVIOUS
<1>. DEFINE C == [k \in {sso_get(e) : e \in elems[m]} |->
                    sso_get_s2(CHOOSE e \in elems[m] : sso_get(e) = k)]
<1>1. Contents[m] = C
  BY DEF Contents
<1>2. Functional(Reads(m))
  BY ReadsFunctional
<1>3. DOMAIN DictOf(Reads(m)) = {sso_get(e) : e \in elems[m]}
  <2>1. DOMAIN DictOf(Reads(m)) = {r[1] : r \in Reads(m)}
    BY DEF DictOf
  <2>2. {r[1] : r \in Reads(m)} = {sso_get(e) : e \in elems[m]}
    <3>1. \A r \in Reads(m) : \E e \in elems[m] : r[1] = sso_get(e)
      BY DEF Reads
    <3>2. ASSUME NEW e \in elems[m]
          PROVE  \E r \in Reads(m) : r[1] = sso_get(e)
      <4>1. <<sso_get(e), sso_get_s2(e)>> \in Reads(m)
        BY DEF Reads
      <4>. QED
        BY <4>1
    <3>. QED
      BY <3>1, <3>2
  <2>. QED
    BY <2>1, <2>2
<1>4. ASSUME NEW k \in {sso_get(e) : e \in elems[m]}
      PROVE  C[k] = DictOf(Reads(m))[k]
  <2>1. C[k] = sso_get_s2(CHOOSE e \in elems[m] : sso_get(e) = k)
    OBVIOUS
  <2>2. PICK e \in elems[m] : e = (CHOOSE f \in elems[m] : sso_get(f) = k) /\ sso_get(e) = k
    OBVIOUS
  <2>3. <<sso_get(e), sso_get_s2(e)>> \in Reads(m)
    BY DEF Reads
  <2>. DEFINE r == <<sso_get(e), sso_get_s2(e)>>
  <2>4. r[1] = k /\ r[2] = sso_get_s2(e)
    BY <2>2
  <2>5. r \in Reads(m)
    BY <2>3
  <2>. HIDE DEF r
  <2>6. DictOf(Reads(m))[r[1]] = r[2]
    BY <1>2, <2>5, DictValue
  <2>. QED
    BY <2>1, <2>2, <2>4, <2>6
<1>5. DictOf(Reads(m)) = [k \in DOMAIN DictOf(Reads(m)) |-> DictOf(Reads(m))[k]]
  BY DEF DictOf
<1>6. C = [k \in {sso_get(e) : e \in elems[m]} |-> C[k]]
  OBVIOUS
<1>. HIDE DEF C
<1>7. C = DictOf(Reads(m))
  BY <1>3, <1>4, <1>5, <1>6
<1>. QED
  BY <1>1, <1>2, <1>7

\* The same, of the state a step leads to.
LEMMA ContentsNext ==
  UniqueKeys' => \A m \in Map : Contents'[m] = DictOf(Reads(m)')
<1>1. (UniqueKeys => \A m \in Map : Functional(Reads(m)) /\ Contents[m] = DictOf(Reads(m)))'
  BY ContentsAre, PTL
<1>. QED
  BY <1>1 DEF DictOf

----------------------------------------------------------------------------
(* What a step does to what the elements read as.                          *)

\* The blocks an element refers to are as they were.
SameRefs(e) == \A i \in DOMAIN e.ref : heap'[e.ref[i]] = heap[e.ref[i]]

\* An element whose blocks are as they were reads as it did.
LEMMA ReadKept ==
  ASSUME NEW e, Elem(e), SameRefs(e)
  PROVE  sso_get(e)' = sso_get(e) /\ sso_get_s2(e)' = sso_get_s2(e)
<1>1. DOMAIN e.ref = 1 .. Len(e.ref)
  BY ElemRefs
<1>2. e.t \in {"I", "DI", "ID", "II"} => heap'[e.ref[1]] = heap[e.ref[1]]
  BY <1>1 DEF SameRefs, Elem
<1>3. e.t = "II" => heap'[e.ref[2]] = heap[e.ref[2]]
  BY <1>1 DEF SameRefs, Elem
<1>4. e.t \in Form
  BY DEF Elem
<1>5. sso_get(e)' = sso_get(e)
  BY <1>2, <1>4 DEF sso_get, Form
<1>6. sso_get_s2(e)' = sso_get_s2(e)
  BY <1>2, <1>3, <1>4 DEF sso_get_s2, Form
<1>. QED
  BY <1>5, <1>6

\* Whether a copy is under way or not, elements refer to blocks in use.
LEMMA RefsInUse ==
  ASSUME OwnInv, NEW m \in Map, NEW e \in elems[m], NEW i \in DOMAIN e.ref
  PROVE  e.ref[i] \in DOMAIN heap
<1>1. CASE e \in Settled(m)
  BY <1>1 DEF OwnInv, OneOwner
<1>2. CASE e \notin Settled(m)
  <2>1. copy # NoCopy
    BY <1>2, SettledIdle DEF Idle
  <2>2. e \in copy.todo
    BY <1>2 DEF Settled
  <2>3. copy.from \in Map /\ e \in elems[copy.from] /\ copy.from # copy.to
    BY <2>1, <2>2 DEF OwnInv, CopyOK
  <2>4. e \in Settled(copy.from)
    BY <2>3 DEF Settled
  <2>. QED
    BY <2>3, <2>4 DEF OwnInv, OneOwner
<1>. QED
  BY <1>1, <1>2

\* A string written where an element refers to.
LEMMA StoredOutside ==
  ASSUME HasRoom, NEW k, NEW v, NEW spare, Owned(spare),
         heap' = HeapAfter(k, v, spare), NEW i \in 1 .. Len(Outside(k, v))
  PROVE  heap'[RefsFor(k, v, spare)[i]] = Outside(k, v)[i]
<1>. DEFINE ref == RefsFor(k, v, spare)
            b == ref[i]
            c == CHOOSE j \in DOMAIN ref : ref[j] = b
<1>1. Fresh(ref, Len(Outside(k, v)), spare)
  BY RefsFresh
<1>2. DOMAIN ref = 1 .. Len(Outside(k, v))
  BY <1>1, LenProperties DEF Fresh
<1>3. c = i
  <2>1. c \in DOMAIN ref /\ ref[c] = ref[i]
    BY <1>2
  <2>. HIDE DEF c
  <2>. QED
    BY <1>1, <1>2, <2>1 DEF Fresh
<1>4. b \in Range(ref)
  BY <1>2 DEF Range
<1>5. heap'[b] = Outside(k, v)[c]
  BY <1>4 DEF HeapAfter
<1>. QED
  BY <1>3, <1>5

\* What is written is what is read.
LEMMA WrittenReads ==
  ASSUME type \in Type, UNCHANGED type, HasRoom,
         NEW k, NEW v, Storable(k, v), NEW spare, Owned(spare),
         heap' = HeapAfter(k, v, spare), NEW x, x = sso_set0(k, v, spare)
  PROVE  sso_get(x)' = k /\ sso_get_s2(x)' = v
<1>. DEFINE ref == RefsFor(k, v, spare)
<1>1. x.t = FormOf(k, v) /\ x.in = Inside(k, v) /\ x.ref = ref
  BY DEF sso_set0
<1>2. PICK p \in Pair : k = p[1] /\ v = Second(p[2])
  BY DEF Storable
<1>3. /\ k.len \in Nat /\ p[2].len \in Nat
      /\ k.len > DIMax => k.len + p[2].len > DDMax
      /\ type.two => v = p[2]
      /\ ~type.two => v = Void
      /\ type.two \in BOOLEAN /\ DIMax \in Nat /\ DDMax \in Nat
  BY <1>2, StrMapAssumption DEF Second
<1>. HIDE DEF ref
<1>4. \A i \in 1 .. Len(Outside(k, v)) : heap'[ref[i]] = Outside(k, v)[i]
  BY StoredOutside DEF ref
<1>5. CASE FormOf(k, v) = "D"
  BY <1>1, <1>3, <1>5 DEF sso_get, sso_get_s2, Inside, FormOf
<1>6. CASE FormOf(k, v) = "I"
  <2>1. Outside(k, v) = <<k>> /\ ~type.two
    BY <1>3, <1>6 DEF Outside, FormOf
  <2>2. heap'[ref[1]] = k
    BY <1>4, <2>1
  <2>. QED
    BY <1>1, <1>3, <1>6, <2>1, <2>2 DEF sso_get, sso_get_s2
<1>7. CASE FormOf(k, v) = "DD"
  <2>1. type.two /\ k.len + v.len <= DDMax
    BY <1>3, <1>7 DEF FormOf
  <2>2. Fits(k, DIMax) = k
    BY <1>3, <2>1 DEF Fits
  <2>3. Fits(v, DIMax - k.len) = v
    BY <1>7 DEF Fits, Storable, Fitting
  <2>4. Inside(k, v) = <<k, v>>
    BY <1>7, <2>2, <2>3 DEF Inside
  <2>. QED
    BY <1>1, <1>7, <2>4 DEF sso_get, sso_get_s2
<1>8. CASE FormOf(k, v) = "DI"
  <2>1. Outside(k, v) = <<v>> /\ Inside(k, v) = <<k>>
    BY <1>8 DEF Outside, Inside
  <2>2. heap'[ref[1]] = v
    BY <1>4, <2>1
  <2>. QED
    BY <1>1, <1>8, <2>1, <2>2 DEF sso_get, sso_get_s2
<1>9. CASE FormOf(k, v) = "ID"
  <2>1. Outside(k, v) = <<k>> /\ Inside(k, v) = <<v>>
    BY <1>9 DEF Outside, Inside
  <2>2. heap'[ref[1]] = k
    BY <1>4, <2>1
  <2>. QED
    BY <1>1, <1>9, <2>1, <2>2 DEF sso_get, sso_get_s2
<1>10. CASE FormOf(k, v) = "II"
  <2>1. Outside(k, v) = <<k, v>>
    BY <1>10 DEF Outside
  <2>2. heap'[ref[1]] = k /\ heap'[ref[2]] = v
    BY <1>4, <2>1
  <2>. QED
    BY <1>1, <1>10, <2>2 DEF sso_get, sso_get_s2
<1>. QED
  BY <1>5, <1>6, <1>7, <1>8, <1>9, <1>10, FormIs DEF Form

\* An element that is duplicated reads as it did.
LEMMA DuplicateReads ==
  ASSUME HasRoom, NEW e, Elem(e), heap' = HeapDuplicated(e),
         NEW x, x = sso_dupa(e)
  PROVE  sso_get(x)' = sso_get(e) /\ sso_get_s2(x)' = sso_get_s2(e)
<1>. DEFINE none == << >>
            n == Len(e.ref)
            ref == SubSeq(<<New1, New2>>, 1, n)
<1>0. Range(none) = {}
  BY NothingOwned
<1>1. x.t = e.t /\ x.in = e.in /\ x.ref = ref
  BY DEF sso_dupa, Elem
<1>. HIDE DEF none
<1>2. Fresh(ref, n, none)
  BY TwoNew, ElemRefs
<1>3. DOMAIN ref = 1 .. n
  BY <1>2, LenProperties DEF Fresh
<1>4. \A b \in Range(ref) : heap'[b] =
        IF b \in DOMAIN heap THEN heap[b]
        ELSE heap[e.ref[CHOOSE i \in DOMAIN ref : ref[i] = b]]
  BY DEF HeapDuplicated
<1>. HIDE DEF ref
<1>5. ASSUME NEW i \in 1 .. n
      PROVE  heap'[ref[i]] = heap[e.ref[i]]
  <2>. DEFINE b == ref[i]
              c == CHOOSE j \in DOMAIN ref : ref[j] = b
  <2>1. b \in Range(ref) /\ b \notin DOMAIN heap
    BY <1>0, <1>2, <1>3 DEF Fresh, Unused, Range
  <2>2. c \in DOMAIN ref /\ ref[c] = ref[i]
    BY <1>3
  <2>3. heap'[b] = heap[e.ref[c]]
    BY <1>4, <2>1
  <2>. HIDE DEF c
  <2>4. c = i
    BY <1>2, <1>3, <2>2 DEF Fresh
  <2>. QED
    BY <2>3, <2>4
<1>6. e.t \in {"I", "DI", "ID", "II"} => heap'[ref[1]] = heap[e.ref[1]]
  BY <1>5 DEF Elem
<1>7. e.t = "II" => heap'[ref[2]] = heap[e.ref[2]]
  BY <1>5 DEF Elem
<1>8. e.t \in Form
  BY DEF Elem
<1>9. sso_get(x)' = sso_get(e)
  BY <1>1, <1>6, <1>8 DEF sso_get, Form
<1>10. sso_get_s2(x)' = sso_get_s2(e)
  BY <1>1, <1>6, <1>7, <1>8 DEF sso_get_s2, Form
<1>. QED
  BY <1>9, <1>10

----------------------------------------------------------------------------
(* The steps, on the dictionaries.                                         *)

\* One map changes; the strings of all the other elements stay.
LEMMA OthersKept ==
  ASSUME ReadInv, OwnInv', UNCHANGED type, NEW m \in Map,
         \A n \in Map \ {m} : elems'[n] = elems[n],
         \A n \in Map \ {m} : \A e \in elems[n] : SameRefs(e)
  PROVE  /\ \A n \in Map \ {m} : Reads(n)' = Reads(n)
         /\ \A n \in Map \ {m} : \A e, f \in elems'[n] :
              sso_get(e)' = sso_get(f)' => e = f
         /\ \A n \in Map \ {m} : \A e \in elems'[n] :
              Storable(sso_get(e), sso_get_s2(e))'
<1>1. ASSUME NEW n \in Map \ {m}, NEW e \in elems[n]
      PROVE  sso_get(e)' = sso_get(e) /\ sso_get_s2(e)' = sso_get_s2(e)
  <2>1. Elem(e) /\ SameRefs(e)
    BY DEF ReadInv, OwnInv
  <2>. QED
    BY <2>1, ReadKept
<1>2. \A n \in Map \ {m} : Reads(n)' = Reads(n)
  BY <1>1 DEF Reads
<1>3. \A k, v : Storable(k, v)' <=> Storable(k, v)
  BY DEF Storable, Fitting, FormOf, Second
<1>4. \A n \in Map \ {m} : \A e, f \in elems'[n] :
        sso_get(e)' = sso_get(f)' => e = f
  BY <1>1 DEF ReadInv, UniqueKeys
<1>5. ASSUME NEW n \in Map \ {m}, NEW e \in elems'[n]
      PROVE  Storable(sso_get(e), sso_get_s2(e))'
  <2>1. Storable(sso_get(e), sso_get_s2(e))
    BY DEF ReadInv
  <2>2. sso_get(e)' = sso_get(e) /\ sso_get_s2(e)' = sso_get_s2(e)
    BY <1>1
  <2>. QED
    BY <2>1, <2>2 DEF Storable, Fitting, FormOf, Second
<1>. QED
  BY <1>2, <1>4, <1>5

\* The elements that stay do not refer to the blocks of those that go.
LEMMA RefsApart ==
  ASSUME OwnInv, Idle, NEW m \in Map, NEW D, D \subseteq elems[m],
         NEW n \in Map, NEW f \in elems[n], n # m \/ f \notin D,
         NEW i \in DOMAIN f.ref
  PROVE  f.ref[i] \in DOMAIN heap \ Blocks(D)
<1>1. f.ref[i] \in DOMAIN heap
  BY RefsInUse
<1>2. SUFFICES ASSUME f.ref[i] \in Blocks(D) PROVE FALSE
  BY <1>1
<1>3. PICK e \in D : f.ref[i] \in Range(e.ref)
  BY <1>2 DEF Blocks
<1>4. PICK j \in DOMAIN e.ref : f.ref[i] = e.ref[j]
  BY <1>3 DEF Range
<1>5. f \in Settled(n) /\ e \in Settled(m)
  BY SettledIdle
<1>6. n = m /\ f = e
  BY <1>4, <1>5 DEF OwnInv, OneOwner
<1>. QED
  BY <1>6

\* The elements D of a map, the ones with key k, go.
LEMMA RemoveReads ==
  ASSUME ReadInv, Idle, OwnInv', UNCHANGED type,
         NEW m \in Map, NEW D, D \subseteq elems[m],
         \A n \in Map : elems'[n] = IF n = m THEN elems[n] \ D ELSE elems[n],
         heap' = Restrict(heap, DOMAIN heap \ Blocks(D))
  PROVE  /\ ReadInv'
         /\ \A n \in Map \ {m} : Reads(n)' = Reads(n)
         /\ Reads(m)' = {<<sso_get(e), sso_get_s2(e)>> : e \in elems[m] \ D}
<1>1. ASSUME NEW n \in Map, NEW f \in elems'[n]
      PROVE  f \in elems[n] /\ Elem(f) /\ SameRefs(f)
  <2>1. f \in elems[n] /\ (n # m \/ f \notin D)
    OBVIOUS
  <2>2. Elem(f)
    BY <2>1 DEF ReadInv, OwnInv
  <2>3. \A i \in DOMAIN f.ref : f.ref[i] \in DOMAIN heap \ Blocks(D)
    BY <2>1, RefsApart DEF ReadInv
  <2>4. SameRefs(f)
    BY <2>3 DEF SameRefs, Restrict
  <2>. QED
    BY <2>1, <2>2, <2>4
<1>2. \A n \in Map : \A f \in elems'[n] :
        sso_get(f)' = sso_get(f) /\ sso_get_s2(f)' = sso_get_s2(f)
  BY <1>1, ReadKept
<1>3. UniqueKeys'
  BY <1>1, <1>2 DEF ReadInv, UniqueKeys
<1>4. ASSUME NEW n \in Map, NEW f \in elems'[n]
      PROVE  Storable(sso_get(f), sso_get_s2(f))'
  <2>1. Storable(sso_get(f), sso_get_s2(f))
    BY <1>1 DEF ReadInv
  <2>2. sso_get(f)' = sso_get(f) /\ sso_get_s2(f)' = sso_get_s2(f)
    BY <1>2
  <2>. QED
    BY <2>1, <2>2 DEF Storable, Fitting, FormOf, Second
<1>5. \A n \in Map \ {m} : Reads(n)' = Reads(n)
  BY <1>2 DEF Reads
<1>6. Reads(m)' = {<<sso_get(e), sso_get_s2(e)>> : e \in elems[m] \ D}
  <2>1. elems'[m] = elems[m] \ D
    OBVIOUS
  <2>. QED
    BY <1>2, <2>1 DEF Reads
<1>. QED
  BY <1>3, <1>4, <1>5, <1>6 DEF ReadInv

\* A pair is written, in the place of the element that has its key, if any.
LEMMA RewriteReads ==
  ASSUME ReadInv, Idle, HasRoom, OwnInv', UNCHANGED type,
         NEW m \in Map, NEW D, D \subseteq elems[m],
         NEW spare, Owned(spare), Range(spare) = Blocks(D),
         NEW k, NEW v, Storable(k, v),
         \A e \in elems[m] : sso_get(e) = k <=> e \in D,
         \A n \in Map : elems'[n] = IF n = m THEN (elems[n] \ D) \cup {sso_set0(k, v, spare)}
                                    ELSE elems[n],
         heap' = HeapAfter(k, v, spare)
  PROVE  /\ ReadInv'
         /\ \A n \in Map \ {m} : Reads(n)' = Reads(n)
         /\ Reads(m)' = Removed(Reads(m), k) \cup {<<k, v>>}
<1>1. PICK x : x = sso_set0(k, v, spare)
  OBVIOUS
<1>2. sso_get(x)' = k /\ sso_get_s2(x)' = v
  BY <1>1, WrittenReads DEF ReadInv, OwnInv
<1>3. elems'[m] = (elems[m] \ D) \cup {x}
  BY <1>1
<1>4. ASSUME NEW n \in Map, NEW f \in elems[n], n # m \/ f \notin D
      PROVE  sso_get(f)' = sso_get(f) /\ sso_get_s2(f)' = sso_get_s2(f)
  <2>. DEFINE ref == RefsFor(k, v, spare)
  <2>1. Elem(f)
    BY DEF ReadInv, OwnInv
  <2>2. \A i \in DOMAIN f.ref : f.ref[i] \in DOMAIN heap \ Range(spare)
    BY <1>4, RefsApart DEF ReadInv
  <2>3. \A i \in DOMAIN ref : ref[i] \notin DOMAIN heap \ Range(spare)
    BY RefsOutside
  <2>4. \A b \in DOMAIN heap \ Range(spare) : b \notin Range(ref)
    BY <2>3 DEF Range
  <2>5. \A b \in DOMAIN heap \ Range(spare) : heap'[b] = heap[b]
    BY <2>4 DEF HeapAfter
  <2>6. SameRefs(f)
    BY <2>2, <2>5 DEF SameRefs
  <2>. QED
    BY <2>1, <2>6, ReadKept
<1>5. \A n \in Map \ {m} : Reads(n)' = Reads(n)
  BY <1>4 DEF Reads
<1>6. Reads(m)' = Removed(Reads(m), k) \cup {<<k, v>>}
  <2>1. Reads(m)' = {<<sso_get(e)', sso_get_s2(e)'>> : e \in elems'[m]}
    BY DEF Reads
  <2>2. ASSUME NEW r \in Reads(m)'
        PROVE  r \in Removed(Reads(m), k) \cup {<<k, v>>}
    <3>1. PICK e \in elems'[m] : r = <<sso_get(e)', sso_get_s2(e)'>>
      BY <2>1
    <3>2. CASE e = x
      BY <1>2, <3>1, <3>2
    <3>3. CASE e \in elems[m] \ D
      <4>1. r = <<sso_get(e), sso_get_s2(e)>>
        BY <1>4, <3>1, <3>3
      <4>2. r \in Reads(m) /\ r[1] # k
        BY <3>3, <4>1 DEF Reads
      <4>. QED
        BY <4>2 DEF Removed
    <3>. QED
      BY <1>3, <3>2, <3>3
  <2>3. ASSUME NEW r \in Removed(Reads(m), k)
        PROVE  r \in Reads(m)'
    <3>1. PICK e \in elems[m] : r = <<sso_get(e), sso_get_s2(e)>> /\ r[1] # k
      BY DEF Removed, Reads
    <3>2. e \notin D
      <4>1. r[1] = sso_get(e)
        BY <3>1
      <4>. QED
        BY <3>1, <4>1
    <3>3. e \in elems'[m] /\ r = <<sso_get(e)', sso_get_s2(e)'>>
      BY <1>3, <1>4, <3>1, <3>2
    <3>. QED
      BY <2>1, <3>3
  <2>4. <<k, v>> \in Reads(m)'
    BY <1>2, <1>3, <2>1
  <2>. QED
    BY <2>2, <2>3, <2>4
<1>7. ASSUME NEW n \in Map, NEW e \in elems'[n], NEW f \in elems'[n],
             sso_get(e)' = sso_get(f)'
      PROVE  e = f
  <2>1. CASE n # m
    <3>1. e \in elems[n] /\ f \in elems[n] /\ sso_get(e) = sso_get(f)
      BY <1>4, <1>7, <2>1
    <3>. QED
      BY <3>1 DEF ReadInv, UniqueKeys
  <2>2. CASE n = m
    <3>1. \A g \in elems[m] \ D : sso_get(g)' = sso_get(g) /\ sso_get(g) # k
      BY <1>4
    <3>2. CASE e = x \/ f = x
      BY <1>2, <1>3, <1>7, <2>2, <3>1, <3>2
    <3>3. CASE e # x /\ f # x
      <4>1. e \in elems[m] \ D /\ f \in elems[m] \ D
        BY <1>3, <2>2, <3>3
      <4>2. sso_get(e) = sso_get(f)
        BY <1>7, <3>1, <4>1
      <4>. QED
        BY <4>1, <4>2 DEF ReadInv, UniqueKeys
    <3>. QED
      BY <3>2, <3>3
  <2>. QED
    BY <2>1, <2>2
<1>8. ASSUME NEW n \in Map, NEW f \in elems'[n]
      PROVE  Storable(sso_get(f), sso_get_s2(f))'
  <2>1. CASE n = m /\ f = x
    BY <1>2, <2>1 DEF Storable, Fitting, FormOf, Second
  <2>2. CASE f \in elems[n] /\ (n # m \/ f \notin D)
    <3>1. Storable(sso_get(f), sso_get_s2(f))
      BY <2>2 DEF ReadInv
    <3>2. sso_get(f)' = sso_get(f) /\ sso_get_s2(f)' = sso_get_s2(f)
      BY <1>4, <2>2
    <3>. QED
      BY <3>1, <3>2 DEF Storable, Fitting, FormOf, Second
  <2>3. CASE n = m
    <3>1. f \in (elems[m] \ D) \cup {x}
      BY <1>3, <2>3
    <3>. QED
      BY <2>1, <2>2, <2>3, <3>1
  <2>4. CASE n # m
    BY <2>2, <2>4
  <2>. QED
    BY <2>3, <2>4
<1>. QED
  BY <1>5, <1>6, <1>7, <1>8 DEF ReadInv, UniqueKeys

\* A new key comes in, and nothing else changes.
LEMMA InsertNewReads ==
  ASSUME ReadInv, OwnInv', NEW m \in Map, NEW k, NEW v, Storable(k, v), InsertNew(m, k, v)
  PROVE  /\ ReadInv'
         /\ \A n \in Map \ {m} : Reads(n)' = Reads(n)
         /\ Reads(m)' = Removed(Reads(m), k) \cup {<<k, v>>}
<1>. DEFINE none == << >>
            D == {}
<1>1. /\ Idle /\ HasRoom /\ UNCHANGED type
      /\ heap' = HeapAfter(k, v, none)
      /\ elems' = [elems EXCEPT ![m] = @ \cup {sso_set0(k, v, none)}]
  BY DEF InsertNew
<1>2. Range(none) = Blocks(D) /\ Owned(none) /\ D \subseteq elems[m]
  BY NothingOwned DEF Blocks
<1>3. \A e \in elems[m] : sso_get(e) = k <=> e \in D
  BY DEF InsertNew, Found
<1>4. \A n \in Map : elems'[n] = IF n = m THEN (elems[n] \ D) \cup {sso_set0(k, v, none)}
                                 ELSE elems[n]
  BY <1>1 DEF ReadInv, OwnInv
<1>. HIDE DEF none, D
<1>. QED
  BY <1>1, <1>2, <1>3, <1>4, RewriteReads

\* A key is overwritten, and nothing else changes.
LEMMA InsertExistingReads ==
  ASSUME ReadInv, OwnInv', NEW m \in Map, NEW k, NEW v, Storable(k, v),
         Settable(m, k), InsertExisting(m, k, v)
  PROVE  /\ ReadInv'
         /\ \A n \in Map \ {m} : Reads(n)' = Reads(n)
         /\ Reads(m)' = Removed(Reads(m), k) \cup {<<k, v>>}
<1>1. Idle /\ HasRoom /\ UNCHANGED type
  BY DEF InsertExisting
<1>2. PICK e \in Found(m, k) :
        /\ elems' = [elems EXCEPT ![m] = (@ \ {e}) \cup {sso_set0(k, v, Spare(e))}]
        /\ heap' = HeapAfter(k, v, Spare(e))
  BY DEF InsertExisting
<1>3. e \in elems[m] /\ Spare(e) = e.ref /\ sso_get(e) = k
  BY DEF Found, Settable, Spare
<1>. DEFINE D == {e}
<1>4. Owned(e.ref)
  <2>1. e \in Settled(m) /\ Elem(e)
    BY <1>1, <1>3, SettledIdle DEF ReadInv, OwnInv
  <2>. QED
    BY <2>1, OwnedRefs DEF ReadInv
<1>5. Range(e.ref) = Blocks(D) /\ D \subseteq elems[m]
  BY <1>3 DEF Blocks
<1>6. \A f \in elems[m] : sso_get(f) = k <=> f \in D
  BY <1>3 DEF ReadInv, UniqueKeys
<1>7. \A n \in Map : elems'[n] = IF n = m THEN (elems[n] \ D) \cup {sso_set0(k, v, e.ref)}
                                 ELSE elems[n]
  BY <1>2, <1>3 DEF ReadInv, OwnInv
<1>8. heap' = HeapAfter(k, v, e.ref)
  BY <1>2, <1>3
<1>9. PICK spare : spare = e.ref
  OBVIOUS
<1>. HIDE DEF D
<1>10. /\ Owned(spare) /\ Range(spare) = Blocks(D) /\ heap' = HeapAfter(k, v, spare)
       /\ \A n \in Map : elems'[n] = IF n = m THEN (elems[n] \ D) \cup {sso_set0(k, v, spare)}
                                     ELSE elems[n]
  BY <1>4, <1>5, <1>7, <1>8, <1>9
<1>. QED
  BY <1>1, <1>5, <1>6, <1>10, RewriteReads

\* A key goes, and nothing else changes.
LEMMA DeleteReads ==
  ASSUME ReadInv, OwnInv', NEW m \in Map, NEW k,
         Releasable(Found(m, k)), Delete(m, k)
  PROVE  /\ ReadInv'
         /\ \A n \in Map \ {m} : Reads(n)' = Reads(n)
         /\ Reads(m)' = Removed(Reads(m), k)
<1>1. Idle /\ UNCHANGED type
  BY DEF Delete
<1>2. PICK e \in Found(m, k) :
        /\ elems' = [elems EXCEPT ![m] = @ \ {e}]
        /\ heap' = Restrict(heap, DOMAIN heap \ Released(e))
  BY DEF Delete
<1>. DEFINE D == {e}
<1>3. Released(e) = Blocks(D) /\ D \subseteq elems[m]
  BY DEF Releasable, Released, Blocks, Found
<1>4. \A n \in Map : elems'[n] = IF n = m THEN elems[n] \ D ELSE elems[n]
  BY <1>2 DEF ReadInv, OwnInv
<1>5. heap' = Restrict(heap, DOMAIN heap \ Blocks(D))
  BY <1>2, <1>3
<1>6. \A f \in elems[m] : sso_get(f) = k <=> f \in D
  BY DEF ReadInv, UniqueKeys, Found
<1>. HIDE DEF D
<1>7. /\ ReadInv'
      /\ \A n \in Map \ {m} : Reads(n)' = Reads(n)
      /\ Reads(m)' = {<<sso_get(f), sso_get_s2(f)>> : f \in elems[m] \ D}
  BY <1>1, <1>3, <1>4, <1>5, RemoveReads
<1>8. {<<sso_get(f), sso_get_s2(f)>> : f \in elems[m] \ D} = Removed(Reads(m), k)
  <2>1. ASSUME NEW r \in Reads(m), r[1] # k
        PROVE  \E f \in elems[m] \ D : r = <<sso_get(f), sso_get_s2(f)>>
    <3>1. PICK f \in elems[m] : r = <<sso_get(f), sso_get_s2(f)>>
      BY DEF Reads
    <3>2. r[1] = sso_get(f)
      BY <3>1
    <3>. QED
      BY <1>6, <2>1, <3>1, <3>2
  <2>2. ASSUME NEW f \in elems[m] \ D
        PROVE  <<sso_get(f), sso_get_s2(f)>> \in Removed(Reads(m), k)
    <3>1. PICK r : r = <<sso_get(f), sso_get_s2(f)>>
      OBVIOUS
    <3>2. r \in Reads(m) /\ r[1] = sso_get(f) /\ sso_get(f) # k
      BY <1>6, <3>1 DEF Reads
    <3>. QED
      BY <3>1, <3>2 DEF Removed
  <2>. QED
    BY <2>1, <2>2 DEF Removed
<1>. QED
  BY <1>7, <1>8

\* A map is emptied, and nothing else changes.
LEMMA EmptiedReads ==
  ASSUME ReadInv, OwnInv', NEW m \in Map, Releasable(elems[m]), Emptied(m)
  PROVE  /\ ReadInv'
         /\ \A n \in Map \ {m} : Reads(n)' = Reads(n)
         /\ Reads(m)' = {}
<1>1. Idle /\ UNCHANGED type
  BY DEF Emptied
<1>. DEFINE D == elems[m]
<1>2. D \subseteq elems[m]
  OBVIOUS
<1>3. \A n \in Map : elems'[n] = IF n = m THEN elems[n] \ D ELSE elems[n]
  BY DEF ReadInv, OwnInv, Emptied
<1>4. heap' = Restrict(heap, DOMAIN heap \ Blocks(D))
  BY ReleasedAll DEF Emptied, ReleasedBy
<1>5. {<<sso_get(f), sso_get_s2(f)>> : f \in elems[m] \ D} = {}
  OBVIOUS
<1>. HIDE DEF D
<1>6. /\ ReadInv'
      /\ \A n \in Map \ {m} : Reads(n)' = Reads(n)
      /\ Reads(m)' = {<<sso_get(f), sso_get_s2(f)>> : f \in elems[m] \ D}
  BY <1>1, <1>2, <1>3, <1>4, RemoveReads
<1>. QED
  BY <1>5, <1>6

\* The elements of the source, which are read where they are.
LEMMA StartCopyReads ==
  ASSUME ReadInv, OwnInv', NEW to \in Map, NEW from \in Map,
         Releasable(elems[to]), StartCopy(to, from)
  PROVE  /\ ReadInv'
         /\ \A n \in Map \ {to} : Reads(n)' = Reads(n)
         /\ Reads(to)' = Reads(from)
<1>1. /\ Idle /\ UNCHANGED type /\ to # from
      /\ \A n \in Map : elems'[n] = IF n = to THEN elems[from] ELSE elems[n]
  BY DEF ReadInv, OwnInv, StartCopy
<1>2. heap' = Restrict(heap, DOMAIN heap \ Blocks(elems[to]))
  BY ReleasedAll DEF StartCopy, ReleasedBy
<1>3. ASSUME NEW n \in Map \ {to}, NEW f \in elems[n]
      PROVE  sso_get(f)' = sso_get(f) /\ sso_get_s2(f)' = sso_get_s2(f)
  <2>1. Elem(f)
    BY DEF ReadInv, OwnInv
  <2>2. \A i \in DOMAIN f.ref : f.ref[i] \in DOMAIN heap \ Blocks(elems[to])
    BY <1>1, RefsApart DEF ReadInv
  <2>3. SameRefs(f)
    BY <1>2, <2>2 DEF SameRefs, Restrict
  <2>. QED
    BY <2>1, <2>3, ReadKept
<1>4. \A n \in Map \ {to} : Reads(n)' = Reads(n)
  BY <1>1, <1>3 DEF Reads
<1>5. Reads(to)' = Reads(from)
  BY <1>1, <1>3 DEF Reads
<1>6. ASSUME NEW n \in Map, NEW e \in elems'[n], NEW f \in elems'[n],
             sso_get(e)' = sso_get(f)'
      PROVE  e = f
  <2>1. PICK o \in Map \ {to} : elems'[n] = elems[o]
    BY <1>1
  <2>2. sso_get(e) = sso_get(f)
    BY <1>3, <1>6, <2>1
  <2>. QED
    BY <2>1, <2>2 DEF ReadInv, UniqueKeys
<1>7. ASSUME NEW n \in Map, NEW f \in elems'[n]
      PROVE  Storable(sso_get(f), sso_get_s2(f))'
  <2>1. PICK o \in Map \ {to} : elems'[n] = elems[o]
    BY <1>1
  <2>2. Storable(sso_get(f), sso_get_s2(f))
    BY <2>1 DEF ReadInv
  <2>3. sso_get(f)' = sso_get(f) /\ sso_get_s2(f)' = sso_get_s2(f)
    BY <1>3, <2>1
  <2>. QED
    BY <1>1, <2>2, <2>3 DEF Storable, Fitting, FormOf, Second
<1>. QED
  BY <1>4, <1>5, <1>6, <1>7 DEF ReadInv, UniqueKeys

\* An element of a copy gets strings of its own, and reads as before.
LEMMA CopyElementReads ==
  ASSUME ReadInv, OwnInv', CopyElement
  PROVE  /\ ReadInv'
         /\ \A n \in Map : Reads(n)' = Reads(n)
<1>. DEFINE none == << >>
            to == copy.to
<1>0. Owned(none) /\ Range(none) = {}
  BY NothingOwned
<1>1. PICK e : e = (CHOOSE y \in copy.todo : TRUE)
  OBVIOUS
<1>2. PICK k, v : k = sso_get(e) /\ v = sso_get_s2(e)
  OBVIOUS
<1>3. PICK x : x = IF type.hash THEN sso_dupa(e) ELSE sso_set0(k, v, none)
  OBVIOUS
<1>. HIDE DEF none
<1>4. /\ ~Idle /\ HasRoom /\ UNCHANGED type
      /\ elems' = [elems EXCEPT ![to] = (@ \ {e}) \cup {x}]
      /\ heap' = IF type.hash THEN HeapDuplicated(e) ELSE HeapAfter(k, v, none)
  BY <1>1, <1>2, <1>3 DEF CopyElement, none
<1>5. to \in Map /\ e \in elems[to]
  BY <1>1, <1>4 DEF ReadInv, OwnInv, CopyOK, Idle
<1>6. Elem(e) /\ Storable(k, v)
  BY <1>2, <1>5 DEF ReadInv, OwnInv
<1>7. sso_get(x)' = k /\ sso_get_s2(x)' = v
  <2>1. CASE type.hash
    BY <1>2, <1>3, <1>4, <1>6, <2>1, DuplicateReads
  <2>2. CASE ~type.hash
    BY <1>0, <1>3, <1>4, <1>6, <2>2, WrittenReads DEF ReadInv, OwnInv
  <2>. QED
    BY <2>1, <2>2
<1>8. \A b \in DOMAIN heap : heap'[b] = heap[b]
  <2>1. CASE type.hash
    <3>1. heap' = HeapDuplicated(e)
      BY <1>4, <2>1
    <3>. QED
      BY <3>1 DEF HeapDuplicated
  <2>2. CASE ~type.hash
    <3>. DEFINE ref == RefsFor(k, v, none)
    <3>1. heap' = HeapAfter(k, v, none)
      BY <1>4, <2>2
    <3>2. \A i \in DOMAIN ref : ref[i] \notin DOMAIN heap \ Range(none)
      BY <1>0, <1>4, RefsOutside
    <3>3. \A b \in DOMAIN heap : b \notin Range(ref) /\ b \notin Range(none)
      BY <1>0, <3>2 DEF Range
    <3>. QED
      BY <3>1, <3>3 DEF HeapAfter
  <2>. QED
    BY <2>1, <2>2
<1>9. ASSUME NEW n \in Map, NEW f \in elems[n]
      PROVE  sso_get(f)' = sso_get(f) /\ sso_get_s2(f)' = sso_get_s2(f)
  <2>1. Elem(f)
    BY DEF ReadInv, OwnInv
  <2>2. \A i \in DOMAIN f.ref : f.ref[i] \in DOMAIN heap
    BY RefsInUse DEF ReadInv
  <2>3. SameRefs(f)
    BY <1>8, <2>2 DEF SameRefs
  <2>. QED
    BY <2>1, <2>3, ReadKept
<1>10. \A n \in Map : elems'[n] = IF n = to THEN (elems[n] \ {e}) \cup {x} ELSE elems[n]
  BY <1>4 DEF ReadInv, OwnInv
<1>11. ASSUME NEW n \in Map
       PROVE  Reads(n)' = Reads(n)
  <2>1. Reads(n)' = {<<sso_get(f)', sso_get_s2(f)'>> : f \in elems'[n]}
    BY DEF Reads
  <2>2. CASE n # to
    <3>1. elems'[n] = elems[n]
      BY <1>10, <2>2
    <3>2. Reads(n) = {<<sso_get(f), sso_get_s2(f)>> : f \in elems[n]}
      BY DEF Reads
    <3>. QED
      BY <1>9, <2>1, <3>1, <3>2
  <2>3. CASE n = to
    <3>1. ASSUME NEW r \in Reads(n)'
          PROVE  r \in Reads(n)
      <4>1. PICK f \in elems'[n] : r = <<sso_get(f)', sso_get_s2(f)'>>
        BY <2>1
      <4>2. CASE f = x
        BY <1>2, <1>5, <1>7, <2>3, <4>1, <4>2 DEF Reads
      <4>3. CASE f \in elems[n]
        BY <1>9, <4>1, <4>3 DEF Reads
      <4>. QED
        BY <1>10, <2>3, <4>2, <4>3
    <3>2. ASSUME NEW r \in Reads(n)
          PROVE  r \in Reads(n)'
      <4>1. PICK f \in elems[n] : r = <<sso_get(f), sso_get_s2(f)>>
        BY DEF Reads
      <4>2. CASE f = e
        <5>1. x \in elems'[n] /\ r = <<sso_get(x)', sso_get_s2(x)'>>
          BY <1>2, <1>7, <1>10, <2>3, <4>1, <4>2
        <5>. QED
          BY <2>1, <5>1
      <4>3. CASE f # e
        <5>1. f \in elems'[n] /\ r = <<sso_get(f)', sso_get_s2(f)'>>
          BY <1>9, <1>10, <2>3, <4>1, <4>3
        <5>. QED
          BY <2>1, <5>1
      <4>. QED
        BY <4>2, <4>3
    <3>. QED
      BY <3>1, <3>2
  <2>. QED
    BY <2>2, <2>3
<1>12. ASSUME NEW n \in Map, NEW f \in elems'[n]
       PROVE  \/ f \in elems[n] /\ (n # to \/ f # e)
              \/ n = to /\ f = x
  BY <1>10
<1>13. ASSUME NEW n \in Map, NEW f \in elems'[n], NEW g \in elems'[n],
              sso_get(f)' = sso_get(g)'
       PROVE  f = g
  <2>1. CASE f = x /\ n = to
    <3>1. CASE g = x
      BY <2>1, <3>1
    <3>2. CASE g \in elems[n] /\ g # e
      <4>1. sso_get(g) = sso_get(e)
        BY <1>2, <1>7, <1>9, <1>13, <2>1, <3>2
      <4>. QED
        BY <1>5, <2>1, <3>2, <4>1 DEF ReadInv, UniqueKeys
    <3>. QED
      BY <1>12, <2>1, <3>1, <3>2
  <2>2. CASE g = x /\ n = to
    <3>1. CASE f = x
      BY <2>2, <3>1
    <3>2. CASE f \in elems[n] /\ f # e
      <4>1. sso_get(f) = sso_get(e)
        BY <1>2, <1>7, <1>9, <1>13, <2>2, <3>2
      <4>. QED
        BY <1>5, <2>2, <3>2, <4>1 DEF ReadInv, UniqueKeys
    <3>. QED
      BY <1>12, <2>2, <3>1, <3>2
  <2>3. CASE f \in elems[n] /\ g \in elems[n]
    <3>1. sso_get(f) = sso_get(g)
      BY <1>9, <1>13, <2>3
    <3>. QED
      BY <2>3, <3>1 DEF ReadInv, UniqueKeys
  <2>. QED
    BY <1>12, <2>1, <2>2, <2>3
<1>14. ASSUME NEW n \in Map, NEW f \in elems'[n]
       PROVE  Storable(sso_get(f), sso_get_s2(f))'
  <2>1. CASE f = x
    BY <1>4, <1>6, <1>7, <2>1 DEF Storable, Fitting, FormOf, Second
  <2>2. CASE f \in elems[n]
    <3>1. Storable(sso_get(f), sso_get_s2(f))
      BY <2>2 DEF ReadInv
    <3>2. sso_get(f)' = sso_get(f) /\ sso_get_s2(f)' = sso_get_s2(f)
      BY <1>9, <2>2
    <3>. QED
      BY <1>4, <3>1, <3>2 DEF Storable, Fitting, FormOf, Second
  <2>. QED
    BY <1>12, <2>1, <2>2
<1>. QED
  BY <1>11, <1>13, <1>14 DEF ReadInv, UniqueKeys

----------------------------------------------------------------------------
(* Each step on the dictionaries the maps are.                             *)

\* One map changes.
LEMMA OneMap ==
  ASSUME ReadInv, ReadInv', NEW m \in Map, NEW d, DictOf(Reads(m)') = d,
         \A n \in Map \ {m} : Reads(n)' = Reads(n)
  PROVE  Contents' = [Contents EXCEPT ![m] = d]
<1>1. \A n \in Map : Contents[n] = DictOf(Reads(n)) /\ Contents'[n] = DictOf(Reads(n)')
  BY ContentsAre, ContentsNext DEF ReadInv
<1>2. \A n \in Map : Contents'[n] = IF n = m THEN d ELSE Contents[n]
  BY <1>1
<1>3. Contents = [n \in Map |-> Contents[n]] /\ Contents' = [n \in Map |-> Contents'[n]]
  BY DEF Contents
<1>. HIDE DEF Contents
<1>. QED
  BY <1>2, <1>3

\* The steps of the maps are steps of the dictionaries.
LEMMA InsertDict ==
  ASSUME ReadInv, ReadInv', NEW m \in Map, NEW k, NEW v, Storable(k, v),
         \A n \in Map \ {m} : Reads(n)' = Reads(n),
         Reads(m)' = Removed(Reads(m), k) \cup {<<k, v>>}
  PROVE  Abstract!Next
<1>1. Functional(Reads(m)) /\ Contents[m] = DictOf(Reads(m))
  BY ContentsAre DEF ReadInv
<1>. DEFINE d == Put(Contents[m], k, v)
            AllPair == Pair \cup {<<p[1], Void>> : p \in Pair}
<1>2. DictOf(Reads(m)') = d
  <2>1. PICK R : R = Reads(m)
    OBVIOUS
  <2>2. PICK S : S = Reads(m)'
    OBVIOUS
  <2>3. Functional(R) /\ Contents[m] = DictOf(R) /\ S = Removed(R, k) \cup {<<k, v>>}
    BY <1>1, <2>1, <2>2
  <2>4. DictOf(S) = Put(DictOf(R), k, v)
    BY <2>3, DictInsert
  <2>. QED
    BY <2>2, <2>3, <2>4
<1>3. Contents' = [Contents EXCEPT ![m] = d]
  BY <1>2, OneMap
<1>4. \E p \in AllPair : p[1] = k /\ p[2] = v
  <2>1. PICK p \in Pair : k = p[1] /\ v = Second(p[2])
    BY DEF Storable
  <2>2. CASE type.two
    BY <2>1, <2>2 DEF Second
  <2>3. CASE ~type.two
    <3>1. <<p[1], Void>> \in AllPair /\ <<p[1], Void>>[1] = k /\ <<p[1], Void>>[2] = v
      BY <2>1, <2>3 DEF Second
    <3>. QED
      BY <3>1
  <2>. QED
    BY <2>2, <2>3
<1>5. Abstract!Insert(m, k, v)
  BY <1>3 DEF Abstract!Insert, Put
<1>. QED
  BY <1>4, <1>5 DEF Abstract!Next

\* A deletion.
LEMMA DeleteDict ==
  ASSUME ReadInv, ReadInv', NEW m \in Map, NEW p \in Pair,
         \A n \in Map \ {m} : Reads(n)' = Reads(n),
         Reads(m)' = Removed(Reads(m), p[1])
  PROVE  Abstract!Next
<1>1. Functional(Reads(m)) /\ Contents[m] = DictOf(Reads(m))
  BY ContentsAre DEF ReadInv
<1>. DEFINE d == Drop(Contents[m], p[1])
<1>2. DictOf(Reads(m)') = d
  <2>1. PICK R : R = Reads(m)
    OBVIOUS
  <2>2. Functional(R) /\ Contents[m] = DictOf(R)
    BY <1>1, <2>1
  <2>3. DictOf(Removed(R, p[1])) = Drop(DictOf(R), p[1])
    BY <2>2, DictDelete
  <2>. QED
    BY <2>1, <2>2, <2>3
<1>3. Contents' = [Contents EXCEPT ![m] = d]
  BY <1>2, OneMap
<1>4. Abstract!Delete(m, p[1])
  BY <1>3 DEF Abstract!Delete, Abstract!Restrict, Drop
<1>. QED
  BY <1>4 DEF Abstract!Next

\* A clearing.
LEMMA ClearDict ==
  ASSUME ReadInv, ReadInv', NEW m \in Map,
         \A n \in Map \ {m} : Reads(n)' = Reads(n), Reads(m)' = {}
  PROVE  Abstract!Next
<1>1. Contents' = [Contents EXCEPT ![m] = << >>]
  BY DictEmpty, OneMap
<1>. QED
  BY <1>1 DEF Abstract!Next, Abstract!Clear

\* A copy, at its first step.
LEMMA CopyDict ==
  ASSUME ReadInv, ReadInv', NEW to \in Map, NEW from \in Map,
         \A n \in Map \ {to} : Reads(n)' = Reads(n), Reads(to)' = Reads(from)
  PROVE  Abstract!Next
<1>1. Contents[from] = DictOf(Reads(from))
  BY ContentsAre DEF ReadInv
<1>2. Contents' = [Contents EXCEPT ![to] = Contents[from]]
  BY <1>1, OneMap
<1>. QED
  BY <1>2 DEF Abstract!Next, Abstract!Copy

\* What leaves the pairs alone leaves the dictionaries alone.
LEMMA SameDict ==
  ASSUME ReadInv, ReadInv', \A n \in Map : Reads(n)' = Reads(n)
  PROVE  UNCHANGED Contents
<1>1. \A n \in Map : Contents[n] = DictOf(Reads(n)) /\ Contents'[n] = DictOf(Reads(n)')
  BY ContentsAre, ContentsNext DEF ReadInv
<1>2. Contents = [n \in Map |-> Contents[n]] /\ Contents' = [n \in Map |-> Contents'[n]]
  BY DEF Contents
<1>. QED
  BY <1>1, <1>2

\* Every step keeps the invariant, and is one of the dictionaries or none.
LEMMA NextReads ==
  ASSUME ReadInv, [CoreNext]_vars
  PROVE  ReadInv' /\ [Abstract!Next]_Contents
<1>0. OwnInv'
  BY NextOwn DEF ReadInv
<1>1. ASSUME NEW m \in Map, NEW p \in Pair, NEW k, NEW v, k = p[1], v = Second(p[2]),
             Fitting(k, v),
             InsertNew(m, k, v) \/ (Settable(m, k) /\ InsertExisting(m, k, v))
      PROVE  ReadInv' /\ Abstract!Next
  <2>1. Storable(k, v)
    BY <1>1 DEF Storable
  <2>2. /\ ReadInv'
        /\ \A n \in Map \ {m} : Reads(n)' = Reads(n)
        /\ Reads(m)' = Removed(Reads(m), k) \cup {<<k, v>>}
    <3>1. CASE InsertNew(m, k, v)
      BY <1>0, <2>1, <3>1, InsertNewReads
    <3>2. CASE Settable(m, k) /\ InsertExisting(m, k, v)
      BY <1>0, <2>1, <3>2, InsertExistingReads
    <3>. QED
      BY <1>1, <3>1, <3>2
  <2>. QED
    BY <2>1, <2>2, InsertDict
<1>2. ASSUME NEW m \in Map, NEW p \in Pair, Releasable(Found(m, p[1])), Delete(m, p[1])
      PROVE  ReadInv' /\ Abstract!Next
  <2>1. /\ ReadInv'
        /\ \A n \in Map \ {m} : Reads(n)' = Reads(n)
        /\ Reads(m)' = Removed(Reads(m), p[1])
    BY <1>0, <1>2, DeleteReads
  <2>. QED
    BY <2>1, DeleteDict
<1>3. ASSUME NEW m \in Map, Releasable(elems[m]), Emptied(m)
      PROVE  ReadInv' /\ Abstract!Next
  <2>1. /\ ReadInv'
        /\ \A n \in Map \ {m} : Reads(n)' = Reads(n)
        /\ Reads(m)' = {}
    BY <1>0, <1>3, EmptiedReads
  <2>. QED
    BY <2>1, ClearDict
<1>4. ASSUME NEW to \in Map, NEW from \in Map, Releasable(elems[to]), StartCopy(to, from)
      PROVE  ReadInv' /\ Abstract!Next
  <2>1. /\ ReadInv'
        /\ \A n \in Map \ {to} : Reads(n)' = Reads(n)
        /\ Reads(to)' = Reads(from)
    BY <1>0, <1>4, StartCopyReads
  <2>. QED
    BY <2>1, CopyDict
<1>5. CASE CopyElement
  <2>1. ReadInv' /\ \A n \in Map : Reads(n)' = Reads(n)
    BY <1>0, <1>5, CopyElementReads
  <2>. QED
    BY <2>1, SameDict
<1>6. CASE UNCHANGED <<type, elems, heap, copy>>
  <2>1. ReadInv'
    BY <1>0, <1>6 DEF ReadInv, UniqueKeys, Storable, Fitting, FormOf, Second,
                      sso_get, sso_get_s2
  <2>2. UNCHANGED Contents
    BY <1>6 DEF Contents, sso_get, sso_get_s2
  <2>. QED
    BY <2>1, <2>2
<1>7. CASE CoreNext
  <2>1. CASE \E m \in Map, p \in Pair :
               LET k == p[1]  v == Second(p[2])
               IN  /\ Fitting(k, v)
                   /\ \/ InsertNew(m, k, v)
                      \/ Settable(m, k) /\ InsertExisting(m, k, v)
    <3>1. PICK m \in Map, p \in Pair :
            /\ Fitting(p[1], Second(p[2]))
            /\ \/ InsertNew(m, p[1], Second(p[2]))
               \/ Settable(m, p[1]) /\ InsertExisting(m, p[1], Second(p[2]))
      BY <2>1
    <3>. QED
      BY <1>1, <3>1
  <2>2. CASE \E m \in Map : Alloc(m) \/ (Releasable(elems[m]) /\ (Clear(m) \/ Free(m)))
    BY <1>3, <1>6, <2>2 DEF Alloc, Clear, Free
  <2>. QED
    BY <1>2, <1>4, <1>5, <1>7, <2>1, <2>2 DEF CoreNext
<1>. QED
  BY <1>6, <1>7 DEF vars

\* The maps are empty dictionaries at first.
LEMMA InitReads == Init => ReadInv /\ Abstract!Init
<1>. SUFFICES ASSUME Init PROVE ReadInv /\ Abstract!Init
  OBVIOUS
<1>1. \A m \in Map : elems[m] = {}
  BY DEF Init
<1>2. ReadInv
  BY <1>1, InitOwn DEF ReadInv, UniqueKeys
<1>3. \A m \in Map : Contents[m] = << >>
  BY <1>1 DEF Contents
<1>4. Contents = [m \in Map |-> Contents[m]]
  BY DEF Contents
<1>. QED
  BY <1>2, <1>3, <1>4 DEF Abstract!Init

\* Every element reads as a key and a value that were stored together: no string
\* is cut to the room of another, or read from another's block.
THEOREM StrMapWholeStrings == CoreSpec => []WholeStrings
<1>1. ReadInv /\ [CoreNext]_vars => ReadInv'
  BY NextReads
<1>2. ReadInv => WholeStrings
  BY DEF ReadInv, WholeStrings, Storable
<1>. QED
  BY InitReads, <1>1, <1>2, PTL DEF CoreSpec

\* The maps are dictionaries of strings, each its own: an insertion, a deletion,
\* the clearing of a tree, the freeing of a map or a copy (sm_cpy, sm_dup,
\* shm_dup) changes one of them, as the client asked, and no other, wherever the
\* strings are stored; adapting a copy element by element changes none.
THEOREM StrMapImplements == CoreSpec => Implements
<1>1. ReadInv /\ [CoreNext]_vars => ReadInv' /\ [Abstract!Next]_Contents
  BY NextReads
<1>. QED
  BY InitReads, <1>1, PTL DEF CoreSpec, Implements, Abstract!Spec
=============================================================================
