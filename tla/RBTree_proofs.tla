----------------------------- MODULE RBTree_proofs -----------------------------
(***************************************************************************)
(* For every set of keys and values and every capacity, and for the        *)
(* histories CoreSpec allows: what the walks of stree.c leave is a         *)
(* red-black search tree, every node is found by its key whatever moved in *)
(* the array, the assertions in the code hold, and a tree is the map       *)
(* KeyMap specifies.                                                       *)
(*                                                                         *)
(* A tree is described without recursion.  Shape gives each node the set   *)
(* of keys that may be below it, and its parent; Even gives each node its  *)
(* black height; and two red nodes in a row are named by where they are.   *)
(* TreeInv says what the window of each walk can be in such a tree.        *)
(***************************************************************************)
EXTENDS RBTree, FiniteSetTheorems, WellFoundedInduction, TLAPS

----------------------------------------------------------------------------
(* Arrays of nodes, links and rotations.                                   *)

\* An array of nodes over the indexes I; Room is what the proofs use of I.
Typed(n, I) ==
  n \in [I \cup {Aux} -> [key : Key \cup {0}, val : 0 .. ValMod - 1,
                          l : I \cup {Nil}, r : I \cup {Nil}, red : BOOLEAN]]

Room(I) ==
  /\ I \subseteq Int /\ IsFiniteSet(I)
  /\ Nil \notin I /\ Aux \notin I /\ Aux # Nil

SameData(n, m, I) ==
  \A i \in I \cup {Aux} : m[i].key = n[i].key /\ m[i].val = n[i].val
SameReds(n, m, I) == \A i \in I \cup {Aux} : m[i].red = n[i].red
SameSons(n, m, I) == \A i \in I \cup {Aux}, e \in Dir : m[i][e] = n[i][e]

\* m is n with the son of x on side d set to y; with x made red or black.
SonSet(n, m, I, x, d, y) ==
  \A i \in I \cup {Aux}, e \in Dir :
    m[i][e] = IF i = x /\ e = d THEN y ELSE n[i][e]
RedSet(n, m, I, x, b) ==
  \A i \in I \cup {Aux} : m[i].red = IF i = x THEN b ELSE n[i].red

LEMMA SonOf ==
  ASSUME NEW I, NEW n, Typed(n, I), NEW i \in I \cup {Aux}, NEW d \in Dir
  PROVE  n[i][d] \in I \cup {Nil}
<1>1. n[i] \in [key : Key \cup {0}, val : 0 .. ValMod - 1,
                l : I \cup {Nil}, r : I \cup {Nil}, red : BOOLEAN]
  BY DEF Typed
<1>2. n[i].l \in I \cup {Nil} /\ n[i].r \in I \cup {Nil}
  BY <1>1
<1>3. d = "l" \/ d = "r"
  BY DEF Dir
<1>. QED
  BY <1>2, <1>3

LEMMA KeyOf ==
  ASSUME NEW I, NEW n, Typed(n, I), NEW i \in I \cup {Aux}
  PROVE  /\ n[i].key \in Key \cup {0} /\ n[i].key \in Int
         /\ n[i].val \in 0 .. ValMod - 1 /\ n[i].red \in BOOLEAN
<1>1. n[i] \in [key : Key \cup {0}, val : 0 .. ValMod - 1,
                l : I \cup {Nil}, r : I \cup {Nil}, red : BOOLEAN]
  BY DEF Typed
<1>2. n[i].key \in Key \cup {0}
  BY <1>1
<1>3. n[i].val \in 0 .. ValMod - 1
  BY <1>1
<1>4. n[i].red \in BOOLEAN
  <2>1. PICK B : B = BOOLEAN
    OBVIOUS
  <2>2. n[i] \in [key : Key \cup {0}, val : 0 .. ValMod - 1,
                  l : I \cup {Nil}, r : I \cup {Nil}, red : B]
    BY <1>1, <2>1, Zenon
  <2>3. n[i].red \in B
    BY <2>2
  <2>. QED
    BY <2>1, <2>3, Zenon
<1>5. n[i].key \in Int
  <2>1. PICK k : k = n[i].key
    OBVIOUS
  <2>2. k \in Key \cup {0}
    BY <1>2, <2>1
  <2>3. Key \subseteq Int
    BY RBTreeAssumption
  <2>4. k \in Int
    BY <2>2, <2>3
  <2>. QED
    BY <2>1, <2>4
<1>. QED
  BY <1>2, <1>3, <1>4, <1>5

LEMMA Sides ==
  ASSUME NEW d \in Dir
  PROVE  Other(d) \in Dir /\ Other(d) # d /\ Other(Other(d)) = d
         /\ \A e \in Dir : e = d \/ e = Other(d)
BY DEF Dir, Other

LEMMA SetSonEffect ==
  ASSUME NEW I, Room(I), NEW n, Typed(n, I), NEW x \in I \cup {Aux},
         NEW d \in Dir, NEW y \in I \cup {Nil}
  PROVE  LET m == SetSon(n, x, d, y)
         IN  Typed(m, I) /\ SonSet(n, m, I, x, d, y) /\ SameData(n, m, I) /\ SameReds(n, m, I)
<1>. DEFINE m == [n EXCEPT ![x][d] = y]
<1>1. SetSon(n, x, d, y) = m
  BY DEF SetSon, Room
<1>2. Typed(m, I)
  BY DEF Typed, Dir
<1>3. SonSet(n, m, I, x, d, y)
  BY DEF Typed, Dir, SonSet
<1>4. SameData(n, m, I) /\ SameReds(n, m, I)
  BY DEF Typed, Dir, SameData, SameReds
<1>. QED
  BY <1>1, <1>2, <1>3, <1>4

LEMMA SetRedEffect ==
  ASSUME NEW I, Room(I), NEW n, Typed(n, I), NEW x \in I \cup {Aux, Nil}, NEW b \in BOOLEAN
  PROVE  LET m == SetRed(n, x, b)
         IN  Typed(m, I) /\ RedSet(n, m, I, x, b) /\ SameData(n, m, I) /\ SameSons(n, m, I)
<1>1. CASE x = Nil
  BY <1>1 DEF SetRed, Room, RedSet, SameData, SameSons
<1>2. CASE x # Nil
  <2>. DEFINE m == [n EXCEPT ![x].red = b]
  <2>1. SetRed(n, x, b) = m
    BY <1>2 DEF SetRed, Room
  <2>0. x \in I \cup {Aux}
    BY <1>2
  <2>2. Typed(m, I)
    BY <2>0 DEF Typed
  <2>3. RedSet(n, m, I, x, b)
    BY <2>0 DEF Typed, Dir, RedSet
  <2>4. SameData(n, m, I) /\ SameSons(n, m, I)
    BY <2>0 DEF Typed, Dir, SameData, SameSons
  <2>. QED
    BY <2>1, <2>2, <2>3, <2>4
<1>. QED
  BY <1>1, <1>2

\* The links and colours of a rotation of x under its son y on side xd.
TurnedSons(n, m, I, x, y, d, xd) ==
  \A i \in I \cup {Aux}, e \in Dir :
    m[i][e] = IF i = x /\ e = xd THEN n[y][d]
              ELSE IF i = y /\ e = d THEN x ELSE n[i][e]
TurnedReds(n, m, I, x, y) ==
  \A i \in I \cup {Aux} :
    m[i].red = IF i = y THEN FALSE ELSE IF i = x THEN TRUE ELSE n[i].red

LEMMA Rot1Effect ==
  ASSUME NEW I, Room(I), NEW n, Typed(n, I), NEW x \in I,
         NEW d \in Dir, NEW xd \in Dir, xd # d, NEW y \in I, y = n[x][xd], y # x
  PROVE  LET t == Rot1(n, x, d, xd)
         IN  /\ t.top = y
             /\ Typed(t.n, I) /\ SameData(n, t.n, I)
             /\ TurnedSons(n, t.n, I, x, y, d, xd) /\ TurnedReds(n, t.n, I, x, y)
<1>1. n[y][d] \in I \cup {Nil} /\ Son(n, y, d) = n[y][d]
  BY SonOf DEF Son, Room
<1>2. PICK mid : mid = n[y][d]
  OBVIOUS
<1>3. PICK n1 : n1 = SetSon(n, x, xd, mid)
  OBVIOUS
<1>4. Typed(n1, I) /\ SonSet(n, n1, I, x, xd, mid) /\ SameData(n, n1, I) /\ SameReds(n, n1, I)
  BY <1>1, <1>2, <1>3, SetSonEffect
<1>5. PICK n2 : n2 = SetSon(n1, y, d, x)
  OBVIOUS
<1>6. Typed(n2, I) /\ SonSet(n1, n2, I, y, d, x) /\ SameData(n1, n2, I) /\ SameReds(n1, n2, I)
  BY <1>4, <1>5, SetSonEffect
<1>7. PICK n3 : n3 = SetRed(n2, x, TRUE)
  OBVIOUS
<1>8. PICK tt \in BOOLEAN : tt = TRUE
  OBVIOUS
<1>9. Typed(n3, I) /\ RedSet(n2, n3, I, x, tt) /\ SameData(n2, n3, I) /\ SameSons(n2, n3, I)
  <2>1. n3 = SetRed(n2, x, tt) /\ x \in I \cup {Aux, Nil}
    BY <1>7, <1>8
  <2>. QED
    BY <1>6, <2>1, SetRedEffect
<1>10. PICK n4 : n4 = SetRed(n3, y, FALSE)
  OBVIOUS
<1>11. PICK ff \in BOOLEAN : ff = FALSE
  OBVIOUS
<1>12. Typed(n4, I) /\ RedSet(n3, n4, I, y, ff) /\ SameData(n3, n4, I) /\ SameSons(n3, n4, I)
  <2>1. n4 = SetRed(n3, y, ff) /\ y \in I \cup {Aux, Nil}
    BY <1>10, <1>11
  <2>. QED
    BY <1>9, <2>1, SetRedEffect
<1>13. Rot1(n, x, d, xd) = [top |-> y, n |-> n4]
  BY <1>1, <1>2, <1>3, <1>5, <1>7, <1>10 DEF Rot1
<1>14. SameData(n, n4, I)
  BY <1>4, <1>6, <1>9, <1>12 DEF SameData
<1>15. TurnedSons(n, n4, I, x, y, d, xd)
  BY <1>2, <1>4, <1>6, <1>9, <1>12 DEF SonSet, SameSons, TurnedSons
<1>16. TurnedReds(n, n4, I, x, y)
  <2>1. SUFFICES ASSUME NEW i \in I \cup {Aux}
                 PROVE  n4[i].red = IF i = y THEN FALSE ELSE IF i = x THEN TRUE ELSE n[i].red
    BY DEF TurnedReds
  <2>2. n2[i].red = n[i].red
    BY <1>4, <1>6 DEF SameReds
  <2>3. n3[i].red = IF i = x THEN tt ELSE n2[i].red
    BY <1>9 DEF RedSet
  <2>4. n4[i].red = IF i = y THEN ff ELSE n3[i].red
    BY <1>12 DEF RedSet
  <2>. QED
    BY <2>2, <2>3, <2>4, <1>8, <1>11, Zenon
<1>. QED
  BY <1>12, <1>13, <1>14, <1>15, <1>16

----------------------------------------------------------------------------
(* Search trees: the shape of a tree, and what a rotation does to it.      *)

\* k is on side d of key a.
Before(d, k, a) == IF d = "l" THEN k < a ELSE a < k

LEMMA BeforeOrder ==
  ASSUME NEW d \in Dir, NEW a \in Int
  PROVE  /\ ~Before(d, a, a)
         /\ \A b, c \in Int : Before(d, a, b) /\ Before(d, b, c) => Before(d, a, c)
         /\ \A b \in Int, e \in Dir : e # d => (Before(e, a, b) <=> Before(d, b, a))
         /\ \A b \in Int : a # b => Before(d, a, b) \/ Before(d, b, a)
BY DEF Dir, Before

\* A tree of the indexes I below rt: R[i] is a set of keys that the keys below
\* i, and that of i, are taken from; P[i] is the parent of i.
Shape(n, rt, I, R, P) ==
  /\ rt \in I
  /\ R \in [I -> SUBSET Int]
  /\ P \in [I -> I \cup {Nil}]
  /\ P[rt] = Nil
  /\ \A i \in I : n[i].key \in R[i]
  /\ \A i \in I, d \in Dir : n[i][d] # Nil =>
       /\ P[n[i][d]] = i
       /\ R[n[i][d]] \subseteq R[i]
       /\ \A k \in R[n[i][d]] : Before(d, k, n[i].key)
  /\ \A j \in I : j # rt => P[j] \in I /\ \E d \in Dir : n[P[j]][d] = j

LEMMA Link1 ==
  ASSUME NEW I, Room(I), NEW n, Typed(n, I), NEW rt, NEW R, NEW P, Shape(n, rt, I, R, P),
         NEW i \in I, NEW d \in Dir, NEW j, j = n[i][d], j # Nil
  PROVE  /\ j \in I /\ j # i /\ j # rt /\ P[j] = i
         /\ R[j] \subseteq R[i] /\ n[j].key \in R[j] /\ n[j].key \in R[i]
         /\ \A k \in R[j] : k \in Int /\ Before(d, k, n[i].key)
         /\ P[i] # j
         /\ n[i][Other(d)] # j
<1>1. j \in I
  BY SonOf
<1>2. /\ P[j] = i /\ R[j] \subseteq R[i] /\ n[j].key \in R[j]
      /\ \A k \in R[j] : Before(d, k, n[i].key)
  BY <1>1 DEF Shape
<1>3. R[j] \subseteq Int /\ n[i].key \in Int /\ n[j].key \in Int /\ n[i].key \in R[i]
  BY <1>1, KeyOf DEF Shape
<1>4. j # rt
  BY <1>2 DEF Shape, Room
<1>5. j # i
  BY <1>2, <1>3, BeforeOrder
<1>6. P[i] # j
  <2>1. SUFFICES ASSUME P[i] = j PROVE FALSE
    OBVIOUS
  <2>2. i # rt
    BY <1>1, <2>1 DEF Shape, Room
  <2>3. PICK e \in Dir : n[j][e] = i
    BY <2>1, <2>2 DEF Shape
  <2>4. R[i] \subseteq R[j]
    BY <1>1, <2>3 DEF Shape, Room
  <2>. QED
    BY <1>2, <1>3, <2>4, BeforeOrder
<1>7. n[i][Other(d)] # j
  <2>1. SUFFICES ASSUME n[i][Other(d)] = j PROVE FALSE
    OBVIOUS
  <2>2. Before(Other(d), n[j].key, n[i].key)
    BY <1>1, <1>2, <2>1, Sides DEF Shape
  <2>3. Before(d, n[j].key, n[i].key)
    BY <1>2
  <2>4. Before(d, n[i].key, n[j].key)
    BY <2>2, <1>3, Sides, BeforeOrder
  <2>. QED
    BY <2>3, <2>4, <1>3, BeforeOrder
<1>. QED
  BY <1>1, <1>2, <1>3, <1>4, <1>5, <1>6, <1>7

\* A rotation of x under its son y on side xd, with the link to x.
Turned(n, m, I, x, y, d, xd) ==
  \A i \in I, e \in Dir :
    m[i][e] = IF i = x /\ e = xd THEN n[y][d]
              ELSE IF i = y /\ e = d THEN x
              ELSE IF n[i][e] = x THEN y ELSE n[i][e]

TurnedRange(n, R, x, y, d) ==
  [i \in DOMAIN R |-> IF i = y THEN R[x]
                      ELSE IF i = x THEN {k \in R[x] : Before(d, k, n[y].key)}
                      ELSE R[i]]
TurnedUp(n, P, x, y, d) ==
  [j \in DOMAIN P |-> IF j = y THEN P[x] ELSE IF j = x THEN y
                      ELSE IF j = n[y][d] THEN x ELSE P[j]]

LEMMA TurnShape ==
  ASSUME NEW I, Room(I), NEW n, Typed(n, I), NEW m, Typed(m, I), SameData(n, m, I),
         NEW rt, NEW R, NEW P, Shape(n, rt, I, R, P),
         NEW x \in I, NEW d \in Dir, NEW xd \in Dir, xd # d, NEW y, y = n[x][xd], y # Nil,
         Turned(n, m, I, x, y, d, xd), NEW rt2, rt2 = IF x = rt THEN y ELSE rt,
         NEW R2, R2 = TurnedRange(n, R, x, y, d), NEW P2, P2 = TurnedUp(n, P, x, y, d)
  PROVE  Shape(m, rt2, I, R2, P2)
<1>0. Nil \notin I /\ x # Nil
  BY DEF Room
<1>1. /\ y \in I /\ y # x /\ y # rt /\ P[y] = x /\ P[x] # y
      /\ R[y] \subseteq R[x] /\ n[y].key \in R[y] /\ n[y].key \in R[x]
      /\ \A k \in R[y] : k \in Int /\ Before(xd, k, n[x].key)
      /\ n[x][d] # y
  <2>1. d = Other(xd)
    BY Sides
  <2>. QED
    BY <2>1, Link1
<1>2. PICK mid : mid = n[y][d]
  OBVIOUS
<1>3. /\ mid \in I \cup {Nil} /\ mid # x
      /\ mid # Nil => /\ mid # y /\ mid # rt /\ P[mid] = y
                      /\ R[mid] \subseteq R[y]
                      /\ \A k \in R[mid] : k \in Int /\ Before(d, k, n[y].key)
  <2>1. mid \in I \cup {Nil}
    BY <1>1, <1>2, SonOf
  <2>2. mid # x
    BY <1>0, <1>1, <1>2, Link1
  <2>3. mid # Nil => /\ mid # y /\ mid # rt /\ P[mid] = y
                     /\ R[mid] \subseteq R[y]
                     /\ \A k \in R[mid] : k \in Int /\ Before(d, k, n[y].key)
    BY <1>1, <1>2, Link1
  <2>. QED
    BY <2>1, <2>2, <2>3
<1>4. /\ \A i \in I : n[i].key \in Int /\ m[i].key = n[i].key
      /\ \A i \in I : R[i] \subseteq Int /\ n[i].key \in R[i]
  BY KeyOf DEF SameData, Shape
<1>5. /\ R2 \in [I -> SUBSET Int]
      /\ \A i \in I : R2[i] = IF i = y THEN R[x]
                              ELSE IF i = x THEN {k \in R[x] : Before(d, k, n[y].key)}
                              ELSE R[i]
  BY <1>4 DEF TurnedRange, Shape
<1>6. /\ P2 \in [I -> I \cup {Nil}]
      /\ \A j \in I : P2[j] = IF j = y THEN P[x] ELSE IF j = x THEN y
                              ELSE IF j = mid THEN x ELSE P[j]
  BY <1>1, <1>2 DEF TurnedUp, Shape
<1>7. P2[rt2] = Nil /\ rt2 \in I
  BY <1>0, <1>1, <1>3, <1>6 DEF Shape
<1>8. Before(d, n[x].key, n[y].key)
  BY <1>1, <1>4, BeforeOrder
<1>9. \A i \in I : m[i].key \in R2[i]
  BY <1>1, <1>4, <1>5, <1>8, ZenonT(60)
<1>10. ASSUME NEW i \in I, NEW e \in Dir, m[i][e] # Nil
       PROVE  /\ P2[m[i][e]] = i
              /\ R2[m[i][e]] \subseteq R2[i]
              /\ \A k \in R2[m[i][e]] : Before(e, k, m[i].key)
  <2>1. CASE i = x /\ e = xd
    <3>1. m[i][e] = mid
      BY <2>1, <1>2 DEF Turned
    <3>2. mid # Nil /\ P2[mid] = x /\ R2[mid] = R[mid]
      BY <3>1, <1>10, <1>3, <1>5, <1>6
    <3>3. R[mid] \subseteq R2[x]
      BY <3>2, <1>1, <1>3, <1>5
    <3>4. \A k \in R[mid] : Before(xd, k, n[x].key)
      BY <3>2, <1>1, <1>3
    <3>. QED
      BY <2>1, <3>1, <3>2, <3>3, <3>4, <1>4
  <2>2. CASE i = y /\ e = d
    <3>1. m[i][e] = x
      BY <2>2, <1>1 DEF Turned
    <3>2. P2[x] = y /\ R2[x] \subseteq R2[y] /\ \A k \in R2[x] : Before(d, k, n[y].key)
      BY <1>1, <1>5, <1>6, ZenonT(60)
    <3>. QED
      BY <2>2, <3>1, <3>2, <1>1, <1>4
  <2>3. CASE n[i][e] = x /\ ~(i = x /\ e = xd) /\ ~(i = y /\ e = d)
    <3>1. m[i][e] = y
      BY <2>3 DEF Turned
    <3>2. /\ P[x] = i /\ x # i /\ R[x] \subseteq R[i]
          /\ \A k \in R[x] : Before(e, k, n[i].key)
      <4>1. PICK j : j = n[i][e]
        OBVIOUS
      <4>2. j = x
        BY <4>1, <2>3
      <4>3. j # Nil
        BY <4>2, <1>0
      <4>4. /\ j \in I /\ P[j] = i /\ j # i /\ R[j] \subseteq R[i]
            /\ \A k \in R[j] : k \in Int /\ Before(e, k, n[i].key)
        BY <4>1, <4>3, Link1
      <4>. QED
        BY <4>2, <4>4
    <3>3. i # y
      BY <3>2, <1>1
    <3>. QED
      BY <3>1, <3>2, <3>3, <1>1, <1>4, <1>5, <1>6
  <2>4. CASE n[i][e] # x /\ ~(i = x /\ e = xd) /\ ~(i = y /\ e = d)
    <3>1. PICK j : j = n[i][e]
      OBVIOUS
    <3>2. m[i][e] = j /\ j # Nil /\ j # x
      BY <2>4, <3>1, <1>10 DEF Turned
    <3>3. /\ j \in I /\ P[j] = i /\ R[j] \subseteq R[i]
          /\ \A k \in R[j] : k \in Int /\ Before(e, k, n[i].key)
      BY <3>1, <3>2, Link1
    <3>4. j # y
      <4>1. SUFFICES ASSUME j = y PROVE FALSE
        OBVIOUS
      <4>2. i = x /\ e = d
        BY <4>1, <3>3, <1>1, <2>4, Sides
      <4>. QED
        BY <4>1, <4>2, <3>1, <1>1
    <3>5. j # mid
      <4>1. SUFFICES ASSUME j = mid PROVE FALSE
        OBVIOUS
      <4>2. i = y /\ e = xd
        BY <4>1, <3>2, <3>3, <1>3, <2>4, Sides
      <4>3. n[y][Other(xd)] # j
        BY <4>2, <3>1, <3>2, <1>1, Link1
      <4>4. Other(xd) = d
        BY Sides
      <4>. QED
        BY <4>1, <4>3, <4>4, <1>2
    <3>6. P2[j] = i /\ R2[j] = R[j]
      BY <3>2, <3>3, <3>4, <3>5, <1>5, <1>6
    <3>7. R[j] \subseteq R2[i]
      <4>1. CASE i = x
        <5>1. e = d
          BY <4>1, <2>4, Sides
        <5>2. ASSUME NEW k \in R[j] PROVE k \in R[x] /\ Before(d, k, n[y].key)
          BY <5>1, <4>1, <3>3, <1>4, <1>8, <1>1, BeforeOrder
        <5>. QED
          BY <4>1, <5>2, <1>1, <1>5
      <4>2. CASE i = y
        BY <4>2, <3>3, <1>1, <1>5
      <4>3. CASE i # x /\ i # y
        BY <4>3, <3>3, <1>5
      <4>. QED
        BY <4>1, <4>2, <4>3
    <3>. QED
      BY <3>2, <3>3, <3>6, <3>7, <1>4
  <2>. QED
    BY <2>1, <2>2, <2>3, <2>4
<1>11. ASSUME NEW j \in I, j # rt2 PROVE P2[j] \in I /\ \E e \in Dir : m[P2[j]][e] = j
  <2>1. CASE j = y
    <3>1. x # rt /\ P2[y] = P[x]
      BY <2>1, <1>11, <1>6, <1>1
    <3>2. P[x] \in I /\ \E e \in Dir : n[P[x]][e] = x
      BY <3>1 DEF Shape
    <3>3. PICK e \in Dir : n[P[x]][e] = x
      BY <3>2
    <3>4. P[x] # x /\ P[x] # y
      BY <3>2, <3>3, <1>0, Link1
    <3>5. m[P[x]][e] = y
      BY <3>2, <3>3, <3>4 DEF Turned
    <3>. QED
      BY <2>1, <3>1, <3>2, <3>5
  <2>2. CASE j = x
    <3>1. P2[x] = y
      BY <1>6, <1>1
    <3>2. m[y][d] = x
      BY <1>1 DEF Turned
    <3>. QED
      BY <2>2, <3>1, <3>2, <1>1
  <2>3. CASE j # x /\ j # y /\ j = mid
    <3>1. P2[j] = x
      BY <1>6, <2>3
    <3>2. m[x][xd] = j
      BY <1>2, <2>3 DEF Turned
    <3>. QED
      BY <3>1, <3>2
  <2>4. CASE j # x /\ j # y /\ j # mid
    <3>0. j # rt
      BY <2>4, <1>11
    <3>1. P2[j] = P[j] /\ P[j] \in I
      BY <2>4, <3>0, <1>6 DEF Shape
    <3>2. PICK e \in Dir : n[P[j]][e] = j
      BY <3>0 DEF Shape
    <3>3. ~(P[j] = x /\ e = xd) /\ ~(P[j] = y /\ e = d)
      BY <2>4, <3>2, <1>2
    <3>4. m[P[j]][e] = j
      BY <3>1, <3>2, <3>3, <2>4 DEF Turned
    <3>. QED
      BY <3>1, <3>4
  <2>. QED
    BY <2>1, <2>2, <2>3, <2>4
<1>. QED
  BY <1>5, <1>6, <1>7, <1>9, <1>10, <1>11 DEF Shape

\* What a link says.
Linked(n, I, rt, R, P, i, d) ==
  LET j == n[i][d]
  IN  /\ j \in I /\ j # i /\ j # rt /\ P[j] = i
      /\ R[j] \subseteq R[i] /\ n[j].key \in R[j] /\ n[j].key \in R[i]
      /\ \A k \in R[j] : k \in Int /\ Before(d, k, n[i].key)
      /\ P[i] # j
      /\ n[i][Other(d)] # j
Links(n, I, rt, R, P) ==
  \A i \in I, d \in Dir : n[i][d] # Nil => Linked(n, I, rt, R, P, i, d)

LEMMA AllLinks ==
  ASSUME NEW I, Room(I), NEW n, Typed(n, I), NEW rt, NEW R, NEW P, Shape(n, rt, I, R, P)
  PROVE  Links(n, I, rt, R, P)
<1>1. SUFFICES ASSUME NEW i \in I, NEW d \in Dir, n[i][d] # Nil
               PROVE  Linked(n, I, rt, R, P, i, d)
  BY DEF Links
<1>2. PICK j : j = n[i][d]
  OBVIOUS
<1>3. j # Nil
  BY <1>1, <1>2
<1>4. /\ j \in I /\ j # i /\ j # rt /\ P[j] = i
      /\ R[j] \subseteq R[i] /\ n[j].key \in R[j] /\ n[j].key \in R[i]
      /\ \A k \in R[j] : k \in Int /\ Before(d, k, n[i].key)
      /\ P[i] # j
      /\ n[i][Other(d)] # j
  BY <1>2, <1>3, Link1
<1>. QED
  BY <1>2, <1>4 DEF Linked

\* Colours play no part in the shape.
LEMMA SameShape ==
  ASSUME NEW I, NEW n, NEW m, SameData(n, m, I), SameSons(n, m, I),
         NEW rt, NEW R, NEW P, Shape(n, rt, I, R, P)
  PROVE  Shape(m, rt, I, R, P)
<1>1. /\ \A i \in I : m[i].key = n[i].key
      /\ \A i \in I, d \in Dir : m[i][d] = n[i][d]
  BY DEF SameData, SameSons
<1>2. \A j \in I : j # rt => P[j] \in I /\ \E d \in Dir : m[P[j]][d] = j
  BY <1>1 DEF Shape
<1>3. \A i \in I : m[i].key \in R[i]
  BY <1>1 DEF Shape
<1>4. ASSUME NEW i \in I, NEW d \in Dir, m[i][d] # Nil
      PROVE  /\ P[m[i][d]] = i
             /\ R[m[i][d]] \subseteq R[i]
             /\ \A k \in R[m[i][d]] : Before(d, k, m[i].key)
  <2>1. PICK j, a : j = n[i][d] /\ a = n[i].key
    OBVIOUS
  <2>2. m[i][d] = j /\ m[i].key = a /\ j # Nil
    BY <1>1, <1>4, <2>1
  <2>3. P[j] = i /\ R[j] \subseteq R[i] /\ \A k \in R[j] : Before(d, k, a)
    BY <2>1, <2>2 DEF Shape
  <2>. QED
    BY <2>2, <2>3
<1>5. rt \in I /\ R \in [I -> SUBSET Int] /\ P \in [I -> I \cup {Nil}] /\ P[rt] = Nil
  BY DEF Shape
<1>. QED
  BY <1>2, <1>3, <1>4, <1>5 DEF Shape

\* The ranges may be widened, to all that fits below the parent's key.
Widened(n, R, R2, i, d) ==
  R2 = [R EXCEPT ![n[i][d]] = {k \in R[i] : Before(d, k, n[i].key)}]

LEMMA Widen ==
  ASSUME NEW I, Room(I), NEW n, Typed(n, I), NEW rt, NEW R, NEW P, Shape(n, rt, I, R, P),
         NEW i \in I, NEW d \in Dir, NEW j, j = n[i][d], j # Nil,
         NEW R2, Widened(n, R, R2, i, d)
  PROVE  /\ Shape(n, rt, I, R2, P) /\ R2[i] = R[i]
         /\ \A k \in R[i] : Before(d, k, n[i].key) => k \in R2[j]
         /\ \A k \in R2[j] : k \in R[i] /\ Before(d, k, n[i].key)
<1>S. PICK S : S = {k \in R[i] : Before(d, k, n[i].key)}
  OBVIOUS
<1>R. R2 = [R EXCEPT ![j] = S]
  BY <1>S DEF Widened
<1>L. Links(n, I, rt, R, P)
  BY AllLinks
<1>1. /\ j \in I /\ j # i /\ j # rt /\ P[j] = i
      /\ R[j] \subseteq R[i]
      /\ \A k \in R[j] : k \in Int /\ Before(d, k, n[i].key)
      /\ n[i][Other(d)] # j
  BY Link1
<1>2. S \subseteq Int /\ S \subseteq R[i] /\ R[j] \subseteq S /\ \A k \in S : Before(d, k, n[i].key)
  BY <1>1, <1>S DEF Shape
<1>3. /\ R2 \in [I -> SUBSET Int]
      /\ \A a \in I : R2[a] = IF a = j THEN S ELSE R[a]
  BY <1>1, <1>2, <1>R DEF Shape
<1>4. \A a \in I : n[a].key \in R2[a]
  BY <1>2, <1>3 DEF Shape
<1>5. ASSUME NEW a \in I, NEW e \in Dir, n[a][e] # Nil
      PROVE  /\ P[n[a][e]] = a
             /\ R2[n[a][e]] \subseteq R2[a]
             /\ \A k \in R2[n[a][e]] : Before(e, k, n[a].key)
  <2>1. PICK b : b = n[a][e]
    OBVIOUS
  <2>2. /\ b \in I /\ b # a /\ P[b] = a /\ R[b] \subseteq R[a]
        /\ \A k \in R[b] : Before(e, k, n[a].key)
    BY <2>1, <1>5, <1>L DEF Links, Linked
  <2>3. CASE b = j
    <3>1. a = i /\ e = d
      BY <2>1, <2>2, <2>3, <1>1, Sides
    <3>. QED
      BY <3>1, <2>1, <2>2, <2>3, <1>1, <1>2, <1>3
  <2>4. CASE b # j
    BY <2>1, <2>2, <2>4, <1>2, <1>3
  <2>. QED
    BY <2>3, <2>4
<1>6. Shape(n, rt, I, R2, P)
  BY <1>3, <1>4, <1>5 DEF Shape
<1>. QED
  BY <1>1, <1>3, <1>6, <1>S

LEMMA WidenRoot ==
  ASSUME NEW I, Room(I), NEW n, Typed(n, I), NEW rt, NEW R, NEW P, Shape(n, rt, I, R, P),
         NEW R2, R2 = [R EXCEPT ![rt] = Int]
  PROVE  Shape(n, rt, I, R2, P) /\ R2[rt] = Int
<1>1. /\ R2 \in [I -> SUBSET Int]
      /\ \A a \in I : R2[a] = IF a = rt THEN Int ELSE R[a]
  BY DEF Shape
<1>2. \A a \in I : n[a].key \in R2[a]
  BY <1>1, KeyOf DEF Shape
<1>3. ASSUME NEW a \in I, NEW e \in Dir, n[a][e] # Nil
      PROVE  /\ P[n[a][e]] = a
             /\ R2[n[a][e]] \subseteq R2[a]
             /\ \A k \in R2[n[a][e]] : Before(e, k, n[a].key)
  <2>1. PICK b : b = n[a][e]
    OBVIOUS
  <2>2. /\ b \in I /\ b # rt /\ P[b] = a /\ R[b] \subseteq R[a]
        /\ \A k \in R[b] : k \in Int /\ Before(e, k, n[a].key)
    BY <2>1, <1>3, Link1
  <2>. QED
    BY <2>1, <2>2, <1>1
<1>. QED
  BY <1>1, <1>2, <1>3 DEF Shape

\* A new leaf s under p, with a key from the range of p.
NewLeaf(n, m, I, s, p, d) ==
  /\ \A i \in I : m[i].key = n[i].key
  /\ \A i \in I, e \in Dir : m[i][e] = IF i = p /\ e = d THEN s ELSE n[i][e]
  /\ \A e \in Dir : m[s][e] = Nil
ParentsIn(P2, P, I) == \A i \in I : P2[i] = P[i]

LEMMA AddLeaf ==
  ASSUME NEW I, Room(I), NEW n, Typed(n, I), NEW rt, NEW R, NEW P, Shape(n, rt, I, R, P),
         NEW s, s \notin I, s # Nil, NEW J, J = I \cup {s}, NEW m,
         NEW p \in I, NEW d \in Dir, n[p][d] = Nil,
         NewLeaf(n, m, I, s, p, d),
         m[s].key \in R[p], Before(d, m[s].key, n[p].key)
  PROVE  \E R2, P2 : Shape(m, rt, J, R2, P2) /\ ParentsIn(P2, P, I) /\ P2[s] = p
<1>L. Links(n, I, rt, R, P)
  BY AllLinks
<1>M. /\ \A i \in I : m[i].key = n[i].key
      /\ \A i \in I, e \in Dir : m[i][e] = IF i = p /\ e = d THEN s ELSE n[i][e]
      /\ \A e \in Dir : m[s][e] = Nil
  BY DEF NewLeaf
<1>S. PICK S : S = {k \in R[p] : Before(d, k, n[p].key)}
  OBVIOUS
<1>R. PICK R2 : R2 = [i \in J |-> IF i = s THEN S ELSE R[i]]
  OBVIOUS
<1>P. PICK P2 : P2 = [i \in J |-> IF i = s THEN p ELSE P[i]]
  OBVIOUS
<1>1. rt \in I /\ \A i \in I : R[i] \subseteq Int /\ n[i].key \in R[i] /\ P[i] \in I \cup {Nil}
  BY DEF Shape
<1>2. /\ R2 \in [J -> SUBSET Int] /\ P2 \in [J -> J \cup {Nil}]
      /\ \A i \in I : R2[i] = R[i] /\ P2[i] = P[i]
      /\ R2[s] = S /\ P2[s] = p
  BY <1>1, <1>S, <1>R, <1>P
<1>3. \A i \in J : m[i].key \in R2[i]
  BY <1>1, <1>2, <1>M, <1>S
<1>4. ASSUME NEW i \in J, NEW e \in Dir, m[i][e] # Nil
      PROVE  /\ P2[m[i][e]] = i
             /\ R2[m[i][e]] \subseteq R2[i]
             /\ \A k \in R2[m[i][e]] : Before(e, k, m[i].key)
  <2>1. i \in I
    BY <1>4, <1>M
  <2>2. CASE i = p /\ e = d
    BY <2>1, <2>2, <1>2, <1>M, <1>S
  <2>3. CASE ~(i = p /\ e = d)
    <3>1. PICK j : j = n[i][e]
      OBVIOUS
    <3>2. m[i][e] = j /\ j # Nil
      BY <2>1, <2>3, <3>1, <1>4, <1>M
    <3>3. /\ j \in I /\ P[j] = i /\ R[j] \subseteq R[i]
          /\ \A k \in R[j] : Before(e, k, n[i].key)
      BY <2>1, <3>1, <3>2, <1>L DEF Links, Linked
    <3>. QED
      BY <2>1, <3>2, <3>3, <1>2, <1>M
  <2>. QED
    BY <2>2, <2>3
<1>5. ASSUME NEW j \in J, j # rt PROVE P2[j] \in J /\ \E e \in Dir : m[P2[j]][e] = j
  <2>1. CASE j = s
    BY <2>1, <1>2, <1>M
  <2>2. CASE j \in I
    <3>1. P[j] \in I
      BY <2>2, <1>5 DEF Shape
    <3>2. PICK e \in Dir : n[P[j]][e] = j
      BY <2>2, <1>5 DEF Shape
    <3>3. ~(P[j] = p /\ e = d)
      BY <3>2, <2>2 DEF Room
    <3>4. m[P[j]][e] = j
      BY <3>1, <3>2, <3>3, <1>M
    <3>. QED
      BY <3>1, <3>4, <2>2, <1>2
  <2>. QED
    BY <2>1, <2>2
<1>6. rt \in J /\ P2[rt] = Nil
  BY <1>1, <1>2 DEF Shape
<1>7. Shape(m, rt, J, R2, P2)
  BY <1>2, <1>3, <1>4, <1>5, <1>6 DEF Shape
<1>8. ParentsIn(P2, P, I)
  BY <1>2 DEF ParentsIn
<1>. QED
  BY <1>2, <1>7, <1>8

\* A leaf c is unlinked.
LEMMA DropLeaf ==
  ASSUME NEW I, Room(I), NEW n, Typed(n, I), NEW rt, NEW R, NEW P, Shape(n, rt, I, R, P),
         NEW c \in I, c # rt, \A e \in Dir : n[c][e] = Nil,
         NEW J, J = I \ {c}, NEW m,
         \A i \in J : m[i].key = n[i].key,
         \A i \in J, e \in Dir : m[i][e] = IF n[i][e] = c THEN Nil ELSE n[i][e],
         NEW R2, R2 = [i \in J |-> R[i]], NEW P2, P2 = [i \in J |-> P[i]]
  PROVE  Shape(m, rt, J, R2, P2)
<1>L. Links(n, I, rt, R, P)
  BY AllLinks
<1>0. \A i \in I : P[i] # c
  <2>1. SUFFICES ASSUME NEW i \in I, P[i] = c PROVE FALSE
    OBVIOUS
  <2>2. i # rt
    BY <2>1 DEF Shape, Room
  <2>3. PICK e \in Dir : n[c][e] = i
    BY <2>1, <2>2 DEF Shape
  <2>. QED
    BY <2>3 DEF Room
<1>1. rt \in J /\ \A i \in I : R[i] \subseteq Int /\ n[i].key \in R[i] /\ P[i] \in I \cup {Nil}
  BY DEF Shape
<1>2. /\ R2 \in [J -> SUBSET Int] /\ P2 \in [J -> J \cup {Nil}]
      /\ \A i \in J : R2[i] = R[i] /\ P2[i] = P[i]
  BY <1>0, <1>1
<1>3. \A i \in J : m[i].key \in R2[i]
  BY <1>1, <1>2
<1>4. ASSUME NEW i \in J, NEW e \in Dir, m[i][e] # Nil
      PROVE  /\ P2[m[i][e]] = i
             /\ R2[m[i][e]] \subseteq R2[i]
             /\ \A k \in R2[m[i][e]] : Before(e, k, m[i].key)
  <2>1. PICK j : j = n[i][e]
    OBVIOUS
  <2>2. m[i][e] = j /\ j # Nil /\ j # c
    BY <2>1, <1>4
  <2>3. i \in I
    OBVIOUS
  <2>4. /\ j \in I /\ P[j] = i /\ R[j] \subseteq R[i]
        /\ \A k \in R[j] : Before(e, k, n[i].key)
    BY <2>1, <2>2, <2>3, <1>L DEF Links, Linked
  <2>. QED
    BY <2>2, <2>4, <1>2
<1>5. ASSUME NEW j \in J, j # rt PROVE P2[j] \in J /\ \E e \in Dir : m[P2[j]][e] = j
  <2>1. P[j] \in J
    BY <1>5, <1>0 DEF Shape
  <2>2. PICK e \in Dir : n[P[j]][e] = j
    BY <1>5 DEF Shape
  <2>3. m[P[j]][e] = j
    BY <2>1, <2>2
  <2>. QED
    BY <2>1, <2>3, <1>2
<1>6. P2[rt] = Nil
  BY <1>1, <1>2 DEF Shape
<1>. QED
  BY <1>1, <1>2, <1>3, <1>4, <1>5, <1>6 DEF Shape

\* The key of f goes down to q, past no other key.
LEMMA KeyDown ==
  ASSUME NEW I, Room(I), NEW n, Typed(n, I), NEW rt, NEW R, NEW P, Shape(n, rt, I, R, P),
         NEW f \in I, NEW K, K = n[f].key, NEW q \in R[f], q < K,
         \A i \in I : n[i].key < q \/ n[i].key > K \/ i = f, NEW m,
         \A i \in I : m[i].key = IF i = f THEN q ELSE n[i].key,
         \A i \in I, e \in Dir : m[i][e] = n[i][e],
         NEW R2, R2 = [i \in I |-> IF K \in R[i] THEN R[i] ELSE {k \in R[i] : k < q \/ K < k}]
  PROVE  Shape(m, rt, I, R2, P)
<1>L. Links(n, I, rt, R, P)
  BY AllLinks
<1>1. K \in Int /\ q \in Int /\ \A i \in I : R[i] \subseteq Int /\ n[i].key \in R[i] /\ n[i].key \in Int
  BY KeyOf DEF Shape
<1>2. /\ R2 \in [I -> SUBSET Int]
      /\ \A i \in I : R2[i] = IF K \in R[i] THEN R[i] ELSE {k \in R[i] : k < q \/ K < k}
  BY <1>1
<1>3. \A i \in I : m[i].key \in R2[i]
  BY <1>1, <1>2
<1>4. ASSUME NEW i \in I, NEW e \in Dir, m[i][e] # Nil
      PROVE  /\ P[m[i][e]] = i
             /\ R2[m[i][e]] \subseteq R2[i]
             /\ \A k \in R2[m[i][e]] : Before(e, k, m[i].key)
  <2>1. PICK j : j = n[i][e]
    OBVIOUS
  <2>2. m[i][e] = j /\ j # Nil
    BY <2>1, <1>4
  <2>4. /\ j \in I /\ P[j] = i /\ R[j] \subseteq R[i]
        /\ \A k \in R[j] : Before(e, k, n[i].key)
    BY <2>1, <2>2, <1>L DEF Links, Linked
  <2>5. R2[j] \subseteq R2[i] /\ R2[j] \subseteq R[j]
    BY <2>4, <1>2
  <2>6. CASE i = f
    <3>1. K \notin R[j]
      BY <2>4, <2>6, <1>1, BeforeOrder
    <3>2. \A k \in R2[j] : k \in Int /\ (k < q \/ K < k) /\ Before(e, k, K)
      BY <3>1, <2>4, <2>6, <1>1, <1>2
    <3>3. ASSUME NEW k \in R2[j] PROVE Before(e, k, q)
      <4>1. k \in Int /\ (k < q \/ K < k) /\ Before(e, k, K)
        BY <3>2
      <4>. QED
        BY <4>1, <1>1 DEF Before, Dir
    <3>. QED
      BY <2>2, <2>4, <2>5, <2>6, <3>3
  <2>7. CASE i # f
    BY <2>2, <2>4, <2>5, <2>7
  <2>. QED
    BY <2>6, <2>7
<1>5. ASSUME NEW j \in I, j # rt PROVE P[j] \in I /\ \E e \in Dir : m[P[j]][e] = j
  BY <1>5 DEF Shape
<1>. QED
  BY <1>2, <1>3, <1>4, <1>5 DEF Shape

\* The node at l moves to a free index c.
NodeMoved(n, m, I, l, c) ==
  /\ \A i \in I : i # l => m[i].key = n[i].key
  /\ \A i \in I, e \in Dir : i # l => m[i][e] = IF n[i][e] = l THEN c ELSE n[i][e]
  /\ m[c].key = n[l].key /\ \A e \in Dir : m[c][e] = n[l][e]

LEMMA MoveNode ==
  ASSUME NEW I, Room(I), NEW n, Typed(n, I), NEW rt, NEW R, NEW P, Shape(n, rt, I, R, P),
         NEW l \in I, NEW c, c \notin I, c # Nil, NEW J, J = (I \ {l}) \cup {c},
         NEW m, NodeMoved(n, m, I, l, c), NEW rt2, rt2 = IF rt = l THEN c ELSE rt
  PROVE  \E R2, P2 : Shape(m, rt2, J, R2, P2)
<1>M. /\ \A i \in I : i # l => m[i].key = n[i].key
      /\ \A i \in I, e \in Dir : i # l => m[i][e] = IF n[i][e] = l THEN c ELSE n[i][e]
      /\ m[c].key = n[l].key /\ \A e \in Dir : m[c][e] = n[l][e]
  BY DEF NodeMoved
<1>R. PICK R2, P2 :
        /\ R2 = [i \in J |-> IF i = c THEN R[l] ELSE R[i]]
        /\ P2 = [i \in J |-> IF i = c THEN P[l] ELSE IF P[i] = l THEN c ELSE P[i]]
  OBVIOUS
<1>. USE <1>M, <1>R
<1>L. Links(n, I, rt, R, P)
  BY AllLinks
<1>1. /\ l # Nil /\ P[l] # l
      /\ \A i \in I : R[i] \subseteq Int /\ n[i].key \in R[i] /\ P[i] \in I \cup {Nil}
      /\ \A e \in Dir : n[l][e] # l
  <2>1. l # Nil
    BY DEF Room
  <2>2. \A e \in Dir : n[l][e] # l
    BY <2>1, Link1
  <2>3. P[l] # l
    BY <2>2, <2>1 DEF Shape
  <2>. QED
    BY <2>1, <2>2, <2>3 DEF Shape
<1>2. /\ R2 \in [J -> SUBSET Int] /\ P2 \in [J -> J \cup {Nil}]
      /\ \A i \in I : i # l => R2[i] = R[i] /\ P2[i] = IF P[i] = l THEN c ELSE P[i]
      /\ R2[c] = R[l] /\ P2[c] = P[l]
  BY <1>1
<1>3. \A i \in J : m[i].key \in R2[i]
  BY <1>1, <1>2
<1>4. ASSUME NEW i \in J, NEW e \in Dir, m[i][e] # Nil
      PROVE  /\ P2[m[i][e]] = i
             /\ R2[m[i][e]] \subseteq R2[i]
             /\ \A k \in R2[m[i][e]] : Before(e, k, m[i].key)
  <2>1. PICK a : a = IF i = c THEN l ELSE i
    OBVIOUS
  <2>2. a \in I /\ m[i].key = n[a].key /\ R2[i] = R[a]
    BY <2>1, <1>2
  <2>3. PICK j : j = n[a][e]
    OBVIOUS
  <2>4. m[i][e] = IF j = l THEN c ELSE j
    BY <2>1, <2>3, <1>1
  <2>5. j # Nil
    BY <2>4, <1>4, <1>1
  <2>6. /\ j \in I /\ P[j] = a /\ R[j] \subseteq R[a]
        /\ \A k \in R[j] : Before(e, k, n[a].key)
    BY <2>2, <2>3, <2>5, <1>L DEF Links, Linked
  <2>7. CASE j = l
    <3>1. i = a
      BY <2>1, <2>3, <2>7, <1>1
    <3>. QED
      BY <3>1, <2>2, <2>4, <2>6, <2>7, <1>2
  <2>8. CASE j # l
    BY <2>1, <2>2, <2>4, <2>6, <2>8, <1>2
  <2>. QED
    BY <2>7, <2>8
<1>5. ASSUME NEW j \in J, j # rt2 PROVE P2[j] \in J /\ \E e \in Dir : m[P2[j]][e] = j
  <2>1. PICK a : a = IF j = c THEN l ELSE j
    OBVIOUS
  <2>2. a \in I /\ a # rt
    BY <2>1, <1>5
  <2>3. P[a] \in I
    BY <2>2 DEF Shape
  <2>4. PICK e \in Dir : n[P[a]][e] = a
    BY <2>2 DEF Shape
  <2>5. CASE P[a] = l
    <3>1. j # c /\ P2[j] = c
      BY <2>1, <2>5, <1>1, <1>2
    <3>. QED
      BY <3>1, <2>1, <2>4, <2>5
  <2>6. CASE P[a] # l
    <3>1. P2[j] = P[a]
      BY <2>1, <2>6, <1>2
    <3>2. m[P[a]][e] = j
      BY <2>1, <2>3, <2>4, <2>6
    <3>. QED
      BY <3>1, <3>2, <2>3, <2>6
  <2>. QED
    BY <2>5, <2>6
<1>6. rt2 \in J /\ P2[rt2] = Nil
  BY <1>1, <1>2 DEF Shape
<1>. HIDE <1>M, <1>R
<1>7. Shape(m, rt2, J, R2, P2)
  BY <1>2, <1>3, <1>4, <1>5, <1>6 DEF Shape
<1>. QED
  BY <1>7

----------------------------------------------------------------------------
(* Ranks, and searches by key.                                             *)

\* The order of the naturals is well-founded, as a set of pairs.
LEMMA NatOrder == IsWellFoundedOn({p \in Nat \X Nat : p[1] < p[2]}, Nat)
BY NatLessThanWellFounded DEF OpToRel

\* A set of naturals that is not empty has a least element.
LEMMA LeastNat ==
  ASSUME NEW T, T \subseteq Nat, T # {}
  PROVE  \E x \in T : \A y \in T : x <= y
<1>1. PICK x \in T : \A y \in T : <<y, x>> \notin {p \in Nat \X Nat : p[1] < p[2]}
  BY NatOrder, WFMin
<1>2. ASSUME NEW y \in T PROVE x <= y
  <2>1. <<y, x>> \in Nat \X Nat
    OBVIOUS
  <2>2. ~ (y < x)
    BY <1>1, <2>1
  <2>. QED
    BY <2>2
<1>. QED
  BY <1>2

\* What holds of 0, and of i + 1 when it holds of i, holds up to n.
LEMMA UpTo ==
  ASSUME NEW n \in Nat, NEW S, 0 \in S, \A i \in 0 .. n - 1 : i \in S => i + 1 \in S
  PROVE  \A i \in 0 .. n : i \in S
<1>. DEFINE T == (0 .. n) \ S
<1>1. SUFFICES ASSUME T # {} PROVE FALSE
  OBVIOUS
<1>2. PICK x \in T : \A y \in T : x <= y
  <2>1. T \subseteq Nat
    OBVIOUS
  <2>. HIDE DEF T
  <2>. QED
    BY <1>1, <2>1, LeastNat
<1>3. x # 0 /\ x \in 1 .. n
  BY <1>2
<1>4. x - 1 \in 0 .. n - 1 /\ x - 1 \notin T
  BY <1>2, <1>3
<1>5. x - 1 \in S
  BY <1>4
<1>6. (x - 1) + 1 \in S
  BY <1>4, <1>5
<1>. QED
  BY <1>3, <1>6

\* A set of naturals that is not empty and has a bound has a greatest element.
LEMMA GreatestNat ==
  ASSUME NEW n \in Nat, NEW T, T \subseteq 0 .. n, T # {}
  PROVE  \E x \in T : \A y \in T : y <= x
<1>1. PICK U : U = {n - i : i \in T}
  OBVIOUS
<1>2. U \subseteq Nat /\ U # {}
  <2>1. ASSUME NEW i \in T PROVE n - i \in Nat
    <3>1. i \in 0 .. n
      OBVIOUS
    <3>. QED
      BY <3>1
  <2>2. PICK i \in T : TRUE
    OBVIOUS
  <2>3. n - i \in U
    BY <1>1
  <2>. QED
    BY <1>1, <2>1, <2>3
<1>3. PICK u \in U : \A v \in U : u <= v
  BY <1>2, LeastNat
<1>4. PICK x \in T : u = n - x
  BY <1>1, <1>3
<1>5. ASSUME NEW y \in T PROVE y <= x
  <2>1. n - y \in U /\ x \in 0 .. n /\ y \in 0 .. n
    BY <1>1
  <2>2. n - x <= n - y
    BY <1>3, <1>4, <2>1
  <2>. QED
    BY <2>2
<1>. QED
  BY <1>5

\* A count that goes down along every link.
LEMMA Ranked ==
  ASSUME NEW I, Room(I), NEW n, Typed(n, I), NEW rt, NEW R, NEW P, Shape(n, rt, I, R, P)
  PROVE  \E N, W : N \in Nat /\ W \in [I -> 0 .. N] /\ \A i \in I, d \in Dir :
           n[i][d] # Nil => W[n[i][d]] < W[i]
<1>L. Links(n, I, rt, R, P)
  BY AllLinks
<1>1. IsFiniteSet(I)
  BY DEF Room
<1>2. PICK U : U = [i \in I |-> {j \in I : n[j].key \in R[i]}]
  OBVIOUS
<1>3. ASSUME NEW i \in I
      PROVE  U[i] \subseteq I /\ IsFiniteSet(U[i]) /\ Cardinality(U[i]) \in Nat
             /\ Cardinality(U[i]) <= Cardinality(I)
  <2>1. PICK T : T = U[i]
    OBVIOUS
  <2>2. T \in SUBSET I
    BY <1>2, <2>1
  <2>3. IsFiniteSet(T) /\ Cardinality(T) <= Cardinality(I)
    BY <1>1, <2>2, FS_Subset
  <2>. QED
    BY <2>1, <2>2, <2>3, FS_CardinalityType
<1>4. PICK N : N = Cardinality(I)
  OBVIOUS
<1>5. N \in Nat
  BY <1>1, <1>4, FS_CardinalityType
<1>6. PICK W : W = [i \in I |-> Cardinality(U[i])]
  OBVIOUS
<1>7. W \in [I -> 0 .. N]
  BY <1>3, <1>4, <1>5, <1>6
<1>8. ASSUME NEW i \in I, NEW d \in Dir, n[i][d] # Nil PROVE W[n[i][d]] < W[i]
  <2>1. PICK j : j = n[i][d]
    OBVIOUS
  <2>2. j \in I /\ R[j] \subseteq R[i] /\ n[i].key \in R[i]
        /\ \A k \in R[j] : k \in Int /\ Before(d, k, n[i].key)
    <3>1. Linked(n, I, rt, R, P, i, d)
      BY <1>8, <1>L DEF Links
    <3>. QED
      BY <2>1, <3>1 DEF Linked, Shape
  <2>3. n[i].key \notin R[j]
    <3>1. n[i].key \in Int /\ ~Before(d, n[i].key, n[i].key)
      BY KeyOf, BeforeOrder
    <3>. QED
      BY <2>2, <3>1
  <2>4. PICK A, B : A = U[i] /\ B = U[j]
    OBVIOUS
  <2>5. B \in SUBSET A /\ i \in A /\ i \notin B
    BY <1>2, <2>2, <2>3, <2>4
  <2>6. IsFiniteSet(A) /\ Cardinality(A) \in Nat /\ Cardinality(B) \in Nat
    BY <1>3, <2>2, <2>4
  <2>7. Cardinality(B) <= Cardinality(A) /\ Cardinality(B) # Cardinality(A)
    BY <2>5, <2>6, FS_Subset
  <2>8. W[j] = Cardinality(B) /\ W[i] = Cardinality(A)
    BY <1>6, <2>2, <2>4
  <2>. QED
    BY <2>1, <2>6, <2>7, <2>8
<1>. QED
  BY <1>5, <1>7, <1>8

\* From any node the parents lead to the root.
LEMMA Climb ==
  ASSUME NEW I, Room(I), NEW n, Typed(n, I), NEW rt, NEW R, NEW P, Shape(n, rt, I, R, P),
         NEW S, S \subseteq I, S # {}, \A i \in S : i # rt => P[i] \in S
  PROVE  rt \in S
<1>1. PICK N, W : N \in Nat /\ W \in [I -> 0 .. N] /\ \A i \in I, d \in Dir :
           n[i][d] # Nil => W[n[i][d]] < W[i]
  BY Ranked
<1>2. PICK T : T = {W[i] : i \in S}
  OBVIOUS
<1>3. T \subseteq 0 .. N /\ T # {}
  BY <1>1, <1>2
<1>4. PICK x \in T : \A y \in T : y <= x
  BY <1>1, <1>3, GreatestNat
<1>5. PICK i \in S : W[i] = x
  BY <1>2, <1>4
<1>6. CASE i = rt
  BY <1>5, <1>6
<1>7. CASE i # rt
  <2>1. P[i] \in S /\ P[i] \in I
    BY <1>5, <1>7
  <2>2. PICK d \in Dir : n[P[i]][d] = i
    BY <1>5, <1>7 DEF Shape
  <2>3. W[i] < W[P[i]]
    BY <1>1, <1>5, <2>1, <2>2 DEF Room
  <2>4. W[P[i]] <= x
    BY <1>2, <1>4, <2>1
  <2>5. W[i] \in Int /\ W[P[i]] \in Int
    BY <1>1, <1>5, <2>1
  <2>. QED
    BY <1>5, <2>3, <2>4, <2>5
<1>. QED
  BY <1>6, <1>7

\* The function of a search that stops at the nodes of S.
Searches(f, nx, I, S) ==
  \A i \in I \cup {Nil} : f[i] = IF i = Nil \/ i \in S THEN i ELSE f[nx[i]]
GoesDown(nx, I, W) ==
  nx \in [I -> I \cup {Nil}] /\ \A i \in I : nx[i] # Nil => W[nx[i]] < W[i]

LEMMA SearchExists ==
  ASSUME NEW I, Nil \notin I, NEW N \in Nat, NEW W, W \in [I -> 0 .. N],
         NEW nx, GoesDown(nx, I, W), NEW S
  PROVE  \E f : Searches(f, nx, I, S)
<1>0. nx \in [I -> I \cup {Nil}] /\ \A i \in I : nx[i] # Nil => W[nx[i]] < W[i]
  BY DEF GoesDown
<1>. USE <1>0
<1>. DEFINE L == I \cup {Nil}
            Upto(k, f) == /\ f \in [L -> L] /\ f[Nil] = Nil
                          /\ \A i \in I : W[i] <= k => f[i] = IF i \in S THEN i ELSE f[nx[i]]
            U == {k \in 0 .. N : \E f : Upto(k, f)}
<1>1. 0 \in U
  <2>1. PICK f : f = [i \in L |-> IF i = Nil \/ i \in S THEN i ELSE Nil]
    OBVIOUS
  <2>2. f \in [L -> L] /\ f[Nil] = Nil
    BY <2>1
  <2>3. ASSUME NEW i \in I, W[i] <= 0 PROVE f[i] = IF i \in S THEN i ELSE f[nx[i]]
    <3>1. nx[i] = Nil
      <4>1. SUFFICES ASSUME nx[i] # Nil PROVE FALSE
        OBVIOUS
      <4>2. nx[i] \in I /\ W[nx[i]] < W[i]
        BY <4>1
      <4>3. W[nx[i]] \in 0 .. N /\ W[i] \in 0 .. N
        BY <4>2
      <4>. QED
        BY <4>2, <4>3, <2>3
    <3>. QED
      BY <3>1, <2>1
  <2>. QED
    BY <2>2, <2>3
<1>2. ASSUME NEW k \in 0 .. N - 1, k \in U PROVE k + 1 \in U
  <2>1. PICK f : Upto(k, f)
    BY <1>2
  <2>2. PICK g : g = [i \in L |-> IF i # Nil /\ W[i] = k + 1
                                  THEN IF i \in S THEN i ELSE f[nx[i]] ELSE f[i]]
    OBVIOUS
  <2>3. g \in [L -> L] /\ g[Nil] = Nil
    BY <2>1, <2>2
  <2>4. ASSUME NEW i \in I, W[i] <= k + 1 PROVE g[nx[i]] = f[nx[i]]
    <3>1. CASE nx[i] = Nil
      BY <3>1, <2>1, <2>3
    <3>2. CASE nx[i] # Nil
      <4>1. nx[i] \in I /\ W[nx[i]] < W[i]
        BY <3>2
      <4>2. W[nx[i]] \in Int /\ W[i] \in Int
        BY <4>1
      <4>3. W[nx[i]] # k + 1
        BY <4>1, <4>2, <2>4
      <4>. QED
        BY <4>1, <4>3, <2>2
    <3>. QED
      BY <3>1, <3>2
  <2>5. ASSUME NEW i \in I, W[i] <= k + 1 PROVE g[i] = IF i \in S THEN i ELSE g[nx[i]]
    <3>0. i # Nil /\ i \in L
      OBVIOUS
    <3>1. CASE W[i] = k + 1
      BY <3>0, <3>1, <2>2, <2>4, <2>5
    <3>2. CASE W[i] # k + 1
      <4>1. W[i] \in Int
        OBVIOUS
      <4>2. W[i] <= k
        BY <4>1, <3>2, <2>5
      <4>3. f[i] = IF i \in S THEN i ELSE f[nx[i]]
        BY <4>2, <2>1
      <4>4. g[i] = f[i]
        BY <3>0, <3>2, <2>2
      <4>. QED
        BY <4>3, <4>4, <2>4, <2>5
    <3>. QED
      BY <3>1, <3>2
  <2>6. k + 1 \in 0 .. N
    OBVIOUS
  <2>. QED
    BY <2>3, <2>5, <2>6
<1>3. N \in U
  <2>. HIDE DEF U
  <2>. QED
    BY <1>1, <1>2, UpTo
<1>4. PICK f : Upto(N, f)
  BY <1>3
<1>5. \A i \in I : W[i] <= N
  OBVIOUS
<1>6. Searches(f, nx, I, S)
  BY <1>4, <1>5 DEF Searches
<1>. QED
  BY <1>6

\* Searches by key.
NextFor(n, K, i) == n[i][IF n[i].key < K THEN "r" ELSE "l"]
Seeks(g, n, I, S, K) ==
  \A i \in I \cup {Nil} : g[i] = IF i = Nil \/ i \in S THEN i ELSE g[NextFor(n, K, i)]

LEMMA Searchable ==
  ASSUME NEW I, Room(I), NEW n, Typed(n, I), NEW rt, NEW R, NEW P, Shape(n, rt, I, R, P),
         NEW K, NEW S
  PROVE  \E g : Seeks(g, n, I, S, K)
<1>1. PICK N, W : N \in Nat /\ W \in [I -> 0 .. N] /\ \A i \in I, d \in Dir :
           n[i][d] # Nil => W[n[i][d]] < W[i]
  BY Ranked
<1>2. PICK nx : nx = [i \in I |-> NextFor(n, K, i)]
  OBVIOUS
<1>3. ASSUME NEW i \in I PROVE nx[i] \in I \cup {Nil} /\ (nx[i] # Nil => W[nx[i]] < W[i])
  <2>1. PICK d \in Dir : d = IF n[i].key < K THEN "r" ELSE "l"
    BY DEF Dir
  <2>2. nx[i] = n[i][d]
    BY <1>2, <2>1 DEF NextFor
  <2>3. n[i][d] \in I \cup {Nil}
    BY SonOf
  <2>. QED
    BY <2>2, <2>3, <1>1
<1>4. nx \in [I -> I \cup {Nil}]
  BY <1>2, <1>3
<1>5. Nil \notin I
  BY DEF Room
<1>6. GoesDown(nx, I, W) /\ W \in [I -> 0 .. N]
  BY <1>1, <1>3, <1>4 DEF GoesDown
<1>7. PICK f : Searches(f, nx, I, S)
  BY <1>1, <1>5, <1>6, SearchExists
<1>8. Seeks(f, n, I, S, K)
  BY <1>2, <1>7 DEF Seeks, Searches
<1>. QED
  BY <1>8

\* A search comes by every node of Q, a set of ancestors for K.
LEMMA SameAnswer ==
  ASSUME NEW I, Room(I), NEW n, Typed(n, I), NEW rt, NEW R, NEW P, Shape(n, rt, I, R, P),
         NEW K \in Int, NEW S, NEW g, Seeks(g, n, I, S, K),
         NEW Q, Q \subseteq I,
         \A b \in Q : K \in R[b] /\ (b # rt => P[b] \in Q /\ P[b] \notin S)
  PROVE  \A b \in Q : g[b] = g[rt]
<1>L. Links(n, I, rt, R, P)
  BY AllLinks
<1>1. ASSUME NEW b \in Q, b # rt PROVE g[P[b]] = g[b]
  <2>1. P[b] \in I /\ P[b] \notin S /\ P[b] # Nil /\ b \in I /\ K \in R[b]
    BY <1>1 DEF Room
  <2>2. PICK d \in Dir : n[P[b]][d] = b
    BY <1>1 DEF Shape
  <2>3. Before(d, K, n[P[b]].key)
    <3>1. Linked(n, I, rt, R, P, P[b], d)
      BY <2>1, <2>2, <1>L DEF Links, Room
    <3>. QED
      BY <2>1, <2>2, <3>1 DEF Linked
  <2>4. n[P[b]].key \in Int
    BY <2>1, KeyOf
  <2>5. d = IF n[P[b]].key < K THEN "r" ELSE "l"
    BY <2>3, <2>4 DEF Before, Dir
  <2>6. NextFor(n, K, P[b]) = b
    BY <2>2, <2>5 DEF NextFor
  <2>. QED
    BY <2>1, <2>6 DEF Seeks
<1>2. PICK T : T = {b \in Q : g[b] # g[rt]}
  OBVIOUS
<1>3. \A b \in T : b # rt => P[b] \in T
  BY <1>1, <1>2
<1>4. T \subseteq I /\ rt \notin T
  BY <1>2
<1>5. T = {}
  BY <1>3, <1>4, Climb
<1>. QED
  BY <1>2, <1>5

\* The ancestors for K: their parents are such ancestors with another key.
LEMMA Ancestors ==
  ASSUME NEW I, Room(I), NEW n, Typed(n, I), NEW rt, NEW R, NEW P, Shape(n, rt, I, R, P),
         NEW K \in Int, NEW b \in I, K \in R[b], b # rt
  PROVE  /\ P[b] \in I /\ K \in R[P[b]] /\ n[P[b]].key # K
         /\ \E d \in Dir : n[P[b]][d] = b /\ Before(d, K, n[P[b]].key)
<1>1. P[b] \in I
  BY DEF Shape
<1>2. PICK d \in Dir : n[P[b]][d] = b
  BY DEF Shape
<1>3. b # Nil
  BY DEF Room
<1>4. Links(n, I, rt, R, P)
  BY AllLinks
<1>5. Linked(n, I, rt, R, P, P[b], d)
  BY <1>1, <1>2, <1>3, <1>4 DEF Links
<1>6. K \in R[P[b]] /\ Before(d, K, n[P[b]].key)
  BY <1>2, <1>5 DEF Linked
<1>7. n[P[b]].key # K
  BY <1>6, BeforeOrder
<1>. QED
  BY <1>1, <1>2, <1>6, <1>7

HasKey(n, I, K) == {a \in I : n[a].key = K}

\* A search for the key of i finds i from wherever i may be below.
LEMMA FindsKey ==
  ASSUME NEW I, Room(I), NEW n, Typed(n, I), NEW rt, NEW R, NEW P, Shape(n, rt, I, R, P),
         NEW i \in I, NEW K, K = n[i].key, NEW g, Seeks(g, n, I, HasKey(n, I, K), K)
  PROVE  g[rt] = i /\ \A a \in I : K \in R[a] => g[a] = i
<1>0. PICK S : S = HasKey(n, I, K)
  OBVIOUS
<1>1. K \in Int /\ i \in S
  BY <1>0, KeyOf DEF HasKey
<1>2. PICK Q : Q = {a \in I : K \in R[a]}
  OBVIOUS
<1>3. \A b \in Q : K \in R[b] /\ (b # rt => P[b] \in Q /\ P[b] \notin S)
  <2>1. \A a \in S : n[a].key = K
    BY <1>0 DEF HasKey
  <2>. QED
    BY <2>1, <1>1, <1>2, Ancestors
<1>4. \A b \in Q : g[b] = g[rt]
  <2>1. Q \subseteq I /\ Seeks(g, n, I, S, K)
    BY <1>0, <1>2
  <2>. QED
    BY <2>1, <1>1, <1>3, SameAnswer
<1>5. i \in Q
  BY <1>2 DEF Shape
<1>6. g[i] = i
  BY <1>0, <1>1 DEF Seeks
<1>. QED
  BY <1>2, <1>4, <1>5, <1>6

LEMMA UniqueKeys ==
  ASSUME NEW I, Room(I), NEW n, Typed(n, I), NEW rt, NEW R, NEW P, Shape(n, rt, I, R, P),
         NEW i \in I, NEW j \in I, n[i].key = n[j].key
  PROVE  i = j
<1>1. PICK K : K = n[i].key
  OBVIOUS
<1>2. PICK g : Seeks(g, n, I, HasKey(n, I, K), K)
  BY Searchable
<1>3. g[rt] = i
  BY <1>1, <1>2, FindsKey
<1>4. K = n[j].key
  BY <1>1
<1>5. g[rt] = j
  BY <1>1, <1>2, <1>4, FindsKey
<1>. QED
  BY <1>3, <1>5

\* Below a leaf there is the leaf only.
LEMMA LeafOnly ==
  ASSUME NEW I, Room(I), NEW n, Typed(n, I), NEW rt, NEW R, NEW P, Shape(n, rt, I, R, P),
         NEW c \in I, \A e \in Dir : n[c][e] = Nil, NEW i \in I, n[i].key \in R[c]
  PROVE  i = c
<1>1. PICK K : K = n[i].key
  OBVIOUS
<1>2. PICK g : Seeks(g, n, I, HasKey(n, I, K), K)
  BY Searchable
<1>3. g[c] = i
  <2>1. K \in R[c]
    BY <1>1
  <2>. QED
    BY <2>1, <1>1, <1>2, FindsKey
<1>4. NextFor(n, K, c) = Nil
  BY DEF NextFor, Dir
<1>5. g[Nil] = Nil /\ i # Nil
  BY <1>2 DEF Seeks, Room
<1>0. PICK S : S = HasKey(n, I, K)
  OBVIOUS
<1>6. g[c] = IF c = Nil \/ c \in S THEN c ELSE g[NextFor(n, K, c)]
  BY <1>0, <1>2 DEF Seeks
<1>7. c # Nil
  BY DEF Room
<1>8. c \in S
  <2>1. SUFFICES ASSUME c \notin S PROVE FALSE
    OBVIOUS
  <2>2. g[c] = g[NextFor(n, K, c)]
    BY <1>6, <1>7, <2>1, Zenon
  <2>. QED
    BY <1>3, <1>4, <1>5, <2>2
<1>9. g[c] = c
  BY <1>6, <1>8, Zenon
<1>. QED
  BY <1>3, <1>9

\* A key whose place is empty is not there.
LEMMA NoKey ==
  ASSUME NEW I, Room(I), NEW n, Typed(n, I), NEW rt, NEW R, NEW P, Shape(n, rt, I, R, P),
         NEW p \in I, NEW d \in Dir, n[p][d] = Nil,
         NEW K \in Int, K \in R[p], Before(d, K, n[p].key), NEW i \in I
  PROVE  n[i].key # K
<1>1. SUFFICES ASSUME n[i].key = K PROVE FALSE
  OBVIOUS
<1>2. PICK S : S = HasKey(n, I, K)
  OBVIOUS
<1>3. PICK g : Seeks(g, n, I, S, K)
  BY Searchable
<1>4. g[p] = i
  <2>1. K = n[i].key /\ Seeks(g, n, I, HasKey(n, I, K), K)
    BY <1>1, <1>2, <1>3
  <2>. QED
    BY <2>1, FindsKey
<1>5. n[p].key \in Int
  BY KeyOf
<1>6. NextFor(n, K, p) = Nil
  BY <1>5 DEF NextFor, Dir, Before
<1>7. p \notin S
  BY <1>2, <1>5, BeforeOrder DEF HasKey
<1>8. /\ g[p] = IF p = Nil \/ p \in S THEN p ELSE g[NextFor(n, K, p)]
      /\ g[Nil] = IF Nil = Nil \/ Nil \in S THEN Nil ELSE g[NextFor(n, K, Nil)]
  BY <1>3 DEF Seeks
<1>9. p # Nil /\ i # Nil
  BY DEF Room
<1>10. g[p] = g[NextFor(n, K, p)] /\ g[Nil] = Nil
  BY <1>7, <1>8, <1>9, Zenon
<1>. QED
  BY <1>4, <1>6, <1>9, <1>10

LEMMA RootAlone ==
  ASSUME NEW I, Room(I), NEW n, Typed(n, I), NEW rt, NEW R, NEW P, Shape(n, rt, I, R, P),
         \A e \in Dir : n[rt][e] = Nil
  PROVE  I = {rt}
<1>1. PICK S : S = I \ {rt}
  OBVIOUS
<1>2. \A i \in S : i # rt => P[i] \in S
  <2>1. SUFFICES ASSUME NEW i \in S PROVE P[i] \in S
    OBVIOUS
  <2>2. i \in I /\ i # rt /\ i # Nil
    BY <1>1 DEF Room
  <2>3. P[i] \in I
    BY <2>2 DEF Shape
  <2>4. PICK e \in Dir : n[P[i]][e] = i
    BY <2>2 DEF Shape
  <2>. QED
    BY <1>1, <2>2, <2>3, <2>4
<1>3. S = {}
  <2>1. S \subseteq I /\ rt \notin S
    BY <1>1
  <2>. QED
    BY <2>1, <1>2, Climb
<1>. QED
  BY <1>1, <1>3 DEF Shape

\* A search for the key of s that stops over s ends at the parent of s.
LEMMA ParentFound ==
  ASSUME NEW I, Room(I), NEW n, Typed(n, I), NEW rt, NEW R, NEW P, Shape(n, rt, I, R, P),
         NEW s \in I, s # rt, NEW K, K = n[s].key,
         NEW S, \A i \in I : i \in S <=> \E e \in Dir : n[i][e] = s,
         NEW g, Seeks(g, n, I, S, K)
  PROVE  g[rt] = P[s]
<1>1. K \in Int /\ K \in R[s] /\ s # Nil
  BY KeyOf DEF Shape, Room
<1>2. PICK Q : Q = {a \in I : K \in R[a] /\ a # s}
  OBVIOUS
<1>L. Links(n, I, rt, R, P)
  BY AllLinks
<1>3. ASSUME NEW b \in Q, b # rt PROVE P[b] \in Q /\ P[b] \notin S
  <2>1. b \in I /\ K \in R[b] /\ b # s
    BY <1>2
  <2>2. /\ P[b] \in I /\ K \in R[P[b]] /\ n[P[b]].key # K
        /\ \E d \in Dir : n[P[b]][d] = b /\ Before(d, K, n[P[b]].key)
    BY <1>1, <1>3, <2>1, Ancestors
  <2>3. P[b] \in Q
    BY <1>2, <2>2
  <2>4. PICK d \in Dir : n[P[b]][d] = b /\ Before(d, K, n[P[b]].key)
    BY <2>2
  <2>5. ASSUME NEW e \in Dir, n[P[b]][e] = s PROVE FALSE
    <3>1. Linked(n, I, rt, R, P, P[b], e)
      BY <2>2, <2>5, <1>1, <1>L DEF Links
    <3>2. Before(e, K, n[P[b]].key)
      BY <3>1, <2>5, <1>1 DEF Linked
    <3>3. n[P[b]].key \in Int
      BY <2>2, KeyOf
    <3>4. e = d
      BY <3>2, <3>3, <2>4, <1>1 DEF Before, Dir
    <3>. QED
      BY <3>4, <2>4, <2>5, <2>1
  <2>6. P[b] \notin S
    BY <2>2, <2>5
  <2>. QED
    BY <2>3, <2>6
<1>4. \A b \in Q : g[b] = g[rt]
  <2>1. Q \subseteq I /\ \A b \in Q : K \in R[b]
    BY <1>2
  <2>2. \A b \in Q : K \in R[b] /\ (b # rt => P[b] \in Q /\ P[b] \notin S)
    BY <2>1, <1>3
  <2>. QED
    BY <2>1, <2>2, <1>1, SameAnswer
<1>5. /\ P[s] \in I /\ K \in R[P[s]] /\ n[P[s]].key # K
      /\ \E d \in Dir : n[P[s]][d] = s /\ Before(d, K, n[P[s]].key)
  BY <1>1, Ancestors
<1>6. P[s] \in Q
  BY <1>2, <1>5
<1>7. P[s] \in S /\ P[s] \in I \cup {Nil}
  BY <1>5
<1>8. g[P[s]] = P[s]
  BY <1>7 DEF Seeks
<1>. QED
  BY <1>4, <1>6, <1>8

----------------------------------------------------------------------------
(* Colours and black heights.                                              *)

RedIn(n, I) == {i \in I : n[i].red}
RedsAre(n, I, D) == RedIn(n, I) = D

LEMMA RedMember ==
  ASSUME NEW I, NEW n, NEW i \in I
  PROVE  i \in RedIn(n, I) <=> n[i].red
BY Zenon DEF RedIn

\* Where the rotated tree is hung: on side `side' of hp, the parent of x; a
\* root may hang under Aux or nothing.
Hook(n, rt, I, x, hp, side) ==
  \/ hp \in I /\ n[hp][side] = x
  \/ hp \in {Nil, Aux} /\ x = rt

LEMMA TurnedRed ==
  ASSUME NEW I, NEW n, NEW m, NEW x \in I, NEW y \in I, x # y,
         TurnedReds(n, m, I, x, y)
  PROVE  RedIn(m, I) = (RedIn(n, I) \ {y}) \cup {x}
<1>1. ASSUME NEW i \in I
      PROVE  i \in RedIn(m, I) <=> i \in (RedIn(n, I) \ {y}) \cup {x}
  <2>1. m[i].red = IF i = y THEN FALSE ELSE IF i = x THEN TRUE ELSE n[i].red
    BY DEF TurnedReds
  <2>2. i \in RedIn(m, I) <=> m[i].red
    BY RedMember, Zenon
  <2>3. i \in RedIn(n, I) <=> n[i].red
    BY RedMember, Zenon
  <2>4. CASE i = y
    <3>1. ~ m[i].red
      BY <2>1, <2>4, Zenon
    <3>. QED
      BY <3>1, <2>2, <2>4, Zenon
  <2>5. CASE i = x
    <3>1. m[i].red
      BY <2>1, <2>5, Zenon
    <3>. QED
      BY <3>1, <2>2, <2>5, Zenon
  <2>6. CASE i # x /\ i # y
    <3>1. m[i].red = n[i].red
      BY <2>1, <2>6, Zenon
    <3>. QED
      BY <3>1, <2>2, <2>3, <2>6, Zenon
  <2>. QED
    BY <2>4, <2>5, <2>6
<1>2. RedIn(m, I) \subseteq I /\ RedIn(n, I) \subseteq I
  BY DEF RedIn
<1>. QED
  BY <1>1, <1>2

Hung(n, m, I, x, y, d, xd, hp, side) ==
  /\ Typed(m, I) /\ SameData(n, m, I)
  /\ Turned(n, m, I, x, y, d, xd)
  /\ RedIn(m, I) = (RedIn(n, I) \ {y}) \cup {x}
  /\ \A e \in Dir : m[Aux][e] = IF hp = Aux /\ e = side THEN y ELSE n[Aux][e]

LEMMA TurnHung ==
  ASSUME NEW I, Room(I), NEW n, Typed(n, I), NEW rt, NEW R, NEW P, Shape(n, rt, I, R, P),
         NEW x \in I, NEW d \in Dir, NEW xd \in Dir, xd # d, NEW y, y = n[x][xd], y # Nil,
         NEW hp, NEW side \in Dir, Hook(n, rt, I, x, hp, side),
         NEW t, t = Rot1(n, x, d, xd), NEW m, m = SetSon(t.n, hp, side, y)
  PROVE  t.top = y /\ Hung(n, m, I, x, y, d, xd, hp, side)
<1>L. Links(n, I, rt, R, P)
  BY AllLinks
<1>1. y \in I /\ y # x /\ P[x] # y
  <2>1. Linked(n, I, rt, R, P, x, xd)
    BY <1>L DEF Links
  <2>. QED
    BY <2>1 DEF Linked
<1>2. PICK n1 : n1 = t.n
  OBVIOUS
<1>3. /\ t.top = y
      /\ Typed(n1, I) /\ SameData(n, n1, I)
      /\ TurnedSons(n, n1, I, x, y, d, xd) /\ TurnedReds(n, n1, I, x, y)
  BY <1>1, <1>2, Rot1Effect
<1>4. RedIn(n1, I) = (RedIn(n, I) \ {y}) \cup {x}
  BY <1>1, <1>3, TurnedRed
<1>5. Nil \notin I /\ Aux \notin I /\ Aux # Nil
  BY DEF Room
<1>6. ASSUME NEW i \in I, NEW e \in Dir, n[i][e] = x
      PROVE  hp = i /\ e = side /\ i # x /\ i # y
  <2>1. Linked(n, I, rt, R, P, i, e)
    BY <1>6, <1>5, <1>L DEF Links
  <2>2. P[x] = i /\ x # rt /\ x # i /\ n[i][Other(e)] # x
    BY <2>1, <1>6 DEF Linked
  <2>3. hp \in I /\ n[hp][side] = x
    BY <2>2 DEF Hook
  <2>4. Linked(n, I, rt, R, P, hp, side)
    BY <2>3, <1>5, <1>L DEF Links
  <2>5. P[x] = hp
    BY <2>3, <2>4 DEF Linked
  <2>6. e = side
    BY <2>2, <2>3, <2>5, Sides
  <2>. QED
    BY <2>2, <2>5, <2>6, <1>1
<1>7. CASE hp = Nil
  <2>1. m = n1
    BY <1>2, <1>7 DEF SetSon
  <2>2. \A i \in I, e \in Dir : n[i][e] # x
    BY <1>6, <1>7, <1>5
  <2>3. Turned(n, n1, I, x, y, d, xd)
    BY <1>3, <2>2 DEF TurnedSons, Turned
  <2>4. \A e \in Dir : n1[Aux][e] = n[Aux][e]
    BY <1>1, <1>3, <1>5 DEF TurnedSons
  <2>. QED
    BY <2>1, <2>3, <2>4, <1>3, <1>4, <1>5, <1>7 DEF Hung
<1>8. CASE hp # Nil
  <2>0. hp \in I \cup {Aux}
    BY <1>8 DEF Hook
  <2>1. Typed(m, I) /\ SonSet(n1, m, I, hp, side, y) /\ SameData(n1, m, I) /\ SameReds(n1, m, I)
    BY <1>1, <1>2, <1>3, <2>0, SetSonEffect
  <2>2. SameData(n, m, I)
    BY <2>1, <1>3 DEF SameData
  <2>3. RedIn(m, I) = RedIn(n1, I)
    BY <2>1 DEF SameReds, RedIn
  <2>4. ASSUME NEW i \in I, NEW e \in Dir
        PROVE  m[i][e] = IF i = x /\ e = xd THEN n[y][d]
                         ELSE IF i = y /\ e = d THEN x
                         ELSE IF n[i][e] = x THEN y ELSE n[i][e]
    <3>1. m[i][e] = IF i = hp /\ e = side THEN y ELSE n1[i][e]
      BY <2>1 DEF SonSet
    <3>2. n1[i][e] = IF i = x /\ e = xd THEN n[y][d]
                     ELSE IF i = y /\ e = d THEN x ELSE n[i][e]
      BY <1>3 DEF TurnedSons
    <3>3. CASE i = hp /\ e = side
      <4>1. n[i][e] = x
        BY <3>3, <1>5, <2>0 DEF Hook
      <4>2. i # x /\ i # y
        BY <4>1, <1>6
      <4>. QED
        BY <3>1, <3>3, <4>1, <4>2
    <3>4. CASE ~(i = hp /\ e = side)
      <4>1. n[i][e] # x
        BY <3>4, <1>6
      <4>. QED
        BY <3>1, <3>2, <3>4, <4>1
    <3>. QED
      BY <3>3, <3>4
  <2>5. Turned(n, m, I, x, y, d, xd)
    BY <2>4 DEF Turned
  <2>6. \A e \in Dir : m[Aux][e] = IF hp = Aux /\ e = side THEN y ELSE n[Aux][e]
    <3>1. \A e \in Dir : n1[Aux][e] = n[Aux][e]
      BY <1>1, <1>3, <1>5 DEF TurnedSons
    <3>. QED
      BY <3>1, <2>1 DEF SonSet
  <2>. QED
    BY <2>1, <2>2, <2>3, <2>5, <2>6, <1>3, <1>4 DEF Hung
<1>. QED
  BY <1>7, <1>8

\* Heights, in black nodes; D is the set of red nodes.
BH(H, x) == IF x = Nil THEN 0 ELSE H[x]
Balanced(n, D, H, I) ==
  /\ H \in [I -> Nat]
  /\ \A i \in I, e \in Dir : H[i] = BH(H, n[i][e]) + IF i \in D THEN 0 ELSE 1

Even(n, D, I) == \E H : Balanced(n, D, H, I)

\* x for y in D.
Exchanged(D2, D, y, x) == D2 = (D \ {y}) \cup {x}

\* Two red nodes in a row, if at all, then below z.
Under(n, D, I, z) == \A i \in I, e \in Dir : i \in D /\ n[i][e] \in D => i = z

\* A rotation of a black node under its red son.
LEMMA TurnHeights ==
  ASSUME NEW I, Room(I), NEW n, Typed(n, I), NEW m, NEW rt, NEW R, NEW P, Shape(n, rt, I, R, P),
         NEW x \in I, NEW d \in Dir, NEW xd \in Dir, xd # d, NEW y, y = n[x][xd], y # Nil,
         Turned(n, m, I, x, y, d, xd),
         NEW D, Even(n, D, I), x \notin D, y \in D, NEW D2, Exchanged(D2, D, y, x)
  PROVE  Even(m, D2, I)
<1>H. PICK H : Balanced(n, D, H, I)
  BY DEF Even
<1>H2. PICK H2 : H2 = [H EXCEPT ![x] = H[y], ![y] = H[x]]
  OBVIOUS
<1>D. D2 = (D \ {y}) \cup {x}
  BY DEF Exchanged
<1>L. Links(n, I, rt, R, P)
  BY AllLinks
<1>0. Nil \notin I /\ x # Nil
  BY DEF Room
<1>1. y \in I /\ y # x /\ P[y] = x
  <2>1. Linked(n, I, rt, R, P, x, xd)
    BY <1>L DEF Links
  <2>. QED
    BY <2>1 DEF Linked
<1>2. /\ H2 \in [I -> Nat] /\ H2[x] = H[y] /\ H2[y] = H[x]
      /\ \A i \in I : i # x /\ i # y => H2[i] = H[i]
  BY <1>H, <1>H2, <1>1 DEF Balanced
<1>3. ASSUME NEW i \in I, NEW e \in Dir
      PROVE  n[i][e] \in I \cup {Nil} /\ BH(H, n[i][e]) \in Nat
             /\ H[i] = BH(H, n[i][e]) + IF i \in D THEN 0 ELSE 1
  <2>1. n[i][e] \in I \cup {Nil}
    BY SonOf
  <2>. QED
    BY <2>1, <1>H DEF Balanced, BH
<1>4. H[x] = H[y] + 1 /\ H[x] \in Nat /\ H[y] \in Nat
  <2>1. BH(H, y) = H[y]
    BY DEF BH
  <2>. QED
    BY <2>1, <1>1, <1>3, <1>H DEF Balanced
<1>5. ASSUME NEW i \in I, NEW e \in Dir, n[i][e] # x, n[i][e] # y
      PROVE  BH(H2, n[i][e]) = BH(H, n[i][e])
  BY <1>2, <1>3, <1>5 DEF BH
<1>6. ASSUME NEW i \in I, NEW e \in Dir, n[i][e] = y
      PROVE  i = x /\ e = xd
  <2>1. Linked(n, I, rt, R, P, i, e)
    BY <1>6, <1>L DEF Links
  <2>2. P[y] = i /\ n[i][Other(e)] # y
    BY <2>1, <1>6 DEF Linked
  <2>. QED
    BY <2>2, <1>1, Sides
<1>7. ASSUME NEW i \in I, NEW e \in Dir, n[i][e] = x
      PROVE  i # x /\ i # y
  <2>1. Linked(n, I, rt, R, P, i, e)
    BY <1>7, <1>0, <1>L DEF Links
  <2>2. Linked(n, I, rt, R, P, x, xd)
    BY <1>L DEF Links
  <2>. QED
    BY <2>1, <2>2, <1>7 DEF Linked
<1>8. ASSUME NEW i \in I, NEW e \in Dir
      PROVE  H2[i] = BH(H2, m[i][e]) + IF i \in D2 THEN 0 ELSE 1
  <2>1. CASE i = x
    <3>1. H2[x] = H[y] /\ x \in D2
      BY <1>2, <1>D
    <3>2. CASE e = xd
      <4>1. m[i][e] = n[y][d]
        BY <2>1, <3>2 DEF Turned
      <4>2. n[y][d] # x /\ n[y][d] # y
        BY <1>1, <1>6, <1>7
      <4>3. BH(H2, n[y][d]) = BH(H, n[y][d])
        BY <4>2, <1>1, <1>5
      <4>4. H[y] = BH(H, n[y][d]) + 0
        BY <1>1, <1>3
      <4>. QED
        BY <2>1, <3>1, <4>1, <4>3, <4>4, <1>1, <1>3
    <3>3. CASE e = d
      <4>1. m[i][e] = n[x][d] /\ n[x][d] # x /\ n[x][d] # y
        BY <2>1, <3>3, <1>1, <1>6, <1>7 DEF Turned
      <4>2. BH(H2, n[x][d]) = BH(H, n[x][d])
        BY <4>1, <1>5
      <4>3. H[x] = BH(H, n[x][d]) + 1
        BY <1>3
      <4>. QED
        BY <2>1, <3>1, <4>1, <4>2, <4>3, <1>3, <1>4
    <3>. QED
      BY <3>2, <3>3, Sides
  <2>2. CASE i = y
    <3>1. H2[y] = H[x] /\ y \notin D2
      BY <1>1, <1>2, <1>D
    <3>2. CASE e = d
      <4>1. m[i][e] = x
        BY <2>2, <3>2, <1>1 DEF Turned
      <4>2. BH(H2, x) = H[y]
        BY <1>0, <1>2 DEF BH
      <4>. QED
        BY <2>2, <3>1, <4>1, <4>2, <1>4
    <3>3. CASE e = xd
      <4>1. n[y][xd] # x /\ n[y][xd] # y
        BY <1>1, <1>6, <1>7
      <4>2. m[i][e] = n[y][xd]
        BY <2>2, <3>3, <1>1, <4>1 DEF Turned
      <4>3. BH(H2, n[y][xd]) = BH(H, n[y][xd])
        BY <4>1, <1>1, <1>5
      <4>4. H[y] = BH(H, n[y][xd]) + 0
        BY <1>1, <1>3
      <4>. QED
        BY <2>2, <3>1, <4>2, <4>3, <4>4, <1>1, <1>3, <1>4
    <3>. QED
      BY <3>2, <3>3, Sides
  <2>3. CASE i # x /\ i # y
    <3>1. H2[i] = H[i] /\ (i \in D2 <=> i \in D)
      BY <2>3, <1>2, <1>D
    <3>2. CASE n[i][e] = x
      <4>1. m[i][e] = y
        BY <2>3, <3>2 DEF Turned
      <4>2. BH(H2, y) = H[x] /\ BH(H, n[i][e]) = H[x]
        BY <1>0, <1>1, <1>2, <3>2 DEF BH
      <4>. QED
        BY <3>1, <4>1, <4>2, <1>3
    <3>3. CASE n[i][e] # x
      <4>1. m[i][e] = n[i][e] /\ n[i][e] # y
        BY <2>3, <3>3, <1>6 DEF Turned
      <4>2. BH(H2, n[i][e]) = BH(H, n[i][e])
        BY <3>3, <4>1, <1>5
      <4>. QED
        BY <3>1, <4>1, <4>2, <1>3
    <3>. QED
      BY <3>2, <3>3
  <2>. QED
    BY <2>1, <2>2, <2>3
<1>. QED
  BY <1>2, <1>8 DEF Balanced, Even

----------------------------------------------------------------------------
(* Rotations in place, and their colours.                                  *)

\* A node has one parent, on one side, and is not below itself.
LEMMA OneParent ==
  ASSUME NEW I, Room(I), NEW n, Typed(n, I), NEW rt, NEW R, NEW P, Shape(n, rt, I, R, P),
         NEW i \in I, NEW d \in Dir, NEW j, j = n[i][d], j # Nil
  PROVE  /\ j \in I /\ j # i /\ j # rt /\ n[i][Other(d)] # j
         /\ \A a \in I, e \in Dir : n[a][e] = j => a = i /\ e = d
         /\ \A e \in Dir : n[j][e] # i /\ n[j][e] # j
         /\ P[j] = i
<1>L. Links(n, I, rt, R, P)
  BY AllLinks
<1>0. Nil \notin I /\ i # Nil
  BY DEF Room
<1>1. Linked(n, I, rt, R, P, i, d)
  BY <1>L DEF Links
<1>2. j \in I /\ j # i /\ j # rt /\ n[i][Other(d)] # j /\ P[j] = i /\ P[i] # j
  BY <1>1 DEF Linked
<1>3. ASSUME NEW a \in I, NEW e \in Dir, n[a][e] = j
      PROVE  a = i /\ e = d
  <2>1. Linked(n, I, rt, R, P, a, e)
    BY <1>3, <1>L DEF Links
  <2>2. P[j] = a
    BY <2>1, <1>3 DEF Linked
  <2>. QED
    BY <1>2, <1>3, <2>2, Sides
<1>4. ASSUME NEW e \in Dir
      PROVE  n[j][e] # i /\ n[j][e] # j
  <2>1. CASE n[j][e] = Nil
    BY <2>1, <1>0, <1>2
  <2>2. CASE n[j][e] # Nil
    <3>1. Linked(n, I, rt, R, P, j, e)
      BY <2>2, <1>2, <1>L DEF Links
    <3>. QED
      BY <3>1, <1>2 DEF Linked
  <2>. QED
    BY <2>1, <2>2
<1>. QED
  BY <1>2, <1>3, <1>4

\* No colour or height changes when both nodes of a rotation are red.
LEMMA TurnRedHeights ==
  ASSUME NEW I, Room(I), NEW n, Typed(n, I), NEW m, NEW rt, NEW R, NEW P, Shape(n, rt, I, R, P),
         NEW x \in I, NEW d \in Dir, NEW xd \in Dir, xd # d, NEW y, y = n[x][xd], y # Nil,
         Turned(n, m, I, x, y, d, xd),
         NEW D, NEW H, Balanced(n, D, H, I), x \in D, y \in D
  PROVE  Balanced(m, D, H, I)
<1>0. Nil \notin I
  BY DEF Room
<1>1. y \in I
  BY OneParent
<1>3. ASSUME NEW i \in I, NEW e \in Dir
      PROVE  n[i][e] \in I \cup {Nil} /\ BH(H, n[i][e]) \in Nat
             /\ H[i] = BH(H, n[i][e]) + IF i \in D THEN 0 ELSE 1
  <2>1. n[i][e] \in I \cup {Nil}
    BY SonOf
  <2>. QED
    BY <2>1 DEF Balanced, BH
<1>4. H[x] \in Nat /\ H[y] \in Nat /\ BH(H, y) = H[y] /\ BH(H, x) = H[x]
  BY <1>0, <1>1 DEF Balanced, BH
<1>5. H[x] = H[y]
  BY <1>3, <1>4
<1>6. ASSUME NEW i \in I, NEW e \in Dir
      PROVE  H[i] = BH(H, m[i][e]) + IF i \in D THEN 0 ELSE 1
  <2>1. CASE i = x /\ e = xd
    <3>1. m[i][e] = n[y][d]
      BY <2>1 DEF Turned
    <3>2. H[y] = BH(H, n[y][d]) + 0
      BY <1>1, <1>3
    <3>. QED
      BY <2>1, <3>1, <3>2, <1>1, <1>3, <1>5
  <2>2. CASE i = y /\ e = d /\ ~(i = x /\ e = xd)
    <3>1. m[i][e] = x
      BY <2>2 DEF Turned
    <3>. QED
      BY <2>2, <3>1, <1>4, <1>5
  <2>3. CASE ~(i = x /\ e = xd) /\ ~(i = y /\ e = d) /\ n[i][e] = x
    <3>1. m[i][e] = y
      BY <2>3 DEF Turned
    <3>2. BH(H, m[i][e]) = BH(H, n[i][e])
      BY <2>3, <3>1, <1>4, <1>5
    <3>. QED
      BY <3>2, <1>3
  <2>4. CASE ~(i = x /\ e = xd) /\ ~(i = y /\ e = d) /\ n[i][e] # x
    <3>1. m[i][e] = n[i][e]
      BY <2>4 DEF Turned
    <3>. QED
      BY <3>1, <1>3
  <2>. QED
    BY <2>1, <2>2, <2>3, <2>4
<1>. QED
  BY <1>6 DEF Balanced

\* A black node over two red sons becomes a red node over two black ones.
LEMMA UpFlip ==
  ASSUME NEW I, Room(I), NEW n, Typed(n, I), NEW rt, NEW R, NEW P, Shape(n, rt, I, R, P),
         NEW D, NEW H, Balanced(n, D, H, I),
         NEW x \in I, NEW d \in Dir, NEW a, a = n[x][d], NEW b, b = n[x][Other(d)],
         x \notin D, a \in D, b \in D, a # Nil, b # Nil,
         NEW D2, D2 = (D \cup {x}) \ {a, b}
  PROVE  \E H2 : Balanced(n, D2, H2, I)
<1>0. Nil \notin I /\ x # Nil /\ Other(d) \in Dir
  BY Sides DEF Room
<1>1. /\ a \in I /\ b \in I /\ a # b /\ a # x /\ b # x
      /\ \A i \in I, e \in Dir : n[i][e] = a => i = x
      /\ \A i \in I, e \in Dir : n[i][e] = b => i = x
  <2>1. a \in I /\ a # x /\ a # b /\ \A i \in I, e \in Dir : n[i][e] = a => i = x
    BY OneParent
  <2>2. b \in I /\ b # x /\ \A i \in I, e \in Dir : n[i][e] = b => i = x
    BY <1>0, OneParent
  <2>. QED
    BY <2>1, <2>2
<1>2. PICK H2 : H2 = [i \in I |-> IF i = a \/ i = b THEN H[i] + 1 ELSE H[i]]
  OBVIOUS
<1>3. H \in [I -> Nat] /\ H2 \in [I -> Nat]
  BY <1>2 DEF Balanced
<1>4. ASSUME NEW i \in I, NEW e \in Dir
      PROVE  n[i][e] \in I \cup {Nil} /\ BH(H, n[i][e]) \in Nat
             /\ H[i] = BH(H, n[i][e]) + IF i \in D THEN 0 ELSE 1
  <2>1. n[i][e] \in I \cup {Nil}
    BY SonOf
  <2>. QED
    BY <2>1 DEF Balanced, BH
<1>5. ASSUME NEW i \in I, NEW e \in Dir
      PROVE  H2[i] = BH(H2, n[i][e]) + IF i \in D2 THEN 0 ELSE 1
  <2>1. CASE i = x
    <3>1. n[x][e] = a \/ n[x][e] = b
      BY Sides
    <3>2. BH(H2, n[x][e]) = BH(H, n[x][e]) + 1
      BY <3>1, <1>0, <1>1, <1>2, <1>3 DEF BH
    <3>3. H2[x] = H[x] /\ x \in D2
      BY <1>1, <1>2
    <3>. QED
      BY <2>1, <3>2, <3>3, <1>4
  <2>2. CASE i # x
    <3>1. n[i][e] # a /\ n[i][e] # b
      BY <2>2, <1>1
    <3>2. BH(H2, n[i][e]) = BH(H, n[i][e])
      BY <3>1, <1>2, <1>4 DEF BH
    <3>3. CASE i = a \/ i = b
      <4>1. H2[i] = H[i] + 1 /\ i \in D /\ i \notin D2
        BY <3>3, <1>2
      <4>. QED
        BY <4>1, <3>2, <1>4
    <3>4. CASE i # a /\ i # b
      <4>1. H2[i] = H[i] /\ (i \in D2 <=> i \in D)
        BY <3>4, <2>2, <1>2
      <4>. QED
        BY <4>1, <3>2, <1>4
    <3>. QED
      BY <3>3, <3>4
  <2>. QED
    BY <2>1, <2>2
<1>. QED
  BY <1>3, <1>5 DEF Balanced

\* Two black nodes become red under a parent that becomes black; a black
\* parent has to be the root.
LEMMA DownFlip ==
  ASSUME NEW I, Room(I), NEW n, Typed(n, I), NEW rt, NEW R, NEW P, Shape(n, rt, I, R, P),
         NEW D, NEW H, Balanced(n, D, H, I),
         NEW x \in I, NEW d \in Dir, NEW a, a = n[x][d], NEW b, b = n[x][Other(d)],
         x \in D \/ x = rt, a \notin D, b \notin D, a # Nil, b # Nil,
         NEW D2, D2 = (D \ {x}) \cup {a, b}
  PROVE  \E H2 : Balanced(n, D2, H2, I)
<1>0. Nil \notin I /\ x # Nil /\ Other(d) \in Dir
  BY Sides DEF Room
<1>1. /\ a \in I /\ b \in I /\ a # b /\ a # x /\ b # x
      /\ \A i \in I, e \in Dir : n[i][e] = a => i = x
      /\ \A i \in I, e \in Dir : n[i][e] = b => i = x
  <2>1. a \in I /\ a # x /\ a # b /\ \A i \in I, e \in Dir : n[i][e] = a => i = x
    BY OneParent
  <2>2. b \in I /\ b # x /\ \A i \in I, e \in Dir : n[i][e] = b => i = x
    BY <1>0, OneParent
  <2>. QED
    BY <2>1, <2>2
<1>2. PICK H2 : H2 = [i \in I |-> IF i = a \/ i = b \/ (i = x /\ x \notin D)
                                  THEN H[i] - 1 ELSE H[i]]
  OBVIOUS
<1>4. ASSUME NEW i \in I, NEW e \in Dir
      PROVE  n[i][e] \in I \cup {Nil} /\ BH(H, n[i][e]) \in Nat
             /\ H[i] = BH(H, n[i][e]) + IF i \in D THEN 0 ELSE 1
  <2>1. n[i][e] \in I \cup {Nil}
    BY SonOf
  <2>. QED
    BY <2>1 DEF Balanced, BH
<1>3. H \in [I -> Nat] /\ H2 \in [I -> Nat]
  <2>1. H \in [I -> Nat]
    BY DEF Balanced
  <2>2. ASSUME NEW i \in I, i = a \/ i = b \/ (i = x /\ x \notin D) PROVE H[i] - 1 \in Nat
    <3>1. i \notin D
      BY <2>2
    <3>2. H[i] = BH(H, n[i][d]) + 1 /\ BH(H, n[i][d]) \in Nat
      BY <3>1, <1>4
    <3>. QED
      BY <3>2
  <2>. QED
    BY <2>1, <2>2, <1>2
<1>5. ASSUME NEW i \in I, NEW e \in Dir
      PROVE  H2[i] = BH(H2, n[i][e]) + IF i \in D2 THEN 0 ELSE 1
  <2>1. CASE i = x
    <3>1. n[x][e] = a \/ n[x][e] = b
      BY Sides
    <3>2. BH(H2, n[x][e]) = BH(H, n[x][e]) - 1
      BY <3>1, <1>0, <1>1, <1>2, <1>3 DEF BH
    <3>3. x \notin D2 /\ H2[x] = IF x \notin D THEN H[x] - 1 ELSE H[x]
      BY <1>1, <1>2
    <3>4. H[x] \in Nat
      BY <1>3
    <3>. QED
      BY <2>1, <3>2, <3>3, <3>4, <1>4
  <2>2. CASE i # x
    <3>1. n[i][e] # a /\ n[i][e] # b
      BY <2>2, <1>1
    <3>2. ~(n[i][e] = x /\ x \notin D)
      <4>1. SUFFICES ASSUME n[i][e] = x, x = rt PROVE FALSE
        OBVIOUS
      <4>. QED
        BY <4>1, <1>0, OneParent
    <3>3. BH(H2, n[i][e]) = BH(H, n[i][e])
      BY <3>1, <3>2, <1>2, <1>4 DEF BH
    <3>4. CASE i = a \/ i = b
      <4>1. H2[i] = H[i] - 1 /\ i \notin D /\ i \in D2
        BY <3>4, <1>2
      <4>2. H[i] \in Nat
        BY <1>3
      <4>. QED
        BY <4>1, <4>2, <3>3, <1>4
    <3>5. CASE i # a /\ i # b
      <4>1. H2[i] = H[i] /\ (i \in D2 <=> i \in D)
        BY <3>5, <2>2, <1>2
      <4>. QED
        BY <4>1, <3>3, <1>4
    <3>. QED
      BY <3>4, <3>5
  <2>. QED
    BY <2>1, <2>2
<1>. QED
  BY <1>3, <1>5 DEF Balanced

\* The root may be made black.
LEMMA BlackRoot ==
  ASSUME NEW I, Room(I), NEW n, Typed(n, I), NEW rt, NEW R, NEW P, Shape(n, rt, I, R, P),
         NEW D, NEW H, Balanced(n, D, H, I), NEW D2, D2 = D \ {rt}
  PROVE  \E H2 : Balanced(n, D2, H2, I)
<1>0. Nil \notin I /\ rt \in I
  BY DEF Room, Shape
<1>1. CASE rt \notin D
  <2>1. D2 = D
    BY <1>1
  <2>. QED
    BY <2>1
<1>2. CASE rt \in D
  <2>1. PICK H2 : H2 = [i \in I |-> IF i = rt THEN H[i] + 1 ELSE H[i]]
    OBVIOUS
  <2>2. H \in [I -> Nat] /\ H2 \in [I -> Nat]
    BY <2>1 DEF Balanced
  <2>3. ASSUME NEW i \in I, NEW e \in Dir
        PROVE  H2[i] = BH(H2, n[i][e]) + IF i \in D2 THEN 0 ELSE 1
    <3>1. n[i][e] \in I \cup {Nil}
      BY SonOf
    <3>2. n[i][e] # rt
      BY <1>0, OneParent
    <3>3. BH(H2, n[i][e]) = BH(H, n[i][e]) /\ BH(H, n[i][e]) \in Nat
      BY <3>1, <3>2, <2>1, <2>2 DEF BH
    <3>4. H[i] = BH(H, n[i][e]) + IF i \in D THEN 0 ELSE 1
      BY DEF Balanced
    <3>5. CASE i = rt
      <4>1. H2[i] = H[i] + 1 /\ i \notin D2 /\ i \in D
        BY <3>5, <1>2, <2>1
      <4>. QED
        BY <4>1, <3>3, <3>4
    <3>6. CASE i # rt
      <4>1. H2[i] = H[i] /\ (i \in D2 <=> i \in D)
        BY <3>6, <2>1
      <4>. QED
        BY <4>1, <3>3, <3>4
    <3>. QED
      BY <3>5, <3>6
  <2>. QED
    BY <2>2, <2>3 DEF Balanced
<1>. QED
  BY <1>1, <1>2

\* The links of a rotation, seen from the rotated tree.
LEMMA TurnedLink ==
  ASSUME NEW I, Room(I), NEW n, Typed(n, I), NEW m, NEW rt, NEW R, NEW P, Shape(n, rt, I, R, P),
         NEW x \in I, NEW d \in Dir, NEW xd \in Dir, xd # d, NEW y, y = n[x][xd], y # Nil,
         Turned(n, m, I, x, y, d, xd), NEW i \in I, NEW e \in Dir
  PROVE  /\ y \in I /\ y # x
         /\ m[i][e] \in I \cup {Nil}
         /\ i = x => m[i][e] = n[y][d] \/ m[i][e] = n[x][d]
         /\ i = y => m[i][e] = x \/ (e = xd /\ m[i][e] = n[y][xd])
         /\ i # x /\ i # y => /\ n[i][e] # y
                              /\ n[i][e] = x => m[i][e] = y
                              /\ n[i][e] # x => m[i][e] = n[i][e]
<1>1. /\ y \in I /\ y # x
      /\ \A a \in I, f \in Dir : n[a][f] = y => a = x /\ f = xd
      /\ \A f \in Dir : n[y][f] # x /\ n[y][f] # y
  BY OneParent
<1>2. n[x][d] # y /\ n[x][d] # x
  <2>0. x # Nil
    BY DEF Room
  <2>1. n[x][d] # y
    BY <1>1
  <2>2. n[x][d] # x
    <3>1. PICK j : j = n[x][d]
      OBVIOUS
    <3>2. CASE j = Nil
      BY <3>1, <3>2, <2>0
    <3>3. CASE j # Nil
      <4>1. j # x
        BY <3>1, <3>3, OneParent
      <4>. QED
        BY <3>1, <4>1
    <3>. QED
      BY <3>2, <3>3
  <2>. QED
    BY <2>1, <2>2
<1>3. e = d \/ e = xd
  BY Sides
<1>4. \A f \in Dir : n[y][f] \in I \cup {Nil} /\ n[x][f] \in I \cup {Nil} /\ n[i][f] \in I \cup {Nil}
  BY <1>1, SonOf
<1>5. CASE i = x
  <2>1. m[i][e] = IF e = xd THEN n[y][d] ELSE n[x][d]
    BY <1>1, <1>2, <1>3, <1>5 DEF Turned
  <2>. QED
    BY <2>1, <1>1, <1>4, <1>5
<1>6. CASE i = y
  <2>1. m[i][e] = IF e = d THEN x ELSE n[y][xd]
    BY <1>1, <1>3, <1>6 DEF Turned
  <2>. QED
    BY <2>1, <1>1, <1>3, <1>4, <1>6
<1>7. CASE i # x /\ i # y
  <2>1. m[i][e] = IF n[i][e] = x THEN y ELSE n[i][e]
    BY <1>7 DEF Turned
  <2>. QED
    BY <2>1, <1>1, <1>4, <1>7
<1>. QED
  BY <1>5, <1>6, <1>7

\* A link of the rotated tree is one of before, but around x and y.
LinksTurned(n, m, I, x, y, d) ==
  \A i \in I, e \in Dir :
    /\ i = x => m[i][e] = n[y][d] \/ m[i][e] = n[x][d]
    /\ i # x /\ i # y => /\ n[i][e] # y
                         /\ n[i][e] = x => m[i][e] = y
                         /\ n[i][e] # x => m[i][e] = n[i][e]

LEMMA TurnedLinks ==
  ASSUME NEW I, Room(I), NEW n, Typed(n, I), NEW m, NEW rt, NEW R, NEW P, Shape(n, rt, I, R, P),
         NEW x \in I, NEW d \in Dir, NEW xd \in Dir, xd # d, NEW y, y = n[x][xd], y # Nil,
         Turned(n, m, I, x, y, d, xd)
  PROVE  LinksTurned(n, m, I, x, y, d)
<1>1. ASSUME NEW i \in I, NEW e \in Dir
      PROVE  /\ i = x => m[i][e] = n[y][d] \/ m[i][e] = n[x][d]
             /\ i # x /\ i # y => /\ n[i][e] # y
                                  /\ n[i][e] = x => m[i][e] = y
                                  /\ n[i][e] # x => m[i][e] = n[i][e]
  BY TurnedLink
<1>. QED
  BY <1>1 DEF LinksTurned

\* A black node goes under its red son, beside black sons.
LEMMA TurnMends ==
  ASSUME NEW I, Room(I), NEW n, Typed(n, I), NEW m, NEW rt, NEW R, NEW P, Shape(n, rt, I, R, P),
         NEW x \in I, NEW d \in Dir, NEW xd \in Dir, xd # d, NEW y, y = n[x][xd], y # Nil,
         Turned(n, m, I, x, y, d, xd),
         NEW D, D \subseteq I, Under(n, D, I, y), x \notin D, y \in D,
         n[x][d] \notin D, n[y][d] \notin D,
         NEW D2, Exchanged(D2, D, y, x)
  PROVE  Under(m, D2, I, Nil)
<1>D. D2 = (D \ {y}) \cup {x}
  BY DEF Exchanged
<1>. USE <1>D
<1>0. Nil \notin I /\ Nil \notin D
  BY DEF Room
<1>1. y \in I /\ y # x
  BY OneParent
<1>2. SUFFICES ASSUME NEW i \in I, NEW e \in Dir, i \in D2, m[i][e] \in D2 PROVE FALSE
  BY DEF Under
<1>3. /\ i = x => m[i][e] = n[y][d] \/ m[i][e] = n[x][d]
      /\ i # x /\ i # y => /\ n[i][e] # y
                           /\ n[i][e] = x => m[i][e] = y
                           /\ n[i][e] # x => m[i][e] = n[i][e]
  BY TurnedLink
<1>4. i # y
  BY <1>1, <1>2
<1>5. CASE i = x
  <2>1. m[i][e] \notin D
    BY <1>3, <1>5
  <2>2. m[i][e] = x
    BY <2>1, <1>2
  <2>3. n[y][d] # x /\ n[x][d] # x
    <3>1. n[y][d] # x
      BY OneParent
    <3>2. n[x][d] # x
      <4>1. PICK j : j = n[x][d]
        OBVIOUS
      <4>2. CASE j = Nil
        BY <4>1, <4>2, <1>0
      <4>3. CASE j # Nil
        <5>1. j # x
          BY <4>1, <4>3, OneParent
        <5>. QED
          BY <4>1, <5>1
      <4>. QED
        BY <4>2, <4>3
    <3>. QED
      BY <3>1, <3>2
  <2>. QED
    BY <2>2, <2>3, <1>3, <1>5
<1>6. CASE i # x
  <2>1. n[i][e] # x /\ m[i][e] = n[i][e]
    BY <1>1, <1>2, <1>3, <1>4, <1>6
  <2>2. i \in D /\ n[i][e] \in D
    BY <2>1, <1>2, <1>6
  <2>. QED
    BY <2>2, <1>4 DEF Under
<1>. QED
  BY <1>5, <1>6

\* The parents of x are black.
OverBlack(n, I, D, x) == \A i \in I, e \in Dir : n[i][e] = x => i \notin D

\* A rotation of two red nodes keeps two red nodes in a row, with black ones
\* around.
LEMMA TurnRedPair ==
  ASSUME NEW I, Room(I), NEW n, Typed(n, I), NEW m, NEW rt, NEW R, NEW P, Shape(n, rt, I, R, P),
         NEW x \in I, NEW d \in Dir, NEW xd \in Dir, xd # d, NEW y, y = n[x][xd], y # Nil,
         Turned(n, m, I, x, y, d, xd),
         NEW D, D \subseteq I, Under(n, D, I, x), x \in D, y \in D,
         n[x][d] \notin D, n[y][d] \notin D, OverBlack(n, I, D, x)
  PROVE  Under(m, D, I, y)
<1>L. LinksTurned(n, m, I, x, y, d)
  BY TurnedLinks
<1>1. SUFFICES ASSUME NEW i \in I, NEW e \in Dir, i \in D, m[i][e] \in D PROVE i = y
  BY Zenon DEF Under
<1>2. /\ i = x => m[i][e] = n[y][d] \/ m[i][e] = n[x][d]
      /\ i # x /\ i # y => /\ n[i][e] # y
                           /\ n[i][e] = x => m[i][e] = y
                           /\ n[i][e] # x => m[i][e] = n[i][e]
  BY <1>L DEF LinksTurned
<1>3. i # x
  BY <1>1, <1>2
<1>4. SUFFICES ASSUME i # y PROVE FALSE
  OBVIOUS
<1>5. n[i][e] # x
  BY <1>1 DEF OverBlack
<1>6. n[i][e] \in D
  BY <1>1, <1>2, <1>3, <1>4, <1>5
<1>. QED
  BY <1>1, <1>3, <1>6 DEF Under

\* A black node goes under its red son: what is red below it is then below a
\* red node.
LEMMA TurnPair ==
  ASSUME NEW I, Room(I), NEW n, Typed(n, I), NEW m, NEW rt, NEW R, NEW P, Shape(n, rt, I, R, P),
         NEW x \in I, NEW d \in Dir, NEW xd \in Dir, xd # d, NEW y, y = n[x][xd], y # Nil,
         Turned(n, m, I, x, y, d, xd),
         NEW D, D \subseteq I, Under(n, D, I, Nil), x \notin D, y \in D,
         NEW D2, Exchanged(D2, D, y, x)
  PROVE  Under(m, D2, I, x)
<1>D. D2 = (D \ {y}) \cup {x}
  BY DEF Exchanged
<1>. USE <1>D
<1>0. Nil \notin I /\ Nil \notin D
  BY DEF Room
<1>1. SUFFICES ASSUME NEW i \in I, NEW e \in Dir, i \in D2, m[i][e] \in D2, i # x PROVE FALSE
  <2>1. D2 \subseteq I
    OBVIOUS
  <2>. QED
    BY <2>1, Zenon DEF Under
<1>y. y # x
  BY OneParent
<1>2. /\ i = x => m[i][e] = n[y][d] \/ m[i][e] = n[x][d]
      /\ i # x /\ i # y => /\ n[i][e] # y
                           /\ n[i][e] = x => m[i][e] = y
                           /\ n[i][e] # x => m[i][e] = n[i][e]
  BY TurnedLink
<1>3. i # y
  BY <1>1, <1>y
<1>4. n[i][e] # x /\ m[i][e] = n[i][e]
  BY <1>1, <1>2, <1>3
<1>5. i \in D /\ n[i][e] \in D
  BY <1>1, <1>4
<1>. QED
  BY <1>0, <1>5 DEF Under

BlackSons(n, D, x) == \A e \in Dir : n[x][e] \notin D

\* The sibling s of c, beside their parent p, has a red son z on the far side.
CanLend(n, I, rt, D, p, wd, od, c, s, z) ==
  /\ p \in I /\ c \in I /\ s \in I /\ c = n[p][wd] /\ s = n[p][od] /\ z = n[s][od]
  /\ z \in D /\ s \notin D /\ c \notin D /\ (p \in D \/ p = rt)
  /\ BlackSons(n, D, c) /\ Under(n, D, I, z)
LentReds(D2, D, p, c, s, z) == D2 = ((D \cup {s}) \ {p, z}) \cup {c}

\* The sibling y of c lends: y takes the place of x, over x and z, and c is red.
LEMMA LendMends ==
  ASSUME NEW I, Room(I), NEW n, Typed(n, I), NEW m, NEW rt, NEW R, NEW P, Shape(n, rt, I, R, P),
         NEW D, D \subseteq I, NEW x, NEW d \in Dir, NEW xd \in Dir, xd # d,
         NEW c, NEW y, NEW z, CanLend(n, I, rt, D, x, d, xd, c, y, z),
         Turned(n, m, I, x, y, d, xd), NEW D2, LentReds(D2, D, x, c, y, z)
  PROVE  Under(m, D2, I, Nil)
<1>a. /\ x \in I /\ c \in I /\ y \in I /\ c = n[x][d] /\ y = n[x][xd] /\ z = n[y][xd]
      /\ z \in D /\ y \notin D /\ c \notin D /\ (x \in D \/ x = rt)
      /\ (\A e \in Dir : n[c][e] \notin D) /\ Under(n, D, I, z)
  BY DEF CanLend, BlackSons
<1>b. D2 = ((D \cup {y}) \ {x, z}) \cup {c}
  BY DEF LentReds
<1>c. Nil \notin I
  BY DEF Room
<1>d. y # Nil /\ c # Nil
  BY <1>a, <1>c
<1>. USE <1>a, <1>b, <1>d
<1>L. Links(n, I, rt, R, P)
  BY AllLinks
<1>0. Nil \notin I /\ Nil \notin D /\ x # Nil
  BY DEF Room
<1>1. /\ y \in I /\ y # x /\ P[y] = x
      /\ \A a \in I, e \in Dir : n[a][e] = y => a = x /\ e = xd
  BY OneParent
<1>2. /\ c \in I /\ c # x /\ c # y
      /\ \A a \in I, e \in Dir : n[a][e] = c => a = x /\ e = d
      /\ \A e \in Dir : n[c][e] # x /\ n[c][e] # c
  <2>1. /\ c \in I /\ c # x
        /\ \A a \in I, e \in Dir : n[a][e] = c => a = x /\ e = d
        /\ \A e \in Dir : n[c][e] # x /\ n[c][e] # c
    BY OneParent
  <2>. QED
    BY <2>1
<1>3. /\ z \in I /\ z # y /\ z # x /\ z # c
      /\ \A a \in I, e \in Dir : n[a][e] = z => a = y /\ e = xd
  <2>0. z # Nil
    BY <1>0
  <2>1. /\ z \in I /\ z # y
        /\ \A a \in I, e \in Dir : n[a][e] = z => a = y /\ e = xd
        /\ \A e \in Dir : n[z][e] # y
    BY <2>0, <1>1, OneParent, SMTT(60)
  <2>2. z # x
    BY <2>1
  <2>3. z # c
    BY <2>1, <1>1
  <2>. QED
    BY <2>1, <2>2, <2>3
<1>4. \A e \in Dir : n[z][e] # x
  <2>1. SUFFICES ASSUME NEW e \in Dir, n[z][e] = x PROVE FALSE
    OBVIOUS
  <2>2. Linked(n, I, rt, R, P, z, e) /\ Linked(n, I, rt, R, P, y, xd) /\ Linked(n, I, rt, R, P, x, xd)
    BY <2>1, <1>0, <1>1, <1>3, <1>L DEF Links
  <2>3. n[x].key \in R[x] /\ R[x] \subseteq R[z] /\ R[z] \subseteq R[y]
    BY <2>1, <2>2 DEF Linked, Shape
  <2>4. n[x].key \in Int /\ Before(xd, n[x].key, n[x].key)
    BY <2>2, <2>3 DEF Linked
  <2>. QED
    BY <2>4, BeforeOrder
<1>5. SUFFICES ASSUME NEW i \in I, NEW e \in Dir, i \in D2, m[i][e] \in D2 PROVE FALSE
  BY DEF Under
<1>6. /\ i = y => m[i][e] = x \/ (e = xd /\ m[i][e] = n[y][xd])
      /\ i # x /\ i # y => /\ n[i][e] # y
                           /\ n[i][e] = x => m[i][e] = y
                           /\ n[i][e] # x => m[i][e] = n[i][e]
  BY TurnedLink
<1>7. x \notin D2 /\ z \notin D2
  BY <1>2, <1>3
<1>8. i # x /\ i # y
  BY <1>5, <1>6, <1>7
<1>9. i # c
  <2>1. SUFFICES ASSUME i = c PROVE FALSE
    OBVIOUS
  <2>2. m[c][e] = n[c][e] /\ n[c][e] # y /\ n[c][e] # c
    BY <2>1, <1>2, <1>6, <1>8
  <2>3. n[c][e] \notin D
    OBVIOUS
  <2>. QED
    BY <2>1, <2>2, <2>3, <1>5
<1>10. i \in D /\ i # z
  BY <1>5, <1>7, <1>8, <1>9
<1>11. CASE n[i][e] = x
  <2>1. x \in D
    BY <1>11, <1>0, OneParent
  <2>. QED
    BY <2>1, <1>10, <1>11 DEF Under
<1>12. CASE n[i][e] # x
  <2>1. m[i][e] = n[i][e] /\ n[i][e] # y /\ n[i][e] # c
    BY <1>12, <1>2, <1>6, <1>8
  <2>2. n[i][e] \in D
    BY <2>1, <1>5
  <2>. QED
    BY <2>2, <1>10 DEF Under
<1>. QED
  BY <1>11, <1>12

LEMMA IsRedIn ==
  ASSUME NEW I, Nil \notin I, NEW n, NEW i \in I \cup {Nil}
  PROVE  IsRed(n, i) <=> i \in RedIn(n, I)
<1>1. CASE i = Nil
  BY <1>1, Zenon DEF IsRed, RedIn
<1>2. CASE i # Nil
  BY <1>2, Zenon DEF IsRed, RedIn
<1>. QED
  BY <1>1, <1>2

\* Colouring a node.
LEMMA Reddened ==
  ASSUME NEW I, Room(I), NEW n, Typed(n, I), NEW x \in I, NEW m, m = SetRed(n, x, TRUE)
  PROVE  Typed(m, I) /\ SameData(n, m, I) /\ SameSons(n, m, I)
         /\ RedsAre(m, I, RedIn(n, I) \cup {x})
<1>1. PICK b \in BOOLEAN : b = TRUE
  OBVIOUS
<1>2. Typed(m, I) /\ RedSet(n, m, I, x, b) /\ SameData(n, m, I) /\ SameSons(n, m, I)
  BY <1>1, SetRedEffect
<1>3. ASSUME NEW i \in I PROVE i \in RedIn(m, I) <=> i \in RedIn(n, I) \cup {x}
  <2>1. m[i].red = IF i = x THEN b ELSE n[i].red
    BY <1>2 DEF RedSet
  <2>2. CASE i = x
    <3>1. m[i].red
      BY <2>1, <2>2, <1>1, Zenon
    <3>2. i \in RedIn(m, I)
      BY <3>1, RedMember, Zenon
    <3>. QED
      BY <3>2, <2>2
  <2>3. CASE i # x
    <3>1. m[i].red = n[i].red
      BY <2>1, <2>3, Zenon
    <3>2. i \in RedIn(m, I) <=> i \in RedIn(n, I)
      BY <3>1, RedMember, Zenon
    <3>. QED
      BY <3>2, <2>3
  <2>. QED
    BY <2>2, <2>3
<1>4. RedIn(m, I) \subseteq I /\ RedIn(n, I) \subseteq I
  BY DEF RedIn
<1>. QED
  BY <1>2, <1>3, <1>4 DEF RedsAre

LEMMA BlackenedOne ==
  ASSUME NEW I, Room(I), NEW n, Typed(n, I), NEW x \in I \cup {Nil}, NEW m, m = SetRed(n, x, FALSE)
  PROVE  Typed(m, I) /\ SameData(n, m, I) /\ SameSons(n, m, I)
         /\ RedsAre(m, I, RedIn(n, I) \ {x})
<1>1. PICK b \in BOOLEAN : b = FALSE
  OBVIOUS
<1>0. x \in I \cup {Aux, Nil} /\ m = SetRed(n, x, b)
  BY <1>1
<1>2. Typed(m, I) /\ RedSet(n, m, I, x, b) /\ SameData(n, m, I) /\ SameSons(n, m, I)
  BY <1>0, SetRedEffect
<1>3. ASSUME NEW i \in I PROVE i \in RedIn(m, I) <=> i \in RedIn(n, I) \ {x}
  <2>1. m[i].red = IF i = x THEN b ELSE n[i].red
    BY <1>2 DEF RedSet
  <2>2. CASE i = x
    <3>1. ~ m[i].red
      BY <2>1, <2>2, <1>1, Zenon
    <3>2. i \notin RedIn(m, I)
      BY <3>1, RedMember, Zenon
    <3>. QED
      BY <3>2, <2>2
  <2>3. CASE i # x
    <3>1. m[i].red = n[i].red
      BY <2>1, <2>3, Zenon
    <3>2. i \in RedIn(m, I) <=> i \in RedIn(n, I)
      BY <3>1, RedMember, Zenon
    <3>. QED
      BY <3>2, <2>3
  <2>. QED
    BY <2>2, <2>3
<1>4. RedIn(m, I) \subseteq I /\ RedIn(n, I) \subseteq I
  BY DEF RedIn
<1>. QED
  BY <1>2, <1>3, <1>4 DEF RedsAre

LEMMA SetRBBEffect ==
  ASSUME NEW I, Room(I), NEW n, Typed(n, I), NEW x \in I, NEW m, m = SetRBB(n, x)
  PROVE  /\ Typed(m, I) /\ SameData(n, m, I) /\ SameSons(n, m, I)
         /\ RedsAre(m, I, (RedIn(n, I) \cup {x}) \ {n[x].l, n[x].r})
<1>1. PICK a, b : a = n[x].l /\ b = n[x].r
  OBVIOUS
<1>2. a \in I \cup {Nil} /\ b \in I \cup {Nil}
  BY <1>1, SonOf DEF Dir
<1>3. PICK n1 : n1 = SetRed(n, x, TRUE)
  OBVIOUS
<1>4. Typed(n1, I) /\ SameData(n, n1, I) /\ SameSons(n, n1, I)
      /\ RedsAre(n1, I, RedIn(n, I) \cup {x})
  BY <1>3, Reddened
<1>5. PICK n2 : n2 = SetRed(n1, a, FALSE)
  OBVIOUS
<1>6. Typed(n2, I) /\ SameData(n1, n2, I) /\ SameSons(n1, n2, I)
      /\ RedsAre(n2, I, RedIn(n1, I) \ {a})
  <2>1. Typed(n1, I)
    BY <1>4
  <2>. QED
    BY <2>1, <1>2, <1>5, BlackenedOne
<1>7. m = SetRed(n2, b, FALSE)
  BY <1>1, <1>3, <1>5 DEF SetRBB
<1>8. Typed(m, I) /\ SameData(n2, m, I) /\ SameSons(n2, m, I)
      /\ RedsAre(m, I, RedIn(n2, I) \ {b})
  <2>1. Typed(n2, I)
    BY <1>6
  <2>. QED
    BY <2>1, <1>2, <1>7, BlackenedOne
<1>9. SameData(n, m, I)
  BY <1>4, <1>6, <1>8 DEF SameData
<1>10. SameSons(n, m, I)
  BY <1>4, <1>6, <1>8 DEF SameSons
<1>11. RedsAre(m, I, (RedIn(n, I) \cup {x}) \ {a, b})
  BY <1>4, <1>6, <1>8 DEF RedsAre
<1>. QED
  BY <1>1, <1>8, <1>9, <1>10, <1>11

\* No key of a node is among those below it.
LEMMA NotBelow ==
  ASSUME NEW I, Room(I), NEW n, Typed(n, I), NEW rt, NEW R, NEW P, Shape(n, rt, I, R, P),
         NEW i \in I, NEW d \in Dir, NEW j, j = n[i][d], j # Nil
  PROVE  /\ R[j] \subseteq R[i] /\ n[i].key \notin R[j] /\ n[i].key \in R[i] /\ n[j].key \in R[j]
         /\ \A k \in R[j] : k \in Int /\ Before(d, k, n[i].key)
<1>1. Links(n, I, rt, R, P)
  BY AllLinks
<1>2. Linked(n, I, rt, R, P, i, d)
  BY <1>1 DEF Links
<1>3. /\ R[j] \subseteq R[i] /\ n[j].key \in R[j]
      /\ \A k \in R[j] : k \in Int /\ Before(d, k, n[i].key)
  BY <1>2 DEF Linked
<1>4. n[i].key \notin R[j]
  <2>1. ~Before(d, n[i].key, n[i].key)
    BY KeyOf, BeforeOrder
  <2>. QED
    BY <1>3, <2>1
<1>. QED
  BY <1>3, <1>4 DEF Shape

\* The tree that a rotation leaves is hung where x was.
LEMMA HungBack ==
  ASSUME NEW I, Room(I), NEW n, Typed(n, I), NEW rt, NEW R, NEW P, Shape(n, rt, I, R, P),
         NEW x \in I, NEW d \in Dir, NEW xd \in Dir, xd # d, NEW y, y = n[x][xd], y # Nil,
         NEW hp, hp = P[x] \/ (hp = Aux /\ x = rt /\ n[Aux].r = rt),
         NEW t, t = Rot1(n, x, d, xd), NEW h, h = Rehang([n |-> t.n, root |-> rt], hp, x, t.top)
  PROVE  /\ h.root = IF x = rt THEN y ELSE rt
         /\ \E side \in Dir : /\ Hook(n, rt, I, x, hp, side) /\ h.n = SetSon(t.n, hp, side, y)
                              /\ hp = Aux => side = "r"
<1>L. Links(n, I, rt, R, P)
  BY AllLinks
<1>0. Nil \notin I /\ Aux \notin I /\ Aux # Nil /\ x # Nil
  BY DEF Room
<1>1. y \in I /\ y # x /\ P[x] # y
  <2>1. Linked(n, I, rt, R, P, x, xd)
    BY <1>L DEF Links
  <2>. QED
    BY <2>1 DEF Linked
<1>2. /\ t.top = y
      /\ TurnedSons(n, t.n, I, x, y, d, xd)
  BY <1>1, Rot1Effect
<1>3. h.n = IF hp = Nil THEN t.n ELSE SetSon(t.n, hp, SideOf(t.n, hp, x), y)
  BY <1>2 DEF Rehang
<1>4. h.root = IF hp = Nil \/ x = rt THEN y ELSE rt
  BY <1>2 DEF Rehang
<1>5. CASE hp = Nil
  <2>1. x = rt
    BY <1>5, <1>0 DEF Shape
  <2>2. h.n = SetSon(t.n, hp, "r", y) /\ "r" \in Dir
    BY <1>3, <1>5 DEF SetSon, Dir
  <2>3. Hook(n, rt, I, x, hp, "r")
    BY <2>1, <1>5 DEF Hook
  <2>. QED
    BY <2>1, <2>2, <2>3, <1>4, <1>5, <1>0
<1>6. CASE hp = Aux
  <2>1. x = rt
    BY <1>6, <1>0 DEF Shape
  <2>2. n[Aux].r = x
    BY <1>6, <1>0, <2>1 DEF Shape
  <2>3. t.n[Aux]["r"] = n[Aux]["r"]
    BY <1>0, <1>1, <1>2 DEF TurnedSons, Dir
  <2>4. SideOf(t.n, hp, x) = "r"
    BY <2>2, <2>3, <1>6 DEF SideOf
  <2>5. Hook(n, rt, I, x, hp, "r") /\ "r" \in Dir
    BY <2>1, <1>6 DEF Hook, Dir
  <2>. QED
    BY <2>1, <2>4, <2>5, <1>3, <1>4, <1>6, <1>0
<1>7. CASE hp # Nil /\ hp # Aux
  <2>1. hp = P[x] /\ x # rt /\ hp \in I
    BY <1>7, <1>0 DEF Shape
  <2>2. PICK side \in Dir : n[hp][side] = x
    BY <2>1 DEF Shape
  <2>3. Linked(n, I, rt, R, P, hp, side)
    BY <2>1, <2>2, <1>0, <1>L DEF Links
  <2>4. hp # x /\ n[hp][Other(side)] # x
    BY <2>2, <2>3 DEF Linked
  <2>5. \A e \in Dir : t.n[hp][e] = n[hp][e]
    BY <1>1, <1>2, <2>1, <2>4 DEF TurnedSons
  <2>6. SideOf(t.n, hp, x) = side
    <3>1. CASE side = "r"
      BY <3>1, <2>2, <2>5 DEF SideOf, Dir
    <3>2. CASE side = "l"
      <4>1. t.n[hp]["r"] # x
        BY <3>2, <2>4, <2>5 DEF Dir, Other
      <4>. QED
        BY <4>1, <3>2 DEF SideOf
    <3>. QED
      BY <3>1, <3>2 DEF Dir
  <2>7. Hook(n, rt, I, x, hp, side)
    BY <2>1, <2>2 DEF Hook
  <2>. QED
    BY <2>1, <2>6, <2>7, <1>3, <1>4, <1>7
<1>. QED
  BY <1>5, <1>6, <1>7

----------------------------------------------------------------------------
(* What rotations leave where it was.                                      *)

\* A black node over two black sons, or none.
Calm(n, D, x) == x # Nil /\ x \notin D /\ \A e \in Dir : n[x][e] \notin D

\* m is n after some rotations and colourings, with no two red nodes in a row.
Mended(n, m, rt2, I, R2, P2, D2) ==
  /\ Typed(m, I) /\ SameData(n, m, I) /\ Shape(m, rt2, I, R2, P2)
  /\ RedsAre(m, I, D2) /\ Even(m, D2, I) /\ Under(m, D2, I, Nil)

PushedUp(n, c) == IF IsRed(n, n[c].l) /\ IsRed(n, n[c].r) THEN SetRBB(n, c) ELSE n

LEMMA BothSons ==
  ASSUME NEW n, NEW x, NEW D
  PROVE  (n[x].l \in D /\ n[x].r \in D) <=> \A e \in Dir : n[x][e] \in D
BY DEF Dir

\* D1 is D after the colours of c and its sons are exchanged.
PushedReds(D1, D, n, c) == D1 = (D \cup {c}) \ {n[c].l, n[c].r}

LEMMA Flipped ==
  ASSUME NEW I, Room(I), NEW n, Typed(n, I), NEW rt, NEW R, NEW P, Shape(n, rt, I, R, P),
         NEW D, D \subseteq I, Under(n, D, I, Nil), NEW c \in I, \A e \in Dir : n[c][e] \in D,
         NEW D1, PushedReds(D1, D, n, c)
  PROVE  /\ c \notin D /\ c \in D1
         /\ \A e \in Dir : Calm(n, D1, n[c][e])
         /\ c = rt => Under(n, D1, I, Nil)
         /\ \A p \in I, d \in Dir : n[p][d] = c =>
              /\ Under(n, D1, I, p) /\ p # c
              /\ p \in D1 <=> p \in D
              /\ n[p][Other(d)] \in D1 <=> n[p][Other(d)] \in D
<1>0. Nil \notin I /\ Nil \notin D /\ c # Nil
  BY DEF Room
<1>1. /\ D1 \subseteq I
      /\ \A i : i \in D1 <=> (i \in D \/ i = c) /\ \A e \in Dir : i # n[c][e]
  <2>1. \A i : (i # n[c].l /\ i # n[c].r) <=> \A e \in Dir : i # n[c][e]
    BY DEF Dir
  <2>. QED
    BY <2>1 DEF PushedReds
<1>2. c \notin D
  <2>1. "l" \in Dir /\ n[c]["l"] \in D
    BY DEF Dir
  <2>. QED
    BY <2>1, <1>0 DEF Under
<1>3. ASSUME NEW e \in Dir
      PROVE  /\ n[c][e] \in I /\ n[c][e] # c /\ n[c][e] # Nil
             /\ \A f \in Dir : n[n[c][e]][f] # c
             /\ \A a \in I, f \in Dir : n[a][f] = n[c][e] => a = c
  <2>1. PICK j : j = n[c][e]
    OBVIOUS
  <2>2. j # Nil
    BY <2>1, <1>0
  <2>3. /\ j \in I /\ j # c
        /\ \A a \in I, f \in Dir : n[a][f] = j => a = c /\ f = e
        /\ \A f \in Dir : n[j][f] # c /\ n[j][f] # j
    BY <2>1, <2>2, OneParent
  <2>. QED
    BY <2>1, <2>2, <2>3
<1>4. c \in D1
  BY <1>1, <1>3
<1>5. ASSUME NEW e \in Dir PROVE Calm(n, D1, n[c][e])
  <2>1. n[c][e] # Nil /\ n[c][e] \notin D1 /\ n[c][e] \in D /\ n[c][e] \in I
    BY <1>1, <1>3
  <2>2. ASSUME NEW f \in Dir PROVE n[n[c][e]][f] \notin D1
    <3>1. n[n[c][e]][f] \notin D
      BY <2>1, <1>0 DEF Under
    <3>. QED
      BY <3>1, <1>1, <1>3
  <2>. QED
    BY <2>1, <2>2 DEF Calm
<1>6. ASSUME NEW i \in I, NEW e \in Dir, i \in D1, n[i][e] \in D1
      PROVE  n[i][e] = c
  <2>1. i # c
    BY <1>1, <1>6
  <2>2. i \in D
    BY <2>1, <1>1, <1>6
  <2>3. n[i][e] \notin D
    BY <2>2, <1>0 DEF Under
  <2>. QED
    BY <2>3, <1>1, <1>6
<1>7. ASSUME c = rt PROVE Under(n, D1, I, Nil)
  <2>1. \A i \in I, e \in Dir : n[i][e] # c
    BY <1>0, <1>7, OneParent
  <2>. QED
    BY <2>1, <1>6 DEF Under
<1>8. ASSUME NEW p \in I, NEW d \in Dir, n[p][d] = c
      PROVE  /\ Under(n, D1, I, p) /\ p # c
             /\ p \in D1 <=> p \in D
             /\ n[p][Other(d)] \in D1 <=> n[p][Other(d)] \in D
  <2>1. /\ p # c /\ n[p][Other(d)] # c
        /\ \A a \in I, e \in Dir : n[a][e] = c => a = p
        /\ \A e \in Dir : n[c][e] # p
    BY <1>0, <1>8, OneParent
  <2>2. Under(n, D1, I, p)
    BY <2>1, <1>6 DEF Under
  <2>3. p \in D1 <=> p \in D
    BY <2>1, <1>1
  <2>4. \A e \in Dir : n[p][Other(d)] # n[c][e]
    BY <2>1, <1>3, Sides
  <2>. QED
    BY <2>1, <2>2, <2>3, <2>4, <1>1
<1>. QED
  BY <1>2, <1>4, <1>5, <1>7, <1>8

LEMMA Push ==
  ASSUME NEW I, Room(I), NEW n, Typed(n, I), NEW rt, NEW R, NEW P, Shape(n, rt, I, R, P),
         NEW D, D = RedIn(n, I), Even(n, D, I), Under(n, D, I, Nil),
         NEW c \in I, NEW m, m = PushedUp(n, c)
  PROVE  \/ m = n /\ \E e \in Dir : n[c][e] \notin D
         \/ /\ \A e \in Dir : n[c][e] \in D
            /\ Typed(m, I) /\ SameData(n, m, I) /\ SameSons(n, m, I)
            /\ \E D1 : /\ PushedReds(D1, D, n, c)
                       /\ RedsAre(m, I, D1) /\ Even(n, D1, I)
<1>0. Nil \notin I /\ D \subseteq I
  BY DEF Room, RedIn
<1>1. n[c].l \in I \cup {Nil} /\ n[c].r \in I \cup {Nil}
  BY SonOf DEF Dir
<1>2. /\ IsRed(n, n[c].l) <=> n[c].l \in D
      /\ IsRed(n, n[c].r) <=> n[c].r \in D
  BY <1>0, <1>1, IsRedIn
<1>3. CASE n[c].l \in D /\ n[c].r \in D
  <2>1. m = SetRBB(n, c)
    BY <1>2, <1>3 DEF PushedUp
  <2>2. PICK D1 : D1 = (D \cup {c}) \ {n[c].l, n[c].r}
    OBVIOUS
  <2>3. Typed(m, I) /\ SameData(n, m, I) /\ SameSons(n, m, I)
        /\ RedsAre(m, I, (RedIn(n, I) \cup {c}) \ {n[c].l, n[c].r})
    BY <2>1, SetRBBEffect
  <2>4. RedsAre(m, I, D1)
    BY <2>2, <2>3
  <2>5. \A e \in Dir : n[c][e] \in D
    BY <1>3, BothSons
  <2>6. c \notin D
    BY <2>5, <1>0 DEF Under, Dir
  <2>7. PICK d \in Dir : d = "l"
    BY DEF Dir
  <2>7a. PICK a, b : a = n[c][d] /\ b = n[c][Other(d)]
    OBVIOUS
  <2>8. a = n[c].l /\ b = n[c].r
    BY <2>7, <2>7a DEF Other
  <2>9. a \in D /\ b \in D /\ a # Nil /\ b # Nil
    BY <2>8, <1>0, <1>3
  <2>10. PICK H : Balanced(n, D, H, I)
    BY DEF Even
  <2>11. D1 = (D \cup {c}) \ {a, b}
    BY <2>2, <2>8
  <2>12. \E H2 : Balanced(n, D1, H2, I)
    BY <2>6, <2>7a, <2>9, <2>10, <2>11, UpFlip
  <2>13. Even(n, D1, I)
    BY <2>12 DEF Even
  <2>. QED
    BY <2>2, <2>3, <2>4, <2>5, <2>13 DEF PushedReds
<1>4. CASE ~(n[c].l \in D /\ n[c].r \in D)
  <2>1. m = n
    BY <1>2, <1>4 DEF PushedUp
  <2>2. \E e \in Dir : n[c][e] \notin D
    BY <1>4, BothSons
  <2>. QED
    BY <2>1, <2>2
<1>. QED
  BY <1>3, <1>4

\* Away from the nodes of S nothing is linked otherwise, but for what was
\* linked to x.
Elsewhere(n, m, I, S, x) ==
  \A i \in I, e \in Dir : i \notin S /\ n[i][e] # x => m[i][e] = n[i][e]

\* h is n with x rotated under its red son y, which is hung where x was.
MendedBy(n, h, I, rt, R, P, D, D2, x, y, ld) ==
  LET od == Other(ld)
  IN  /\ Mended(n, h.n, h.root, I, TurnedRange(n, R, x, y, od), TurnedUp(n, P, x, y, od), D2)
      /\ Turned(n, h.n, I, x, y, od, ld)
      /\ h.root = IF x = rt THEN y ELSE rt

LEMMA EvenTurned ==
  ASSUME NEW I, Room(I), NEW n, Typed(n, I), NEW m, NEW rt, NEW R, NEW P, Shape(n, rt, I, R, P),
         NEW x \in I, NEW d \in Dir, NEW xd \in Dir, xd # d, NEW y, y = n[x][xd], y # Nil,
         Turned(n, m, I, x, y, d, xd),
         NEW D, Even(n, D, I), x \in D, y \in D
  PROVE  Even(m, D, I)
<1>1. PICK H : Balanced(n, D, H, I)
  BY DEF Even
<1>2. Balanced(m, D, H, I)
  BY <1>1, TurnRedHeights
<1>. QED
  BY <1>2 DEF Even

\* D is the set of red nodes but for the son y, which is about to turn black.
RedsBut(n, I, D, y) == RedIn(n, I) \ {y} = D \ {y}

LEMMA TurnOuter ==
  ASSUME NEW I, Room(I), NEW n, Typed(n, I), NEW rt, NEW R, NEW P, Shape(n, rt, I, R, P),
         NEW D, D \subseteq I, Even(n, D, I),
         NEW x \in I, NEW ld \in Dir, NEW y, y = n[x][ld], y # Nil, y \in D, x \notin D,
         RedsBut(n, I, D, y),
         Under(n, D, I, y), NEW od, od = Other(ld), n[x][od] \notin D, n[y][od] \notin D,
         NEW rot, rot = Rot1(n, x, od, ld), NEW D2, Exchanged(D2, D, y, x),
         NEW h, h = Rehang([n |-> rot.n, root |-> rt], P[x], x, rot.top)
  PROVE  MendedBy(n, h, I, rt, R, P, D, D2, x, y, ld)
<1>0. od \in Dir /\ ld # od
  BY Sides
<1>1. PICK hp : hp = P[x]
  OBVIOUS
<1>2. h = Rehang([n |-> rot.n, root |-> rt], hp, x, rot.top)
  BY <1>1
<1>3. /\ h.root = IF x = rt THEN y ELSE rt
      /\ \E side \in Dir : /\ Hook(n, rt, I, x, hp, side) /\ h.n = SetSon(rot.n, hp, side, y)
                           /\ hp = Aux => side = "r"
  BY <1>0, <1>1, <1>2, HungBack
<1>4. PICK side \in Dir : Hook(n, rt, I, x, hp, side) /\ h.n = SetSon(rot.n, hp, side, y)
  BY <1>3
<1>5. PICK m : m = h.n
  OBVIOUS
<1>6. m = SetSon(rot.n, hp, side, y)
  BY <1>4, <1>5
<1>7. Hung(n, m, I, x, y, od, ld, hp, side)
  BY <1>0, <1>4, <1>6, TurnHung
<1>8. PICK R2, P2 : R2 = TurnedRange(n, R, x, y, od) /\ P2 = TurnedUp(n, P, x, y, od)
  OBVIOUS
<1>10. Typed(m, I) /\ SameData(n, m, I) /\ Turned(n, m, I, x, y, od, ld)
  BY <1>7 DEF Hung
<1>11. PICK rt2 : rt2 = IF x = rt THEN y ELSE rt
  OBVIOUS
<1>12. Shape(m, rt2, I, R2, P2)
  BY <1>0, <1>8, <1>10, <1>11, TurnShape
<1>13. RedsAre(m, I, D2)
  BY <1>7 DEF Hung, RedsAre, RedsBut, Exchanged
<1>14. Even(m, D2, I)
  <2>1. Turned(n, m, I, x, y, od, ld)
    BY <1>10
  <2>. QED
    BY <2>1, <1>0, TurnHeights
<1>15. Under(m, D2, I, Nil)
  <2>1. Turned(n, m, I, x, y, od, ld)
    BY <1>10
  <2>. QED
    BY <2>1, <1>0, TurnMends
<1>16. Mended(n, m, rt2, I, R2, P2, D2)
  BY <1>10, <1>12, <1>13, <1>14, <1>15 DEF Mended
<1>. QED
  BY <1>3, <1>5, <1>8, <1>10, <1>11, <1>16 DEF MendedBy

\* The first half of Rot2: c, red, takes the place of its red parent p.
LEMMA TurnInner ==
  ASSUME NEW I, Room(I), NEW n, Typed(n, I), NEW rt, NEW R, NEW P, Shape(n, rt, I, R, P),
         NEW D, RedsAre(n, I, D), Even(n, D, I),
         NEW p \in I, NEW ld \in Dir, NEW od \in Dir, od # ld, NEW c, c = n[p][od], c # Nil,
         p \in D, c \in D, Under(n, D, I, p), n[p][ld] \notin D, n[c][ld] \notin D,
         NEW x \in I, n[x][ld] = p,
         NEW first, first = Rot1(n, p, ld, od), NEW m, m = SetSon(first.n, x, ld, c)
  PROVE  /\ first.top = c
         /\ Typed(m, I) /\ SameData(n, m, I) /\ Turned(n, m, I, p, c, ld, od)
         /\ Shape(m, rt, I, TurnedRange(n, R, p, c, ld), TurnedUp(n, P, p, c, ld))
         /\ Even(m, D, I) /\ Under(m, D, I, c) /\ RedsBut(m, I, D, c)
<1>0. p # Nil
  BY DEF Room
<1>1. /\ p # rt /\ p # x
      /\ \A i \in I, e \in Dir : n[i][e] = p => i = x
  BY <1>0, OneParent
<1>2. Hook(n, rt, I, p, x, ld)
  BY DEF Hook
<1>3. first.top = c /\ Hung(n, m, I, p, c, ld, od, x, ld)
  BY <1>2, TurnHung
<1>4. Typed(m, I) /\ SameData(n, m, I) /\ Turned(n, m, I, p, c, ld, od)
  BY <1>3 DEF Hung
<1>5. PICK R1, P1 : R1 = TurnedRange(n, R, p, c, ld) /\ P1 = TurnedUp(n, P, p, c, ld)
  OBVIOUS
<1>6. PICK rt2 : rt2 = IF p = rt THEN c ELSE rt
  OBVIOUS
<1>7. Shape(m, rt2, I, R1, P1)
  BY <1>4, <1>5, <1>6, TurnShape
<1>8. Even(m, D, I)
  <2>1. Turned(n, m, I, p, c, ld, od)
    BY <1>4
  <2>. QED
    BY <2>1, EvenTurned
<1>9. Under(m, D, I, c)
  <2>1. D \subseteq I
    BY DEF RedsAre, RedIn
  <2>2. x \notin D
    BY <1>1 DEF Under
  <2>3. OverBlack(n, I, D, p)
    BY <1>1, <2>2 DEF OverBlack
  <2>4. Turned(n, m, I, p, c, ld, od)
    BY <1>4
  <2>. QED
    BY <2>1, <2>3, <2>4, TurnRedPair
<1>10. RedsBut(m, I, D, c)
  BY <1>3 DEF Hung, RedsAre, RedsBut
<1>. QED
  BY <1>1, <1>3, <1>4, <1>5, <1>6, <1>7, <1>8, <1>9, <1>10

----------------------------------------------------------------------------
(* Two red nodes in a row: st_insert mends them.                           *)

\* What the rotations of a double red leave, when the red node y comes up
\* and x goes down.
MendedSome(n, h, I, rt, R, P, D, x, y, c, S) ==
  \E R2, P2, D2 :
    /\ Exchanged(D2, D, y, x)
    /\ Mended(n, h.n, h.root, I, R2, P2, D2)
    /\ Elsewhere(n, h.n, I, S, x)
    /\ R[c] \subseteq R2[c]
    /\ y # c => P2[c] = y
    /\ h.root = IF x = rt THEN y ELSE rt

\* "Check for double red case", c on the outer side.
LEMMA Fix1 ==
  ASSUME NEW I, Room(I), NEW n, Typed(n, I), NEW rt, NEW R, NEW P, Shape(n, rt, I, R, P),
         NEW D, RedsAre(n, I, D), Even(n, D, I),
         NEW x \in I, NEW ld \in Dir, NEW p, p = n[x][ld], p # Nil, p \in D, x \notin D,
         NEW c, c = n[p][ld], c # Nil,
         Under(n, D, I, p), NEW od, od = Other(ld), n[x][od] \notin D, n[p][od] \notin D,
         NEW rot, rot = Rot1(n, x, od, ld),
         NEW h, h = Rehang([n |-> rot.n, root |-> rt], P[x], x, rot.top)
  PROVE  MendedSome(n, h, I, rt, R, P, D, x, p, c, {x, p}) /\ h.n[p][ld] = c
<1>0. RedsBut(n, I, D, p) /\ D \subseteq I
  BY DEF RedsAre, RedsBut, RedIn
<1>1. PICK D2 : Exchanged(D2, D, p, x)
  BY DEF Exchanged
<1>2. MendedBy(n, h, I, rt, R, P, D, D2, x, p, ld)
  BY <1>0, <1>1, TurnOuter
<1>3. PICK R2, P2, m : /\ R2 = TurnedRange(n, R, x, p, od) /\ P2 = TurnedUp(n, P, x, p, od)
                       /\ m = h.n
  OBVIOUS
<1>4. /\ Mended(n, m, h.root, I, R2, P2, D2) /\ Turned(n, m, I, x, p, od, ld)
      /\ h.root = IF x = rt THEN p ELSE rt
  BY <1>2, <1>3 DEF MendedBy
<1>5. p \in I /\ p # x /\ \A e \in Dir : n[p][e] # x /\ n[p][e] # p
  BY OneParent
<1>6. Elsewhere(n, m, I, {x, p}, x)
  BY <1>4 DEF Turned, Elsewhere
<1>7. m[p][ld] = c
  <2>1. ld # od
    BY Sides
  <2>. QED
    BY <2>1, <1>4, <1>5 DEF Turned
<1>8. c \in I /\ c # p /\ n[p][Other(ld)] # c /\ P[c] = p
  BY <1>5, OneParent
<1>9. c # x
  BY <1>5
<1>10. R2[c] = R[c] /\ P2[c] = p
  <2>1. DOMAIN R = I /\ DOMAIN P = I
    BY DEF Shape
  <2>. QED
    BY <2>1, <1>3, <1>8, <1>9 DEF TurnedRange, TurnedUp
<1>. QED
  BY <1>1, <1>3, <1>4, <1>6, <1>7, <1>10 DEF MendedSome

\* Where the links around a double rotation go: after its first half, and at
\* the end.
InnerDone(n, n2, I, R, x, p, c, ld, od) ==
  /\ p \in I /\ p # x /\ c \in I /\ c # p /\ c # x
  /\ n2[x][ld] = c /\ n2[x][od] = n[x][od]
  /\ n2[c][ld] = p /\ n2[c][od] = n[c][od]
  /\ n2[p][od] = n[c][ld]
  /\ Elsewhere(n, n2, I, {x, p, c}, x)
  /\ \A e \in Dir : n[c][e] # x
  /\ R[c] \subseteq R[x]
OuterDone(n, m, I, x, p, c, ld, od) ==
  /\ m[c][ld] = p /\ m[c][od] = x
  /\ m[p][od] = n[c][ld] /\ m[x][ld] = n[c][od]
  /\ Elsewhere(n, m, I, {x, p, c}, x)

LEMMA InnerLinks ==
  ASSUME NEW I, Room(I), NEW n, Typed(n, I), NEW n2, NEW rt, NEW R, NEW P, Shape(n, rt, I, R, P),
         NEW x \in I, NEW ld \in Dir, NEW od \in Dir, od = Other(ld),
         NEW p, p = n[x][ld], p # Nil, NEW c, c = n[p][od], c # Nil,
         Turned(n, n2, I, p, c, ld, od)
  PROVE  InnerDone(n, n2, I, R, x, p, c, ld, od)
<1>L. Links(n, I, rt, R, P)
  BY AllLinks
<1>0. Nil \notin I /\ x # Nil /\ ld # od /\ \A e \in Dir : e = ld \/ e = od
  BY Sides DEF Room
<1>1. /\ p \in I /\ p # x
      /\ \A i \in I, e \in Dir : n[i][e] = p => i = x /\ e = ld
      /\ \A e \in Dir : n[p][e] # x /\ n[p][e] # p
  BY OneParent
<1>2. /\ c \in I /\ c # p
      /\ \A i \in I, e \in Dir : n[i][e] = c => i = p /\ e = od
      /\ \A e \in Dir : n[c][e] # p /\ n[c][e] # c
  BY <1>1, OneParent
<1>3. c # x
  BY <1>1
<1>4. Linked(n, I, rt, R, P, x, ld) /\ Linked(n, I, rt, R, P, p, od)
  BY <1>1, <1>L DEF Links
<1>5. R[c] \subseteq R[p] /\ R[p] \subseteq R[x] /\ \A k \in R[p] : Before(ld, k, n[x].key)
  BY <1>4 DEF Linked
<1>6. ASSUME NEW e \in Dir PROVE n[c][e] # x
  <2>1. SUFFICES ASSUME n[c][e] = x PROVE FALSE
    OBVIOUS
  <2>2. Linked(n, I, rt, R, P, c, e)
    BY <2>1, <1>0, <1>2, <1>L DEF Links
  <2>3. R[x] \subseteq R[c] /\ n[x].key \in R[x]
    BY <2>1, <2>2 DEF Linked
  <2>4. Before(ld, n[x].key, n[x].key)
    BY <2>3, <1>5
  <2>5. n[x].key \in Int
    BY KeyOf
  <2>. QED
    BY <2>4, <2>5, BeforeOrder
<1>7. ASSUME NEW i \in I, NEW e \in Dir
      PROVE  n2[i][e] = IF i = p /\ e = od THEN n[c][ld]
                        ELSE IF i = c /\ e = ld THEN p
                        ELSE IF n[i][e] = p THEN c ELSE n[i][e]
  BY DEF Turned
<1>8. n2[x][ld] = c /\ n2[x][od] = n[x][od]
  BY <1>0, <1>1, <1>3, <1>7
<1>9. n2[c][ld] = p /\ n2[c][od] = n[c][od]
  BY <1>0, <1>2, <1>7
<1>10. n2[p][od] = n[c][ld]
  BY <1>1, <1>7
<1>11. Elsewhere(n, n2, I, {x, p, c}, x)
  <2>1. ASSUME NEW i \in I, NEW e \in Dir, i \notin {x, p, c} PROVE n2[i][e] = n[i][e]
    BY <2>1, <1>1, <1>7
  <2>. QED
    BY <2>1 DEF Elsewhere
<1>. QED
  BY <1>1, <1>2, <1>3, <1>5, <1>6, <1>8, <1>9, <1>10, <1>11 DEF InnerDone

LEMMA OuterLinks ==
  ASSUME NEW I, NEW n, NEW n2, NEW m, NEW R, NEW x \in I, NEW ld \in Dir, NEW od \in Dir, od = Other(ld),
         NEW p, NEW c, InnerDone(n, n2, I, R, x, p, c, ld, od),
         Turned(n2, m, I, x, c, od, ld)
  PROVE  OuterDone(n, m, I, x, p, c, ld, od)
<1>i. /\ p \in I /\ c \in I /\ p # x /\ c # p /\ c # x
      /\ n2[x][ld] = c /\ n2[c][ld] = p /\ n2[c][od] = n[c][od] /\ n2[p][od] = n[c][ld]
      /\ \A e \in Dir : n[c][e] # x
  BY DEF InnerDone
<1>0. ld # od
  BY Sides
<1>7. ASSUME NEW i \in I, NEW e \in Dir
      PROVE  m[i][e] = IF i = x /\ e = ld THEN n2[c][od]
                       ELSE IF i = c /\ e = od THEN x
                       ELSE IF n2[i][e] = x THEN c ELSE n2[i][e]
  BY DEF Turned
<1>1. m[c][ld] = p /\ m[c][od] = x
  BY <1>0, <1>7, <1>i
<1>2. m[p][od] = n[c][ld]
  BY <1>0, <1>7, <1>i
<1>3. m[x][ld] = n[c][od]
  BY <1>0, <1>7, <1>i
<1>4. ASSUME NEW i \in I, NEW e \in Dir, i \notin {x, p, c}, n[i][e] # x
      PROVE  m[i][e] = n[i][e]
  <2>1. n2[i][e] = n[i][e]
    BY <1>4 DEF Elsewhere, InnerDone
  <2>. QED
    BY <2>1, <1>4, <1>7, <1>i
<1>. QED
  BY <1>1, <1>2, <1>3, <1>4 DEF Elsewhere, OuterDone

LEMMA MendedTwice ==
  ASSUME NEW n, NEW n2, NEW m, NEW rt, NEW I, NEW R, NEW P, NEW D,
         SameData(n, n2, I), Mended(n2, m, rt, I, R, P, D)
  PROVE  Mended(n, m, rt, I, R, P, D)
<1>1. SameData(n, m, I)
  BY DEF SameData, Mended
<1>. QED
  BY <1>1 DEF Mended

LEMMA RangeUp ==
  ASSUME NEW I, NEW n, NEW n2, NEW rt, NEW R, NEW P, Shape(n, rt, I, R, P),
         NEW x \in I, NEW p, NEW c, NEW ld \in Dir, NEW od,
         InnerDone(n, n2, I, R, x, p, c, ld, od)
  PROVE  R[c] \subseteq TurnedRange(n2, TurnedRange(n, R, p, c, ld), x, c, od)[c]
<1>i. /\ p \in I /\ c \in I /\ p # x /\ c # p /\ c # x
      /\ R[c] \subseteq R[x]
  BY DEF InnerDone
<1>1. PICK R1 : R1 = TurnedRange(n, R, p, c, ld)
  OBVIOUS
<1>2. DOMAIN R = I /\ DOMAIN R1 = I
  BY <1>1 DEF TurnedRange, Shape
<1>3. R1[x] = R[x]
  BY <1>1, <1>2, <1>i DEF TurnedRange
<1>4. TurnedRange(n2, R1, x, c, od)[c] = R1[x]
  BY <1>2, <1>i DEF TurnedRange
<1>. QED
  BY <1>i, <1>1, <1>3, <1>4

LEMMA ParentKept ==
  ASSUME NEW I, NEW n, NEW n2, NEW rt, NEW R, NEW P, Shape(n, rt, I, R, P),
         NEW x \in I, NEW p, NEW c, NEW ld \in Dir, NEW od,
         InnerDone(n, n2, I, R, x, p, c, ld, od)
  PROVE  TurnedUp(n, P, p, c, ld)[x] = P[x]
<1>i. /\ p \in I /\ c \in I /\ p # x /\ c # p /\ c # x /\ n[c][ld] # x
  BY DEF InnerDone
<1>2. DOMAIN P = I
  BY DEF Shape
<1>. QED
  BY <1>2, <1>i DEF TurnedUp

LEMMA Fix2 ==
  ASSUME NEW I, Room(I), NEW n, Typed(n, I), NEW rt, NEW R, NEW P, Shape(n, rt, I, R, P),
         NEW D, RedsAre(n, I, D), Even(n, D, I),
         NEW x \in I, NEW ld \in Dir, NEW od \in Dir, od = Other(ld),
         NEW p, p = n[x][ld], p # Nil, p \in D, x \notin D,
         NEW c, c = n[p][od], c # Nil, c \in D,
         Under(n, D, I, p), n[x][od] \notin D, n[p][ld] \notin D, \A e \in Dir : n[c][e] \notin D,
         NEW rot, rot = Rot2(n, x, od, ld),
         NEW h, h = Rehang([n |-> rot.n, root |-> rt], P[x], x, rot.top)
  PROVE  MendedSome(n, h, I, rt, R, P, D, x, c, c, {x, p, c}) /\ OuterDone(n, h.n, I, x, p, c, ld, od)
<1>0. p \in I /\ ld # od /\ od # ld /\ D \subseteq I /\ n[x][ld] = p
  BY OneParent, Sides DEF RedsAre, RedIn
<1>1. PICK first, n2 : first = Rot1(n, p, ld, od) /\ n2 = SetSon(first.n, x, ld, c)
  OBVIOUS
<1>2. /\ first.top = c
      /\ Typed(n2, I) /\ SameData(n, n2, I) /\ Turned(n, n2, I, p, c, ld, od)
      /\ Shape(n2, rt, I, TurnedRange(n, R, p, c, ld), TurnedUp(n, P, p, c, ld))
      /\ Even(n2, D, I) /\ Under(n2, D, I, c) /\ RedsBut(n2, I, D, c)
  BY <1>0, <1>1, TurnInner, SMTT(60)
<1>3. InnerDone(n, n2, I, R, x, p, c, ld, od)
  <2>1. Turned(n, n2, I, p, c, ld, od)
    BY <1>2
  <2>. QED
    BY <2>1, InnerLinks
<1>4. PICK R1, P1 : R1 = TurnedRange(n, R, p, c, ld) /\ P1 = TurnedUp(n, P, p, c, ld)
  OBVIOUS
<1>5. PICK r2 : r2 = Rot1(n2, x, od, ld)
  OBVIOUS
<1>6. rot = r2
  BY <1>1, <1>2, <1>5 DEF Rot2
<1>11. PICK R2, P2, m : /\ R2 = TurnedRange(n2, R1, x, c, od) /\ P2 = TurnedUp(n2, P1, x, c, od)
                        /\ m = h.n
  OBVIOUS
<1>7. R[c] \subseteq R2[c] /\ P1[x] = P[x]
  <2>1. R[c] \subseteq TurnedRange(n2, TurnedRange(n, R, p, c, ld), x, c, od)[c]
    BY <1>3, RangeUp, ZenonT(60)
  <2>2. TurnedUp(n, P, p, c, ld)[x] = P[x]
    BY <1>3, ParentKept, SMTT(60)
  <2>. QED
    BY <2>1, <2>2, <1>4, <1>11
<1>8. h = Rehang([n |-> r2.n, root |-> rt], P1[x], x, r2.top)
  BY <1>6, <1>7
<1>9. PICK D2 : Exchanged(D2, D, c, x)
  BY DEF Exchanged
<1>10. MendedBy(n2, h, I, rt, R1, P1, D, D2, x, c, ld)
  <2>1. Typed(n2, I) /\ Shape(n2, rt, I, R1, P1) /\ Even(n2, D, I) /\ Under(n2, D, I, c) /\ RedsBut(n2, I, D, c)
    BY <1>2, <1>4
  <2>2. c = n2[x][ld] /\ n2[x][od] \notin D /\ n2[c][od] \notin D
    BY <1>3 DEF InnerDone
  <2>. QED
    BY <2>1, <2>2, <1>0, <1>5, <1>8, <1>9, TurnOuter
<1>12. /\ Mended(n2, m, h.root, I, R2, P2, D2) /\ Turned(n2, m, I, x, c, od, ld)
       /\ h.root = IF x = rt THEN c ELSE rt
  BY <1>10, <1>11 DEF MendedBy
<1>13. Mended(n, m, h.root, I, R2, P2, D2)
  BY <1>2, <1>12, MendedTwice
<1>14. OuterDone(n, m, I, x, p, c, ld, od)
  BY <1>3, <1>12, OuterLinks
<1>15. Elsewhere(n, m, I, {x, p, c}, x)
  BY <1>14 DEF OuterDone
<1>. QED
  BY <1>7, <1>9, <1>11, <1>12, <1>13, <1>14, <1>15 DEF MendedSome

----------------------------------------------------------------------------
(* Red-black trees, and the walk of an insertion.                          *)

\* A red-black tree, with red root or not.
Fine(n, rt, I, R, P, D) ==
  /\ Typed(n, I) /\ Shape(n, rt, I, R, P)
  /\ RedsAre(n, I, D) /\ Even(n, D, I) /\ Under(n, D, I, Nil)

\* The path to the place of key K runs through p to c, on side d.
OnPath(n, rt, I, R, K, c, p, d) ==
  /\ p = Nil => c = rt
  /\ p # Nil => p \in I /\ n[p][d] = c /\ K \in R[p] /\ Before(d, K, n[p].key)
  /\ c # Nil => c \in I /\ K \in R[c]

\* What the window of an insertion says: in step with the tree (A), one step
\* after a rotation (B), or in the middle of a double one (C).
WinA(n, P, D, c, p, pp, ppp, ld) ==
  /\ p = Nil => pp = Nil /\ c \notin D
  /\ p # Nil =>
       /\ P[p] = pp
       /\ pp # Nil => n[pp][ld] = p /\ P[pp] = ppp
       /\ \E e \in Dir : n[p][e] \notin D
       /\ p \in D => Calm(n, D, c) \/ (pp # Nil /\ n[pp][Other(ld)] \notin D)
WinB(n, P, D, c, p, pp) == p # Nil /\ P[p] = pp /\ Calm(n, D, c)
WinC(n, D, K, c, p) ==
  /\ p # Nil /\ p \notin D /\ c \in D
  /\ \E e \in Dir : Before(e, K, n[c].key) /\ Calm(n, D, n[c][e])
Win(n, P, D, K, c, p, pp, ppp, ld) ==
  WinA(n, P, D, c, p, pp, ppp, ld) \/ WinB(n, P, D, c, p, pp) \/ WinC(n, D, K, c, p)

\* DoubleRedFixed of a tree [n, rt].
Fixed(n, rt, p, x, ppp, ld, c) ==
  LET rot == IF c = n[p][ld] THEN Rot1(n, x, Other(ld), ld) ELSE Rot2(n, x, Other(ld), ld)
  IN  IF x # Nil /\ n[c].red /\ n[p].red
        THEN Rehang([n |-> rot.n, root |-> rt], ppp, x, rot.top)
        ELSE [n |-> n, root |-> rt]

LEMMA Unfixed ==
  ASSUME NEW I, NEW n, NEW D, RedsAre(n, I, D), NEW c \in I, NEW rt, NEW p, NEW x, NEW ppp, NEW ld,
         x = Nil \/ c \notin D \/ (p \in I /\ p \notin D)
  PROVE  Fixed(n, rt, p, x, ppp, ld, c) = [n |-> n, root |-> rt]
<1>1. CASE x = Nil
  BY <1>1, Zenon DEF Fixed
<1>2. CASE c \notin D
  <2>1. ~ n[c].red
    BY <1>2, Zenon DEF RedsAre, RedIn
  <2>. QED
    BY <2>1, Zenon DEF Fixed
<1>3. CASE p \in I /\ p \notin D
  <2>1. ~ n[p].red
    BY <1>3, Zenon DEF RedsAre, RedIn
  <2>. QED
    BY <2>1, Zenon DEF Fixed
<1>. QED
  BY <1>1, <1>2, <1>3

\* What a turn leaves for the next.
TurnDone(n, h, I, K, c, p, pp, d) ==
  \E R2, P2, D2 :
    /\ SameData(n, h.n, I) /\ Fine(h.n, h.root, I, R2, P2, D2) /\ K \in R2[c]
    /\ \A e \in Dir : Before(e, K, n[c].key) => Win(h.n, P2, D2, K, h.n[c][e], c, p, pp, d)

\* No two red sons at c: nothing changes.
LEMMA CalmTurn ==
  ASSUME NEW I, Room(I), NEW n, NEW rt, NEW R, NEW P, NEW D, Fine(n, rt, I, R, P, D),
         NEW K \in Int, NEW c \in I, NEW p, NEW pp, NEW ppp, NEW d \in Dir, NEW ld \in Dir,
         OnPath(n, rt, I, R, K, c, p, d), Win(n, P, D, K, c, p, pp, ppp, ld),
         \E e \in Dir : n[c][e] \notin D,
         NEW h, h = Fixed(n, rt, p, pp, ppp, ld, c)
  PROVE  TurnDone(n, h, I, K, c, p, pp, d)
<1>0. /\ Typed(n, I) /\ Shape(n, rt, I, R, P) /\ RedsAre(n, I, D) /\ Under(n, D, I, Nil)
      /\ Nil \notin I /\ c # Nil /\ D \subseteq I /\ Nil \notin D
  BY DEF Fine, Room, RedsAre, RedIn
<1>1. /\ p = Nil => c = rt
      /\ p # Nil => p \in I /\ n[p][d] = c
      /\ K \in R[c]
  BY <1>0 DEF OnPath
<1>2. P[c] = p
  <2>1. CASE p = Nil
    BY <2>1, <1>0, <1>1 DEF Shape
  <2>2. CASE p # Nil
    BY <2>2, <1>0, <1>1 DEF Shape
  <2>. QED
    BY <2>1, <2>2
<1>3. pp = Nil \/ c \notin D \/ (p \in I /\ p \notin D)
  <2>1. CASE p = Nil
    BY <2>1 DEF Win, WinA, WinB, WinC
  <2>2. CASE p # Nil
    BY <2>2, <1>0, <1>1 DEF Under
  <2>. QED
    BY <2>1, <2>2
<1>4. h = [n |-> n, root |-> rt]
  BY <1>0, <1>3, Unfixed
<1>5. h.n = n /\ h.root = rt
  BY <1>4
<1>6. SameData(n, n, I)
  BY DEF SameData
<1>7. ASSUME NEW e \in Dir, Before(e, K, n[c].key)
      PROVE  Win(n, P, D, K, n[c][e], c, p, pp, d)
  <2>1. CASE WinA(n, P, D, c, p, pp, ppp, ld)
    <3>1. p # Nil => n[p][d] = c /\ P[p] = pp
      BY <2>1, <1>1 DEF WinA
    <3>2. ASSUME c \in D
          PROVE  p # Nil /\ n[p][Other(d)] \notin D
      <4>1. p # Nil
        BY <2>1, <3>2 DEF WinA
      <4>2. PICK f \in Dir : n[p][f] \notin D
        BY <4>1, <2>1 DEF WinA
      <4>3. f = Other(d)
        BY <4>2, <4>1, <1>1, <3>2, Sides
      <4>. QED
        BY <4>1, <4>2, <4>3
    <3>3. WinA(n, P, D, n[c][e], c, p, pp, d)
      BY <3>1, <3>2, <1>0, <1>2 DEF WinA
    <3>. QED
      BY <3>3 DEF Win
  <2>2. CASE WinB(n, P, D, c, p, pp)
    <3>1. /\ p # Nil /\ P[p] = pp /\ c \notin D /\ n[p][d] = c
      BY <2>2, <1>1 DEF WinB, Calm
    <3>2. WinA(n, P, D, n[c][e], c, p, pp, d)
      BY <3>1, <1>0, <1>2 DEF WinA
    <3>. QED
      BY <3>2 DEF Win
  <2>3. CASE WinC(n, D, K, c, p)
    <3>1. PICK f \in Dir : Before(f, K, n[c].key) /\ Calm(n, D, n[c][f])
      BY <2>3 DEF WinC
    <3>2. n[c].key \in Int
      BY <1>0, KeyOf
    <3>3. e = f
      BY <3>1, <3>2, <1>7 DEF Before, Dir
    <3>4. WinB(n, P, D, n[c][e], c, p)
      BY <3>1, <3>3, <1>0, <1>2 DEF WinB
    <3>. QED
      BY <3>4 DEF Win
  <2>. QED
    BY <2>1, <2>2, <2>3 DEF Win
<1>. QED
  BY <1>1, <1>5, <1>6, <1>7 DEF TurnDone

\* Colours aside, m is n.
LEMMA SameRules ==
  ASSUME NEW I, NEW n, NEW m, SameSons(n, m, I), NEW D
  PROVE  /\ Even(n, D, I) => Even(m, D, I)
         /\ \A z : Under(n, D, I, z) => Under(m, D, I, z)
<1>1. \A i \in I, e \in Dir : m[i][e] = n[i][e]
  BY DEF SameSons
<1>2. ASSUME Even(n, D, I) PROVE Even(m, D, I)
  <2>1. PICK H : Balanced(n, D, H, I)
    BY <1>2 DEF Even
  <2>2. Balanced(m, D, H, I)
    BY <2>1, <1>1 DEF Balanced
  <2>. QED
    BY <2>2 DEF Even
<1>3. ASSUME NEW z, Under(n, D, I, z) PROVE Under(m, D, I, z)
  BY <1>1, <1>3 DEF Under
<1>. QED
  BY <1>2, <1>3

\* The tree and the window after the colours of c and its sons are exchanged.
AfterPush(n, m, rt, I, R, P, D1, K, c, p, pp, ppp, d, ld) ==
  /\ Typed(m, I) /\ SameData(n, m, I) /\ Shape(m, rt, I, R, P)
  /\ RedsAre(m, I, D1) /\ Even(m, D1, I)
  /\ c \in D1 /\ \A e \in Dir : Calm(m, D1, m[c][e])
  /\ p = Nil => pp = Nil /\ Under(m, D1, I, Nil)
  /\ p # Nil =>
       /\ p \in I /\ m[p][d] = c /\ P[p] = pp /\ Under(m, D1, I, p)
       /\ p \in D1 => /\ pp # Nil /\ m[pp][ld] = p /\ P[pp] = ppp /\ pp \notin D1
                      /\ m[pp][Other(ld)] \notin D1 /\ m[p][Other(d)] \notin D1

LEMMA Pushes ==
  ASSUME NEW I, Room(I), NEW n, NEW rt, NEW R, NEW P, NEW D, Fine(n, rt, I, R, P, D),
         NEW K \in Int, NEW c \in I, NEW p, NEW pp, NEW ppp, NEW d \in Dir, NEW ld \in Dir,
         OnPath(n, rt, I, R, K, c, p, d), Win(n, P, D, K, c, p, pp, ppp, ld),
         \A e \in Dir : n[c][e] \in D,
         NEW m, Typed(m, I), SameData(n, m, I), SameSons(n, m, I),
         NEW D1, PushedReds(D1, D, n, c), RedsAre(m, I, D1), Even(n, D1, I)
  PROVE  AfterPush(n, m, rt, I, R, P, D1, K, c, p, pp, ppp, d, ld)
<1>0. /\ Typed(n, I) /\ Shape(n, rt, I, R, P) /\ RedsAre(n, I, D) /\ Under(n, D, I, Nil)
      /\ Nil \notin I /\ c # Nil /\ D \subseteq I /\ Nil \notin D
  BY DEF Fine, Room, RedsAre, RedIn
<1>1. /\ p = Nil => c = rt
      /\ p # Nil => p \in I /\ n[p][d] = c
  BY DEF OnPath
<1>2. \A i \in I, e \in Dir : m[i][e] = n[i][e]
  BY DEF SameSons
<1>3. Shape(m, rt, I, R, P)
  BY <1>0, SameShape
<1>4. Even(m, D1, I)
  BY SameRules
<1>5. /\ c \notin D /\ c \in D1
      /\ \A e \in Dir : Calm(n, D1, n[c][e])
      /\ c = rt => Under(n, D1, I, Nil)
      /\ \A a \in I, e \in Dir : n[a][e] = c =>
           /\ Under(n, D1, I, a) /\ a # c
           /\ a \in D1 <=> a \in D
           /\ n[a][Other(e)] \in D1 <=> n[a][Other(e)] \in D
  <2>1. Shape(n, rt, I, R, P) /\ D \subseteq I /\ Under(n, D, I, Nil) /\ Typed(n, I)
    BY <1>0
  <2>. QED
    BY <2>1, Flipped
<1>6. ASSUME NEW e \in Dir PROVE Calm(m, D1, m[c][e])
  <2>1. Calm(n, D1, n[c][e]) /\ m[c][e] = n[c][e]
    BY <1>2, <1>5
  <2>2. n[c][e] \in I
    BY <1>0
  <2>. QED
    BY <2>1, <2>2, <1>2 DEF Calm
<1>7. ~ Calm(n, D, c)
  BY DEF Calm, Dir
<1>8. WinA(n, P, D, c, p, pp, ppp, ld)
  <2>1. ~ WinB(n, P, D, c, p, pp)
    BY <1>7 DEF WinB
  <2>2. ~ WinC(n, D, K, c, p)
    BY <1>5 DEF WinC
  <2>. QED
    BY <2>1, <2>2 DEF Win
<1>9. ASSUME p = Nil PROVE pp = Nil /\ Under(m, D1, I, Nil)
  <2>1. pp = Nil
    BY <1>8, <1>9 DEF WinA
  <2>2. Under(n, D1, I, Nil)
    BY <1>1, <1>5, <1>9
  <2>. QED
    BY <2>1, <2>2, SameRules
<1>10. ASSUME p # Nil
       PROVE  /\ p \in I /\ m[p][d] = c /\ P[p] = pp /\ Under(m, D1, I, p)
              /\ p \in D1 => /\ pp # Nil /\ m[pp][ld] = p /\ P[pp] = ppp /\ pp \notin D1
                             /\ m[pp][Other(ld)] \notin D1 /\ m[p][Other(d)] \notin D1
  <2>1. p \in I /\ n[p][d] = c /\ m[p][d] = c
    BY <1>1, <1>2, <1>10
  <2>2. P[p] = pp
    BY <1>8, <1>10 DEF WinA
  <2>3. Under(n, D1, I, p) /\ (p \in D1 <=> p \in D)
        /\ (n[p][Other(d)] \in D1 <=> n[p][Other(d)] \in D)
    BY <1>5, <2>1
  <2>4. Under(m, D1, I, p)
    BY <2>3, SameRules
  <2>5. ASSUME p \in D1
        PROVE  /\ pp # Nil /\ m[pp][ld] = p /\ P[pp] = ppp /\ pp \notin D1
               /\ m[pp][Other(ld)] \notin D1 /\ m[p][Other(d)] \notin D1
    <3>1. p \in D
      BY <2>3, <2>5
    <3>2. pp # Nil /\ n[pp][Other(ld)] \notin D
      BY <1>7, <1>8, <1>10, <3>1 DEF WinA
    <3>3. n[pp][ld] = p /\ P[pp] = ppp
      BY <1>8, <1>10, <3>2 DEF WinA
    <3>4. pp \in I
      BY <2>1, <2>2, <3>2, <1>0 DEF Shape
    <3>5. /\ p # pp
          /\ \A a \in I, e \in Dir : n[a][e] = p => a = pp
      BY <3>3, <3>4, <1>0, <1>10, OneParent
    <3>6. /\ \A a \in I, e \in Dir : n[a][e] = c => a = p
          /\ \A e \in Dir : n[c][e] # p
      BY <2>1, <1>0, OneParent
    <3>7. Other(ld) \in Dir /\ Other(d) \in Dir
      BY Sides
    <3>8. n[pp][Other(ld)] # c /\ pp # c
      BY <3>3, <3>4, <3>5, <3>6, <3>7
    <3>9. D1 \subseteq D \cup {c}
      BY DEF PushedReds
    <3>10. pp \notin D
      BY <3>1, <3>3, <3>4, <1>0 DEF Under
    <3>11. n[p][Other(d)] \notin D
      BY <3>1, <3>7, <2>1, <1>0 DEF Under
    <3>. QED
      BY <3>2, <3>3, <3>4, <3>7, <3>8, <3>9, <3>10, <3>11, <2>1, <2>3, <1>2
  <2>. QED
    BY <2>1, <2>2, <2>4, <2>5
<1>. QED
  BY <1>3, <1>4, <1>5, <1>6, <1>9, <1>10 DEF AfterPush

\* Two red sons at c under a black parent: the colours are exchanged.
LEMMA PushTurn ==
  ASSUME NEW I, Room(I), NEW n, NEW rt, NEW R, NEW P,
         NEW K \in Int, NEW c \in I, NEW p, NEW pp, NEW ppp, NEW d \in Dir, NEW ld \in Dir,
         NEW m, NEW D1, AfterPush(n, m, rt, I, R, P, D1, K, c, p, pp, ppp, d, ld),
         OnPath(n, rt, I, R, K, c, p, d),
         p \notin D1, NEW h, h = Fixed(m, rt, p, pp, ppp, ld, c)
  PROVE  TurnDone(n, h, I, K, c, p, pp, d)
<1>0. /\ Typed(m, I) /\ SameData(n, m, I) /\ Shape(m, rt, I, R, P)
      /\ RedsAre(m, I, D1) /\ Even(m, D1, I)
      /\ c \in D1 /\ \A e \in Dir : Calm(m, D1, m[c][e])
      /\ p = Nil => pp = Nil /\ Under(m, D1, I, Nil)
      /\ p # Nil => p \in I /\ m[p][d] = c /\ P[p] = pp /\ Under(m, D1, I, p)
  BY DEF AfterPush
<1>1. (p = Nil => c = rt) /\ K \in R[c] /\ c # Nil /\ Nil \notin I
  BY DEF OnPath, Room
<1>2. P[c] = p
  <2>1. CASE p = Nil
    BY <2>1, <1>0, <1>1 DEF Shape
  <2>2. CASE p # Nil
    BY <2>2, <1>0, <1>1 DEF Shape
  <2>. QED
    BY <2>1, <2>2
<1>3. Under(m, D1, I, Nil)
  BY <1>0 DEF Under
<1>4. pp = Nil \/ c \notin D1 \/ (p \in I /\ p \notin D1)
  BY <1>0
<1>5. h = [n |-> m, root |-> rt]
  BY <1>0, <1>4, Unfixed
<1>6. h.n = m /\ h.root = rt
  BY <1>5
<1>7. Fine(m, rt, I, R, P, D1)
  BY <1>0, <1>3 DEF Fine
<1>8. ASSUME NEW e \in Dir
      PROVE  Win(m, P, D1, K, m[c][e], c, p, pp, d)
  <2>1. Calm(m, D1, m[c][e]) /\ m[c][e] \notin D1
    BY <1>0 DEF Calm
  <2>2. WinA(m, P, D1, m[c][e], c, p, pp, d)
    BY <2>1, <1>0, <1>1, <1>2 DEF WinA
  <2>. QED
    BY <2>2 DEF Win
<1>. QED
  BY <1>0, <1>1, <1>6, <1>7, <1>8 DEF TurnDone

Among(S, x, p, c) == S \subseteq {x, p, c}
Chain(n, x, ld, p, d, c, e, z) ==
  /\ p = n[x][ld] /\ p # Nil
  /\ c = n[p][d] /\ c # Nil
  /\ z = n[c][e] /\ z # Nil
Apart(n, I, x, p, c, z) ==
  /\ p \in I /\ c \in I /\ z \in I /\ p # x /\ c # p /\ c # x
  /\ z # x /\ z # p /\ z # c /\ \A f \in Dir : n[z][f] # x

\* Sons of c are neither its parent nor its grandparent, and have neither as
\* sons.
LEMMA NoLoop ==
  ASSUME NEW I, Room(I), NEW n, Typed(n, I), NEW rt, NEW R, NEW P, Shape(n, rt, I, R, P),
         NEW x \in I, NEW ld \in Dir, NEW p, NEW d \in Dir, NEW c, NEW e \in Dir, NEW z,
         Chain(n, x, ld, p, d, c, e, z)
  PROVE  Apart(n, I, x, p, c, z)
<1>0. /\ p = n[x][ld] /\ p # Nil
      /\ c = n[p][d] /\ c # Nil
      /\ z = n[c][e] /\ z # Nil
  BY DEF Chain
<1>L. Links(n, I, rt, R, P)
  BY AllLinks
<1>1. Linked(n, I, rt, R, P, x, ld)
  BY <1>0, <1>L DEF Links
<1>2. p \in I /\ p # x /\ \A k \in R[p] : k \in Int /\ Before(ld, k, n[x].key)
  BY <1>0, <1>1 DEF Linked
<1>3. Linked(n, I, rt, R, P, p, d)
  BY <1>0, <1>2, <1>L DEF Links
<1>4. c \in I /\ c # p /\ R[c] \subseteq R[p] /\ P[c] = p /\ P[p] # c
  BY <1>0, <1>3 DEF Linked
<1>5. Linked(n, I, rt, R, P, c, e)
  BY <1>0, <1>4, <1>L DEF Links
<1>6. z \in I /\ z # c /\ R[z] \subseteq R[c] /\ P[z] = c /\ P[c] # z
  BY <1>0, <1>5 DEF Linked
<1>7. n[x].key \notin R[p]
  <2>1. n[x].key \in Int
    BY KeyOf
  <2>. QED
    BY <2>1, <1>2, BeforeOrder
<1>8. n[x].key \in R[x]
  BY DEF Shape
<1>9. c # x /\ z # x
  <2>1. R[c] \subseteq R[p] /\ R[z] \subseteq R[p]
    BY <1>4, <1>6
  <2>. QED
    BY <2>1, <1>7, <1>8
<1>10. ASSUME NEW f \in Dir, n[z][f] = x PROVE FALSE
  <2>1. x # Nil
    BY DEF Room
  <2>2. Linked(n, I, rt, R, P, z, f)
    BY <2>1, <1>6, <1>10, <1>L DEF Links
  <2>3. R[x] \subseteq R[z]
    BY <2>2, <1>10 DEF Linked
  <2>4. R[x] \subseteq R[p]
    BY <2>3, <1>4, <1>6
  <2>. QED
    BY <2>4, <1>7, <1>8
<1>11. z # p
  BY <1>4, <1>6
<1>. QED
  BY <1>2, <1>4, <1>6, <1>9, <1>10, <1>11 DEF Apart

LEMMA StillCalm ==
  ASSUME NEW I, Room(I), NEW n, Typed(n, I), NEW rt, NEW R, NEW P, Shape(n, rt, I, R, P),
         NEW x \in I, NEW ld \in Dir, NEW p, NEW d \in Dir, NEW c, NEW e \in Dir, NEW z,
         Chain(n, x, ld, p, d, c, e, z), NEW D, Calm(n, D, z),
         NEW S, Among(S, x, p, c), NEW m, Elsewhere(n, m, I, S, x),
         NEW y, NEW D2, Exchanged(D2, D, y, x)
  PROVE  Calm(m, D2, z) /\ (c \notin S => m[c][e] = z)
<1>1. z # Nil /\ z = n[c][e]
  BY DEF Chain
<1>a. Apart(n, I, x, p, c, z)
  BY NoLoop
<1>2. /\ c \in I /\ z \in I /\ z # x /\ z # p /\ z # c /\ \A f \in Dir : n[z][f] # x
      /\ S \subseteq {x, p, c}
  BY <1>a DEF Apart, Among
<1>3. \A f \in Dir : m[z][f] = n[z][f]
  BY <1>2 DEF Elsewhere
<1>4. z \notin D2 /\ \A f \in Dir : n[z][f] \notin D2
  BY <1>2 DEF Calm, Exchanged
<1>5. Calm(m, D2, z)
  BY <1>1, <1>3, <1>4 DEF Calm
<1>6. c \notin S => m[c][e] = z
  BY <1>1, <1>2 DEF Elsewhere
<1>. QED
  BY <1>5, <1>6

\* Two red sons at c, the outer son of a red parent.
LEMMA OuterTurn ==
  ASSUME NEW I, Room(I), NEW n, NEW rt, NEW R, NEW P,
         NEW K \in Int, NEW c \in I, NEW p, NEW pp, NEW ppp, NEW ld \in Dir,
         NEW m, NEW D1, AfterPush(n, m, rt, I, R, P, D1, K, c, p, pp, ppp, ld, ld),
         OnPath(n, rt, I, R, K, c, p, ld),
         p \in D1, NEW h, h = Fixed(m, rt, p, pp, ppp, ld, c)
  PROVE  TurnDone(n, h, I, K, c, p, pp, ld)
<1>0. /\ Typed(m, I) /\ SameData(n, m, I) /\ Shape(m, rt, I, R, P)
      /\ RedsAre(m, I, D1) /\ Even(m, D1, I)
      /\ c \in D1 /\ \A e \in Dir : Calm(m, D1, m[c][e])
      /\ Nil \notin I /\ D1 \subseteq I
  BY DEF AfterPush, Room, RedsAre, RedIn
<1>1. p # Nil /\ c # Nil /\ K \in R[c]
  BY <1>0 DEF OnPath
<1>2. /\ p \in I /\ m[p][ld] = c /\ P[p] = pp /\ Under(m, D1, I, p)
      /\ pp # Nil /\ m[pp][ld] = p /\ P[pp] = ppp /\ pp \notin D1
      /\ m[pp][Other(ld)] \notin D1 /\ m[p][Other(ld)] \notin D1
  BY <1>1 DEF AfterPush
<1>3. pp \in I
  BY <1>0, <1>2 DEF Shape
<1>4. PICK od \in Dir : od = Other(ld)
  BY Sides
<1>5. PICK rot : rot = Rot1(m, pp, od, ld)
  OBVIOUS
<1>6. m[c].red /\ m[p].red
  BY <1>0, <1>2, Zenon DEF RedsAre, RedIn
<1>7. h = Rehang([n |-> rot.n, root |-> rt], P[pp], pp, rot.top)
  BY <1>2, <1>4, <1>5, <1>6, Zenon DEF Fixed
<1>8. MendedSome(m, h, I, rt, R, P, D1, pp, p, c, {pp, p})
  <2>1. Typed(m, I) /\ Shape(m, rt, I, R, P) /\ RedsAre(m, I, D1) /\ Even(m, D1, I)
    BY <1>0
  <2>2. /\ p = m[pp][ld] /\ p # Nil /\ pp \notin D1 /\ c = m[p][ld] /\ c # Nil /\ Under(m, D1, I, p)
        /\ m[pp][od] \notin D1 /\ m[p][od] \notin D1
    BY <1>1, <1>2, <1>4
  <2>. QED
    BY <2>1, <2>2, <1>3, <1>4, <1>5, <1>7, Fix1, SMTT(30)
<1>9. PICK R2, P2, D2 :
         /\ Exchanged(D2, D1, p, pp)
         /\ Mended(m, h.n, h.root, I, R2, P2, D2)
         /\ Elsewhere(m, h.n, I, {pp, p}, pp)
         /\ R[c] \subseteq R2[c]
         /\ p # c => P2[c] = p
  BY <1>8 DEF MendedSome
<1>10. p # c
  BY <1>0, <1>1, <1>2, OneParent
<1>11. PICK m2 : m2 = h.n
  OBVIOUS
<1>12. ASSUME NEW e \in Dir PROVE Win(h.n, P2, D2, K, h.n[c][e], c, p, pp, ld)
  <2>1. PICK z : z = m[c][e]
    OBVIOUS
  <2>2. Calm(m, D1, z)
    BY <2>1, <1>0
  <2>3. Calm(m2, D2, z) /\ (c \notin {pp, p} => m2[c][e] = z)
    <3>1. PICK S : S = {pp, p}
      OBVIOUS
    <3>2. Among(S, pp, p, c) /\ Elsewhere(m, m2, I, S, pp)
      BY <3>1, <1>9, <1>11 DEF Among
    <3>3. Typed(m, I) /\ Shape(m, rt, I, R, P)
      BY <1>0
    <3>4. Chain(m, pp, ld, p, ld, c, e, z)
      BY <2>1, <2>2, <1>1, <1>2 DEF Chain, Calm
    <3>5. Exchanged(D2, D1, p, pp)
      BY <1>9
    <3>6. Calm(m2, D2, z) /\ (c \notin S => m2[c][e] = z)
      BY <3>2, <3>3, <3>4, <3>5, <2>2, <1>3, StillCalm
    <3>. QED
      BY <3>1, <3>6
  <2>4. c # pp
    BY <1>0, <1>2
  <2>5. Calm(h.n, D2, h.n[c][e])
    BY <2>3, <2>4, <1>10, <1>11
  <2>6. WinB(h.n, P2, D2, h.n[c][e], c, p)
    BY <2>5, <1>1, <1>9, <1>10 DEF WinB
  <2>. QED
    BY <2>6 DEF Win
<1>13. Fine(h.n, h.root, I, R2, P2, D2) /\ SameData(n, h.n, I)
  BY <1>0, <1>9 DEF Mended, Fine, SameData
<1>14. K \in R2[c]
  BY <1>1, <1>9
<1>. QED
  BY <1>12, <1>13, <1>14 DEF TurnDone

\* Two red sons at c, the inner son of a red parent.
LEMMA InnerTurn ==
  ASSUME NEW I, Room(I), NEW n, NEW rt, NEW R, NEW P,
         NEW K \in Int, NEW c \in I, NEW p, NEW pp, NEW ppp, NEW ld \in Dir, NEW od \in Dir, od = Other(ld),
         NEW m, NEW D1, AfterPush(n, m, rt, I, R, P, D1, K, c, p, pp, ppp, od, ld),
         OnPath(n, rt, I, R, K, c, p, od), pp \in I => Before(ld, K, n[pp].key),
         p \in D1, NEW h, h = Fixed(m, rt, p, pp, ppp, ld, c)
  PROVE  TurnDone(n, h, I, K, c, p, pp, od)
<1>0. /\ Typed(m, I) /\ SameData(n, m, I) /\ Shape(m, rt, I, R, P)
      /\ RedsAre(m, I, D1) /\ Even(m, D1, I)
      /\ c \in D1 /\ \A e \in Dir : Calm(m, D1, m[c][e])
      /\ Nil \notin I /\ D1 \subseteq I
  BY DEF AfterPush, Room, RedsAre, RedIn
<1>1. p # Nil /\ c # Nil /\ K \in R[c] /\ Before(od, K, n[p].key)
  BY <1>0 DEF OnPath
<1>1a. Other(od) = ld
  BY Sides
<1>2. /\ p \in I /\ m[p][od] = c /\ P[p] = pp /\ Under(m, D1, I, p)
      /\ pp # Nil /\ m[pp][ld] = p /\ P[pp] = ppp /\ pp \notin D1
      /\ m[pp][od] \notin D1 /\ m[p][ld] \notin D1
  BY <1>1, <1>1a DEF AfterPush
<1>3. pp \in I
  BY <1>0, <1>2 DEF Shape
<1>4. c # m[p][ld]
  <2>1. ld # od
    BY Sides
  <2>2. m[p][Other(od)] # c
    BY <1>0, <1>1, <1>2, OneParent
  <2>. QED
    BY <2>2, <1>1a
<1>5. PICK rot : rot = Rot2(m, pp, od, ld)
  OBVIOUS
<1>6. m[c].red /\ m[p].red
  BY <1>0, <1>2, Zenon DEF RedsAre, RedIn
<1>7. h = Rehang([n |-> rot.n, root |-> rt], P[pp], pp, rot.top)
  BY <1>2, <1>4, <1>5, <1>6, Zenon DEF Fixed
<1>8. MendedSome(m, h, I, rt, R, P, D1, pp, c, c, {pp, p, c}) /\ OuterDone(m, h.n, I, pp, p, c, ld, od)
  <2>1. Typed(m, I) /\ Shape(m, rt, I, R, P) /\ RedsAre(m, I, D1) /\ Even(m, D1, I)
    BY <1>0
  <2>2. /\ p = m[pp][ld] /\ p # Nil /\ pp \notin D1 /\ c = m[p][od] /\ c # Nil /\ Under(m, D1, I, p)
        /\ m[pp][od] \notin D1 /\ m[p][ld] \notin D1 /\ c \in D1
    BY <1>0, <1>1, <1>2
  <2>3. \A e \in Dir : m[c][e] \notin D1
    BY <1>0 DEF Calm
  <2>. QED
    BY <2>1, <2>2, <2>3, <1>3, <1>5, <1>7, Fix2, ZenonT(60)
<1>9. PICK R2, P2, D2 :
         /\ Exchanged(D2, D1, c, pp)
         /\ Mended(m, h.n, h.root, I, R2, P2, D2)
         /\ Elsewhere(m, h.n, I, {pp, p, c}, pp)
         /\ R[c] \subseteq R2[c]
  BY <1>8 DEF MendedSome
<1>10. p # c
  BY <1>0, <1>1, <1>2, OneParent
<1>11. PICK m2 : m2 = h.n
  OBVIOUS
<1>12. /\ m2[c][ld] = p /\ m2[c][od] = pp
       /\ m2[p][od] = m[c][ld] /\ m2[pp][ld] = m[c][od]
  BY <1>8, <1>11 DEF OuterDone
<1>13. \A i \in I : m2[i].key = n[i].key
  BY <1>0, <1>9, <1>11 DEF Mended, SameData
<1>14. ASSUME NEW e \in Dir PROVE Calm(m2, D2, m[c][e])
  <2>1. PICK z : z = m[c][e]
    OBVIOUS
  <2>2. Calm(m, D1, z)
    BY <2>1, <1>0
  <2>3. PICK S : S = {pp, p, c}
    OBVIOUS
  <2>4. Among(S, pp, p, c) /\ Elsewhere(m, m2, I, S, pp)
    BY <2>3, <1>9, <1>11 DEF Among
  <2>5. Typed(m, I) /\ Shape(m, rt, I, R, P)
    BY <1>0
  <2>6. Chain(m, pp, ld, p, od, c, e, z)
    BY <2>1, <2>2, <1>1, <1>2 DEF Chain, Calm
  <2>7. Exchanged(D2, D1, c, pp)
    BY <1>9
  <2>8. Calm(m2, D2, z)
    BY <2>2, <2>4, <2>5, <2>6, <2>7, <1>3, StillCalm
  <2>. QED
    BY <2>1, <2>8
<1>15. c \notin D2 /\ p \in D2 /\ pp \in D2
  <2>1. D2 = (D1 \ {c}) \cup {pp}
    BY <1>9 DEF Exchanged
  <2>2. c # pp
    BY <1>0, <1>2
  <2>. QED
    BY <2>1, <2>2, <1>10
<1>16. ASSUME NEW e \in Dir PROVE Win(m2, P2, D2, K, m2[c][e], c, p, pp, od)
  <2>1. CASE e = ld
    <3>1. m2[c][e] = p
      BY <2>1, <1>12
    <3>2. Before(od, K, m2[p].key) /\ Calm(m2, D2, m2[p][od])
      BY <1>1, <1>2, <1>12, <1>13, <1>14
    <3>3. WinC(m2, D2, K, p, c)
      BY <3>2, <1>1, <1>15 DEF WinC
    <3>. QED
      BY <3>1, <3>3 DEF Win
  <2>2. CASE e = od
    <3>1. m2[c][e] = pp
      BY <2>2, <1>12
    <3>2. Before(ld, K, m2[pp].key) /\ Calm(m2, D2, m2[pp][ld])
      BY <1>3, <1>12, <1>13, <1>14
    <3>3. WinC(m2, D2, K, pp, c)
      BY <3>2, <1>1, <1>15 DEF WinC
    <3>. QED
      BY <3>1, <3>3 DEF Win
  <2>. QED
    BY <2>1, <2>2, Sides
<1>17. Fine(m2, h.root, I, R2, P2, D2) /\ SameData(n, m2, I)
  BY <1>0, <1>9, <1>11 DEF Mended, Fine, SameData
<1>18. K \in R2[c]
  BY <1>1, <1>9
<1>. QED
  BY <1>11, <1>16, <1>17, <1>18 DEF TurnDone

\* A turn of the loop of st_insert at node c, whatever the window.
LEMMA InsertTurn ==
  ASSUME NEW I, Room(I), NEW n, NEW rt, NEW R, NEW P, NEW D, Fine(n, rt, I, R, P, D),
         NEW K \in Int, NEW c \in I, NEW p, NEW pp, NEW ppp, NEW d \in Dir, NEW ld \in Dir,
         OnPath(n, rt, I, R, K, c, p, d), Win(n, P, D, K, c, p, pp, ppp, ld),
         NEW m, m = PushedUp(n, c), NEW h, h = Fixed(m, rt, p, pp, ppp, ld, c)
  PROVE  TurnDone(n, h, I, K, c, p, pp, d)
<1>0. /\ Typed(n, I) /\ Shape(n, rt, I, R, P) /\ D = RedIn(n, I) /\ Even(n, D, I) /\ Under(n, D, I, Nil)
      /\ c # Nil /\ Nil \notin I
  BY DEF Fine, RedsAre, Room
<1>1. \/ m = n /\ \E e \in Dir : n[c][e] \notin D
      \/ /\ \A e \in Dir : n[c][e] \in D
         /\ Typed(m, I) /\ SameData(n, m, I) /\ SameSons(n, m, I)
         /\ \E D1 : /\ PushedReds(D1, D, n, c)
                    /\ RedsAre(m, I, D1) /\ Even(n, D1, I)
  BY <1>0, Push
<1>2. CASE m = n /\ \E e \in Dir : n[c][e] \notin D
  BY <1>2, CalmTurn
<1>3. CASE /\ \A e \in Dir : n[c][e] \in D
           /\ Typed(m, I) /\ SameData(n, m, I) /\ SameSons(n, m, I)
           /\ \E D1 : /\ PushedReds(D1, D, n, c)
                      /\ RedsAre(m, I, D1) /\ Even(n, D1, I)
  <2>1. PICK D1 : PushedReds(D1, D, n, c) /\ RedsAre(m, I, D1) /\ Even(n, D1, I)
    BY <1>3
  <2>2. AfterPush(n, m, rt, I, R, P, D1, K, c, p, pp, ppp, d, ld)
    BY <1>3, <2>1, Pushes
  <2>3. CASE p \notin D1
    BY <2>2, <2>3, PushTurn
  <2>4. CASE p \in D1 /\ d = ld
    BY <2>2, <2>4, OuterTurn
  <2>5. CASE p \in D1 /\ d # ld
    <3>1. d = Other(ld)
      BY <2>5, Sides
    <3>2. p # Nil /\ D1 \subseteq I
      BY <2>1, <2>5, <1>0 DEF RedsAre, RedIn
    <3>3. /\ p \in I /\ P[p] = pp /\ pp # Nil /\ m[pp][ld] = p
          /\ Shape(m, rt, I, R, P) /\ Typed(m, I)
      BY <3>2, <2>2, <2>5 DEF AfterPush
    <3>4. K \in R[p] /\ pp \in I
      BY <3>2, <3>3, <1>0 DEF OnPath, Shape
    <3>5. Links(m, I, rt, R, P)
      BY <3>3, AllLinks
    <3>6. Linked(m, I, rt, R, P, pp, ld)
      BY <3>2, <3>3, <3>4, <3>5 DEF Links
    <3>7. Before(ld, K, m[pp].key)
      BY <3>3, <3>4, <3>6 DEF Linked
    <3>8. pp \in I => Before(ld, K, n[pp].key)
      BY <3>7, <3>4, <1>3 DEF SameData
    <3>. QED
      BY <3>1, <3>8, <2>2, <2>5, InnerTurn
  <2>. QED
    BY <2>3, <2>4, <2>5
<1>. QED
  BY <1>1, <1>2, <1>3

----------------------------------------------------------------------------
(* The walk of an insertion: its turns, and its end.                       *)

\* A red-black tree; and one that an insertion of key K walks down.
IsTree(n, rt, I) == \E R, P, D : Fine(n, rt, I, R, P, D) /\ rt \notin D
InsertWalk(n, rt, I, K, c, p, pp, ppp, d, ld) ==
  \E R, P, D : /\ Fine(n, rt, I, R, P, D)
               /\ OnPath(n, rt, I, R, K, c, p, d)
               /\ Win(n, P, D, K, c, p, pp, ppp, ld)

LEMMA InsertStarts ==
  ASSUME NEW I, Room(I), NEW n, NEW rt, IsTree(n, rt, I), NEW K \in Int, NEW d, NEW ld
  PROVE  InsertWalk(n, rt, I, K, rt, Nil, Nil, Nil, d, ld)
<1>1. PICK R, P, D : Fine(n, rt, I, R, P, D) /\ rt \notin D
  BY DEF IsTree
<1>2. Typed(n, I) /\ Shape(n, rt, I, R, P) /\ rt \in I
  BY <1>1 DEF Fine, Shape
<1>3. PICK R2 : R2 = [R EXCEPT ![rt] = Int]
  OBVIOUS
<1>4. Shape(n, rt, I, R2, P) /\ R2[rt] = Int
  BY <1>2, <1>3, WidenRoot
<1>5. Fine(n, rt, I, R2, P, D)
  BY <1>1, <1>4 DEF Fine
<1>6. OnPath(n, rt, I, R2, K, rt, Nil, d)
  BY <1>2, <1>4 DEF OnPath
<1>7. Win(n, P, D, K, rt, Nil, Nil, Nil, ld)
  BY <1>1 DEF Win, WinA
<1>. QED
  BY <1>5, <1>6, <1>7 DEF InsertWalk

LEMMA InsertGoesOn ==
  ASSUME NEW I, Room(I), NEW n, NEW rt, NEW K \in Int, NEW c \in I, NEW p, NEW pp, NEW ppp,
         NEW d \in Dir, NEW ld \in Dir, InsertWalk(n, rt, I, K, c, p, pp, ppp, d, ld),
         NEW h, h = Fixed(PushedUp(n, c), rt, p, pp, ppp, ld, c)
  PROVE  /\ SameData(n, h.n, I)
         /\ \E R, P, D : Fine(h.n, h.root, I, R, P, D)
         /\ \A e \in Dir : Before(e, K, n[c].key) =>
              InsertWalk(h.n, h.root, I, K, h.n[c][e], c, p, pp, e, d)
<1>1. PICK R, P, D : /\ Fine(n, rt, I, R, P, D)
                     /\ OnPath(n, rt, I, R, K, c, p, d)
                     /\ Win(n, P, D, K, c, p, pp, ppp, ld)
  BY DEF InsertWalk
<1>2. PICK m : m = PushedUp(n, c)
  OBVIOUS
<1>3. TurnDone(n, h, I, K, c, p, pp, d)
  BY <1>1, <1>2, InsertTurn
<1>4. PICK R2, P2, D2 :
        /\ SameData(n, h.n, I) /\ Fine(h.n, h.root, I, R2, P2, D2) /\ K \in R2[c]
        /\ \A e \in Dir : Before(e, K, n[c].key) => Win(h.n, P2, D2, K, h.n[c][e], c, p, pp, d)
  BY <1>3 DEF TurnDone
<1>5. PICK m2, r2 : m2 = h.n /\ r2 = h.root
  OBVIOUS
<1>6. Typed(m2, I) /\ Shape(m2, r2, I, R2, P2) /\ c # Nil
  BY <1>4, <1>5 DEF Fine, Room
<1>7. m2[c].key = n[c].key
  BY <1>4, <1>5 DEF SameData
<1>8. ASSUME NEW e \in Dir, Before(e, K, n[c].key)
      PROVE  InsertWalk(m2, r2, I, K, m2[c][e], c, p, pp, e, d)
  <2>1. PICK j : j = m2[c][e]
    OBVIOUS
  <2>2. Win(m2, P2, D2, K, j, c, p, pp, d)
    BY <1>4, <1>5, <1>8, <2>1
  <2>3. CASE j = Nil
    <3>1. OnPath(m2, r2, I, R2, K, j, c, e)
      BY <2>1, <2>3, <1>4, <1>6, <1>7, <1>8 DEF OnPath
    <3>. QED
      BY <3>1, <2>1, <2>2, <1>4, <1>5 DEF InsertWalk
  <2>4. CASE j # Nil
    <3>2. PICK R3 : Widened(m2, R2, R3, c, e)
      BY DEF Widened
    <3>3. /\ Shape(m2, r2, I, R3, P2) /\ R3[c] = R2[c]
          /\ \A k \in R2[c] : Before(e, k, m2[c].key) => k \in R3[j]
      BY <1>6, <2>1, <2>4, <3>2, Widen
    <3>4. j \in I /\ j # c
      BY <1>6, <2>1, <2>4, OneParent
    <3>5. K \in R3[j] /\ K \in R3[c]
      BY <3>3, <3>4, <1>4, <1>7, <1>8
    <3>6. OnPath(m2, r2, I, R3, K, j, c, e)
      BY <3>4, <3>5, <2>1, <2>4, <1>6, <1>7, <1>8 DEF OnPath
    <3>7. Fine(m2, r2, I, R3, P2, D2)
      BY <3>3, <1>4, <1>5 DEF Fine
    <3>. QED
      BY <3>6, <3>7, <2>1, <2>2 DEF InsertWalk
  <2>. QED
    BY <2>3, <2>4
<1>. QED
  BY <1>4, <1>5, <1>8

\* A new red leaf s at the end of the path, under the root made black.
Grown(n, n3, rt, I, J, s, p, d, K, v) ==
  /\ \A i \in I : n3[i].key = n[i].key /\ n3[i].val = n[i].val
  /\ n3[s].key = K /\ n3[s].val = v
  /\ Typed(n3, J) /\ \A i \in I, e \in Dir : n3[i][e] = IF i = p /\ e = d THEN s ELSE n[i][e]
  /\ \A e \in Dir : n3[s][e] = Nil
  /\ RedsAre(n3, J, (RedIn(n, I) \cup {s}) \ {rt})

Joined(J, I, s) == s \notin I /\ J = I \cup {s} /\ Room(J)

\* The array with a new node in slot s.
NewNode(n, n1, I, J, s, K, v) ==
  /\ Typed(n1, J)
  /\ \A i \in I : n1[i] = n[i]
  /\ n1[s].key = K /\ n1[s].val = v
  /\ \A e \in Dir : n1[s][e] = Nil
  /\ n1[s].red = TRUE

LEMMA WiderNode ==
  ASSUME NEW I, NEW J, I \subseteq J, NEW B, NEW x,
         x \in [key : Key \cup {0}, val : 0 .. ValMod - 1,
                l : I \cup {Nil}, r : I \cup {Nil}, red : B]
  PROVE  x \in [key : Key \cup {0}, val : 0 .. ValMod - 1,
                l : J \cup {Nil}, r : J \cup {Nil}, red : B]
<1>1. PICK A, V : A = Key \cup {0} /\ V = 0 .. ValMod - 1
  OBVIOUS
<1>2. PICK X, Y : X = I \cup {Nil} /\ Y = J \cup {Nil}
  OBVIOUS
<1>3. X \subseteq Y
  BY <1>2
<1>4. x \in [key : A, val : V, l : X, r : X, red : B]
  BY <1>1, <1>2
<1>5. x \in [key : A, val : V, l : Y, r : Y, red : B]
  BY <1>3, <1>4
<1>. QED
  BY <1>1, <1>2, <1>5

LEMMA LeafMade ==
  ASSUME NEW I, Room(I), NEW n, Typed(n, I),
         NEW s, NEW J, Joined(J, I, s),
         NEW K \in Key, NEW v \in 0 .. ValMod - 1,
         NEW leaf, leaf = [key |-> K, val |-> v, l |-> Nil, r |-> Nil, red |-> TRUE],
         NEW n1, n1 = [i \in DOMAIN n \cup {s} |-> IF i = s THEN leaf ELSE n[i]]
  PROVE  NewNode(n, n1, I, J, s, K, v)
<1>J. s \notin I /\ J = I \cup {s} /\ Room(J)
  BY DEF Joined
<1>0. s # Aux /\ s \in J
  BY <1>J DEF Room
<1>1. PICK B : B = BOOLEAN
  OBVIOUS
<1>2. DOMAIN n = I \cup {Aux}
  BY DEF Typed
<1>3. /\ \A i \in I \cup {Aux} : n1[i] = n[i]
      /\ n1[s] = leaf
      /\ DOMAIN n1 = J \cup {Aux}
      /\ n1 = [i \in J \cup {Aux} |-> n1[i]]
  BY <1>0, <1>2, <1>J
<1>4. leaf \in [key : Key \cup {0}, val : 0 .. ValMod - 1,
                l : J \cup {Nil}, r : J \cup {Nil}, red : B]
  <2>1. TRUE \in B
    BY <1>1, Zenon
  <2>. QED
    BY <2>1
<1>5. ASSUME NEW i \in I \cup {Aux}
      PROVE  n1[i] \in [key : Key \cup {0}, val : 0 .. ValMod - 1,
                        l : J \cup {Nil}, r : J \cup {Nil}, red : B]
  <2>1. n[i] \in [key : Key \cup {0}, val : 0 .. ValMod - 1,
                  l : I \cup {Nil}, r : I \cup {Nil}, red : B]
    BY <1>1, Zenon DEF Typed
  <2>2. I \subseteq J
    BY <1>J
  <2>3. n[i] \in [key : Key \cup {0}, val : 0 .. ValMod - 1,
                  l : J \cup {Nil}, r : J \cup {Nil}, red : B]
    BY <2>1, <2>2, WiderNode, Zenon
  <2>. QED
    BY <2>3, <1>3, Zenon
<1>6. n1 \in [J \cup {Aux} -> [key : Key \cup {0}, val : 0 .. ValMod - 1,
                  l : J \cup {Nil}, r : J \cup {Nil}, red : B]]
  BY <1>3, <1>4, <1>5, <1>J
<1>7. Typed(n1, J)
  BY <1>1, <1>6, Zenon DEF Typed
<1>8. leaf.key = K /\ leaf.val = v /\ leaf["l"] = Nil /\ leaf["r"] = Nil /\ leaf.red = TRUE
  OBVIOUS
<1>9. \A e \in Dir : n1[s][e] = Nil
  BY <1>3, <1>8 DEF Dir
<1>10. n1[s].key = K /\ n1[s].val = v /\ n1[s].red = TRUE
  BY <1>3, <1>8, Zenon
<1>. QED
  BY <1>3, <1>7, <1>9, <1>10 DEF NewNode

LEMMA Grows ==
  ASSUME NEW I, Room(I), NEW n, Typed(n, I), NEW rt \in I,
         NEW s, NEW J, Joined(J, I, s),
         NEW p \in I, NEW d \in Dir,
         NEW K, NEW v,
         NEW n1, NewNode(n, n1, I, J, s, K, v),
         NEW n2, n2 = SetSon(n1, p, d, s), NEW n3, n3 = SetRed(n2, rt, FALSE)
  PROVE  Grown(n, n3, rt, I, J, s, p, d, K, v)
<1>J. s \notin I /\ J = I \cup {s} /\ Room(J)
  BY DEF Joined
<1>0. s # Aux /\ s \in J /\ p \in J /\ rt \in J /\ s # p /\ s # rt
  BY <1>J DEF Room
<1>1. Typed(n1, J)
  BY DEF NewNode
<1>2. \A i \in I : n1[i] = n[i]
  BY DEF NewNode
<1>3. Typed(n2, J) /\ SonSet(n1, n2, J, p, d, s) /\ SameData(n1, n2, J) /\ SameReds(n1, n2, J)
  BY <1>J, <1>0, <1>1, SetSonEffect
<1>4. Typed(n3, J) /\ SameData(n2, n3, J) /\ SameSons(n2, n3, J)
      /\ RedsAre(n3, J, RedIn(n2, J) \ {rt})
  BY <1>J, <1>0, <1>3, BlackenedOne
<1>5. RedIn(n2, J) = RedIn(n, I) \cup {s}
  <2>1. ASSUME NEW i \in J PROVE i \in RedIn(n2, J) <=> i \in RedIn(n, I) \cup {s}
    <3>1. n2[i].red = n1[i].red
      BY <1>3, <1>J DEF SameReds
    <3>2. i \in RedIn(n2, J) <=> n1[i].red
      BY <3>1, Zenon DEF RedIn
    <3>3. CASE i = s
      <4>1. n1[s].red = TRUE
        BY DEF NewNode
      <4>. QED
        BY <3>2, <3>3, <4>1, Zenon
    <3>4. CASE i # s
      <4>1. i \in I /\ n1[i] = n[i]
        BY <3>4, <1>2, <1>J
      <4>. QED
        BY <3>2, <3>4, <4>1, Zenon DEF RedIn
    <3>. QED
      BY <3>3, <3>4
  <2>2. RedIn(n2, J) \subseteq J /\ RedIn(n, I) \subseteq I
    BY DEF RedIn
  <2>. QED
    BY <2>1, <2>2, <1>J
<1>6. \A i \in I, e \in Dir : n3[i][e] = IF i = p /\ e = d THEN s ELSE n[i][e]
  <2>1. SUFFICES ASSUME NEW i \in I, NEW e \in Dir
                 PROVE n3[i][e] = IF i = p /\ e = d THEN s ELSE n[i][e]
    OBVIOUS
  <2>2. n3[i][e] = n2[i][e]
    BY <1>4, <1>J DEF SameSons
  <2>3. n2[i][e] = IF i = p /\ e = d THEN s ELSE n1[i][e]
    BY <1>3, <1>J DEF SonSet
  <2>. QED
    BY <2>2, <2>3, <1>2, <1>J
<1>7. \A e \in Dir : n3[s][e] = Nil
  <2>1. SUFFICES ASSUME NEW e \in Dir PROVE n3[s][e] = Nil
    OBVIOUS
  <2>2. n3[s][e] = n2[s][e]
    BY <1>0, <1>4 DEF SameSons
  <2>3. n2[s][e] = n1[s][e]
    BY <1>0, <1>3 DEF SonSet
  <2>4. n1[s][e] = Nil
    BY DEF NewNode
  <2>. QED
    BY <2>2, <2>3, <2>4
<1>8. /\ \A i \in I : n3[i].key = n[i].key /\ n3[i].val = n[i].val
      /\ n3[s].key = K /\ n3[s].val = v
  <2>1. \A i \in J : n3[i].key = n1[i].key /\ n3[i].val = n1[i].val
    BY <1>3, <1>4 DEF SameData
  <2>2. n1[s].key = K /\ n1[s].val = v
    BY DEF NewNode
  <2>. QED
    BY <2>1, <2>2, <1>0, <1>2, <1>J
<1>9. RedsAre(n3, J, (RedIn(n, I) \cup {s}) \ {rt})
  BY <1>4, <1>5 DEF RedsAre
<1>. QED
  BY <1>4, <1>6, <1>7, <1>8, <1>9 DEF Grown

\* The leaf in its place, with the parents P2 and the red nodes D3.
Leafed(n3, rt, J, R2, P2, D3, p) ==
  /\ Typed(n3, J) /\ Shape(n3, rt, J, R2, P2)
  /\ RedsAre(n3, J, D3) /\ Even(n3, D3, J) /\ Under(n3, D3, J, p)
LeafReds(D3, D, s, rt) == D3 = (D \cup {s}) \ {rt}

LEMMA LeafEven ==
  ASSUME NEW I, Room(I), NEW n, NEW rt, NEW R, NEW P, NEW D, Fine(n, rt, I, R, P, D),
         NEW s, NEW J, Joined(J, I, s),
         NEW p \in I, NEW d \in Dir, n[p][d] = Nil,
         NEW K, NEW v, NEW n3, Grown(n, n3, rt, I, J, s, p, d, K, v), NEW R2, NEW P2, Shape(n3, rt, J, R2, P2),
         NEW D3, LeafReds(D3, D, s, rt)
  PROVE  Even(n3, D3, J)
<1>J. s \notin I /\ J = I \cup {s} /\ Room(J)
  BY DEF Joined
<1>1. PICK H : Balanced(n, D, H, I)
  BY DEF Fine, Even
<1>2. PICK H2 : H2 = [i \in J |-> IF i = s THEN 0 ELSE H[i]]
  OBVIOUS
<1>3. PICK D1 : D1 = D \cup {s}
  OBVIOUS
<1>4. Typed(n, I) /\ Typed(n3, J) /\ D \subseteq I /\ Nil \notin J /\ Nil \notin I /\ s # Nil
  BY <1>J DEF Fine, Grown, Room, RedsAre, RedIn
<1>5. H \in [I -> Nat] /\ H2 \in [J -> Nat] /\ H2[s] = 0 /\ \A i \in I : H2[i] = H[i]
  BY <1>1, <1>2, <1>J DEF Balanced
<1>6. ASSUME NEW i \in J, NEW e \in Dir
      PROVE  H2[i] = BH(H2, n3[i][e]) + IF i \in D1 THEN 0 ELSE 1
  <2>1. CASE i = s
    <3>1. n3[i][e] = Nil
      BY <2>1 DEF Grown
    <3>. QED
      BY <3>1, <2>1, <1>3, <1>5 DEF BH
  <2>2. CASE i # s
    <3>0. i \in I /\ n[i][e] \in I \cup {Nil}
      BY <2>2, <1>4, <1>J, SonOf
    <3>1. n3[i][e] = IF i = p /\ e = d THEN s ELSE n[i][e]
      BY <3>0 DEF Grown
    <3>2. BH(H2, n3[i][e]) = BH(H, n[i][e])
      BY <3>0, <3>1, <1>4, <1>5, <1>J DEF BH
    <3>3. H[i] = BH(H, n[i][e]) + IF i \in D THEN 0 ELSE 1
      BY <3>0, <1>1 DEF Balanced
    <3>. QED
      BY <3>0, <3>2, <3>3, <2>2, <1>3, <1>5
  <2>. QED
    BY <2>1, <2>2
<1>7. Balanced(n3, D1, H2, J)
  BY <1>5, <1>6 DEF Balanced
<1>8. D3 = D1 \ {rt}
  BY <1>3 DEF LeafReds
<1>. QED
  BY <1>4, <1>7, <1>8, <1>J, BlackRoot DEF Even

LEMMA LeafHangs ==
  ASSUME NEW I, Room(I), NEW n, NEW rt, NEW R, NEW P, NEW D, Fine(n, rt, I, R, P, D),
         NEW s, NEW J, Joined(J, I, s),
         NEW p \in I, NEW d \in Dir, n[p][d] = Nil,
         NEW K \in Int, K \in R[p], Before(d, K, n[p].key),
         NEW v, NEW n3, Grown(n, n3, rt, I, J, s, p, d, K, v),
         NEW D3, LeafReds(D3, D, s, rt)
  PROVE  \E R2, P2 : Leafed(n3, rt, J, R2, P2, D3, p) /\ ParentsIn(P2, P, I) /\ P2[s] = p
<1>J. s \notin I /\ J = I \cup {s} /\ Room(J)
  BY DEF Joined
<1>1. /\ Typed(n, I) /\ Shape(n, rt, I, R, P) /\ Typed(n3, J)
      /\ D \subseteq I /\ Nil \notin J /\ Nil \notin I /\ s # Nil
  BY <1>J DEF Fine, Grown, Room, RedsAre, RedIn
<1>5. \A e \in Dir : n3[s][e] = Nil
  BY DEF Grown
<1>6. PICK R2, P2 : Shape(n3, rt, J, R2, P2) /\ ParentsIn(P2, P, I) /\ P2[s] = p
  <2>1. n3[s].key \in R[p] /\ Before(d, n3[s].key, n[p].key)
    BY DEF Grown
  <2>2. Typed(n, I) /\ Shape(n, rt, I, R, P) /\ s # Nil
    BY <1>1
  <2>3. NewLeaf(n, n3, I, s, p, d)
    BY DEF Grown, NewLeaf
  <2>. QED
    BY <2>1, <2>2, <2>3, <1>J, AddLeaf
<1>7. Even(n3, D3, J)
  BY <1>6, LeafEven
<1>8. RedsAre(n3, J, D3)
  <2>1. D = RedIn(n, I)
    BY DEF Fine, RedsAre
  <2>2. RedsAre(n3, J, (RedIn(n, I) \cup {s}) \ {rt})
    BY DEF Grown
  <2>. QED
    BY <2>1, <2>2 DEF LeafReds, RedsAre
<1>9. Under(n3, D3, J, p)
  <2>1. SUFFICES ASSUME NEW i \in J, NEW e \in Dir, i \in D3, n3[i][e] \in D3
                 PROVE  i = p
    BY DEF Under
  <2>2. D3 \subseteq J /\ \A j \in D3 : j # s => j \in D
    BY <1>1, <1>J DEF LeafReds
  <2>6. n3[i][e] # Nil
    BY <2>1, <2>2, <1>1
  <2>3. i # s
    BY <2>1, <2>2, <1>1, <1>5
  <2>4. i \in I /\ i \in D /\ n[i][e] \in I \cup {Nil}
    BY <2>1, <2>2, <2>3, <1>1, <1>J, SonOf
  <2>5. n[i][e] \notin D
    BY <2>4, <1>1 DEF Fine, Under
  <2>7. n3[i][e] = IF i = p /\ e = d THEN s ELSE n[i][e]
    BY <2>4 DEF Grown
  <2>8. n3[i][e] = s
    BY <2>1, <2>2, <2>5, <2>7
  <2>. QED
    BY <1>1, <1>J, <2>4, <2>7, <2>8, SMTT(30)
<1>. QED
  BY <1>1, <1>6, <1>7, <1>8, <1>9, Zenon DEF Leafed

LEMMA RootSpared ==
  ASSUME NEW D3, NEW rt, rt \notin D3, NEW x, NEW y, x # y, NEW D4, Exchanged(D4, D3, y, x),
         NEW r, r = IF x = rt THEN y ELSE rt
  PROVE  r \notin D4
  BY DEF Exchanged

\* A new leaf s under a red parent p, which has a black brother.
LeafUnderRed(n3, J, P2, D3, s, p, pp, ppp, d, ld) ==
  /\ p \in J /\ s \in J /\ p \in D3 /\ s \in D3 /\ s # p
  /\ n3[p][d] = s /\ n3[p][Other(d)] \notin D3 /\ \A e \in Dir : n3[s][e] = Nil
  /\ pp \in J /\ n3[pp][ld] = p /\ P2[pp] = ppp /\ pp \notin D3 /\ n3[pp][Other(ld)] \notin D3

LEMMA LeafOuter ==
  ASSUME NEW J, Room(J), NEW n3, NEW rt, NEW R2, NEW P2, NEW D3, NEW p,
         Leafed(n3, rt, J, R2, P2, D3, p), rt \notin D3, NEW s, NEW pp, NEW ppp, NEW ld \in Dir,
         LeafUnderRed(n3, J, P2, D3, s, p, pp, ppp, ld, ld),
         NEW h, h = Fixed(n3, rt, p, pp, ppp, ld, s)
  PROVE  SameData(n3, h.n, J) /\ IsTree(h.n, h.root, J)
<1>1. /\ Typed(n3, J) /\ Shape(n3, rt, J, R2, P2)
      /\ RedsAre(n3, J, D3) /\ Even(n3, D3, J) /\ Under(n3, D3, J, p)
      /\ Nil \notin J
  BY DEF Leafed, Room
<1>2. /\ pp \in J /\ n3[pp][ld] = p /\ P2[pp] = ppp /\ pp \notin D3 /\ p \in D3 /\ s \in D3
      /\ pp # Nil /\ p # Nil /\ s # Nil /\ pp # p /\ n3[p][ld] = s
  BY <1>1 DEF LeafUnderRed
<1>3. PICK od \in Dir : od = Other(ld)
  BY Sides
<1>4. n3[s].red /\ n3[p].red
  BY <1>1, <1>2, Zenon DEF RedsAre, RedIn
<1>5. PICK rot : rot = Rot1(n3, pp, od, ld)
  OBVIOUS
<1>6. h = Rehang([n |-> rot.n, root |-> rt], P2[pp], pp, rot.top)
  BY <1>2, <1>3, <1>4, <1>5, Zenon DEF Fixed
<1>7. /\ p = n3[pp][ld] /\ p # Nil /\ p \in D3 /\ pp \notin D3 /\ s = n3[p][ld] /\ s # Nil
      /\ n3[pp][od] \notin D3 /\ n3[p][od] \notin D3 /\ pp \in J
  BY <1>2, <1>3 DEF LeafUnderRed
<1>8. MendedSome(n3, h, J, rt, R2, P2, D3, pp, p, s, {pp, p})
  <2>1. Typed(n3, J) /\ Shape(n3, rt, J, R2, P2) /\ RedsAre(n3, J, D3) /\ Even(n3, D3, J)
    BY <1>1
  <2>2. /\ p = n3[pp][ld] /\ p # Nil /\ pp \notin D3 /\ s = n3[p][ld] /\ s # Nil /\ Under(n3, D3, J, p)
        /\ n3[pp][od] \notin D3 /\ n3[p][od] \notin D3
    BY <1>1, <1>7
  <2>3. pp \in J /\ p \in D3
    BY <1>7
  <2>. QED
    BY <2>1, <2>2, <2>3, <1>3, <1>5, <1>6, Fix1, SMTT(60)
<1>9. PICK R3, P3, D4 : /\ Exchanged(D4, D3, p, pp)
                        /\ Mended(n3, h.n, h.root, J, R3, P3, D4)
                        /\ h.root = IF pp = rt THEN p ELSE rt
  BY <1>8 DEF MendedSome
<1>10. h.root \notin D4
  BY <1>2, <1>9, RootSpared
<1>. QED
  BY <1>9, <1>10 DEF Mended, IsTree, Fine

LEMMA LeafInner ==
  ASSUME NEW J, Room(J), NEW n3, NEW rt, NEW R2, NEW P2, NEW D3, NEW p,
         Leafed(n3, rt, J, R2, P2, D3, p), rt \notin D3, NEW s, NEW pp, NEW ppp,
         NEW ld \in Dir, NEW od \in Dir, od = Other(ld),
         LeafUnderRed(n3, J, P2, D3, s, p, pp, ppp, od, ld),
         NEW h, h = Fixed(n3, rt, p, pp, ppp, ld, s)
  PROVE  SameData(n3, h.n, J) /\ IsTree(h.n, h.root, J)
<1>1. /\ Typed(n3, J) /\ Shape(n3, rt, J, R2, P2)
      /\ RedsAre(n3, J, D3) /\ Even(n3, D3, J) /\ Under(n3, D3, J, p)
      /\ Nil \notin J /\ D3 \subseteq J
  BY DEF Leafed, Room, RedsAre, RedIn
<1>0. Other(od) = ld
  BY Sides
<1>2. /\ pp \in J /\ n3[pp][ld] = p /\ P2[pp] = ppp /\ pp \notin D3 /\ p \in D3 /\ s \in D3
      /\ pp # Nil /\ p # Nil /\ s # Nil /\ pp # s /\ n3[p][ld] # s
  BY <1>0, <1>1 DEF LeafUnderRed
<1>4. n3[s].red /\ n3[p].red
  BY <1>1, <1>2, Zenon DEF RedsAre, RedIn
<1>5. PICK rot : rot = Rot2(n3, pp, od, ld)
  OBVIOUS
<1>6. h = Rehang([n |-> rot.n, root |-> rt], P2[pp], pp, rot.top)
  BY <1>2, <1>4, <1>5, Zenon DEF Fixed
<1>7. /\ p = n3[pp][ld] /\ p # Nil /\ p \in D3 /\ pp \notin D3 /\ s = n3[p][od] /\ s # Nil /\ s \in D3
      /\ n3[pp][od] \notin D3 /\ n3[p][ld] \notin D3 /\ pp \in J
  BY <1>0, <1>2 DEF LeafUnderRed
<1>3. \A e \in Dir : n3[s][e] \notin D3
  BY <1>1 DEF LeafUnderRed
<1>8. MendedSome(n3, h, J, rt, R2, P2, D3, pp, s, s, {pp, p, s})
  <2>1. Typed(n3, J) /\ Shape(n3, rt, J, R2, P2) /\ RedsAre(n3, J, D3) /\ Even(n3, D3, J)
    BY <1>1
  <2>2. /\ p = n3[pp][ld] /\ p # Nil /\ pp \notin D3 /\ s = n3[p][od] /\ s # Nil /\ Under(n3, D3, J, p)
        /\ n3[pp][od] \notin D3 /\ n3[p][ld] \notin D3
    BY <1>1, <1>7
  <2>3. pp \in J /\ p \in D3 /\ s \in D3
    BY <1>7
  <2>. QED
    BY <2>1, <2>2, <2>3, <1>3, <1>5, <1>6, Fix2, ZenonT(60)
<1>9. PICK R3, P3, D4 : /\ Exchanged(D4, D3, s, pp)
                        /\ Mended(n3, h.n, h.root, J, R3, P3, D4)
                        /\ h.root = IF pp = rt THEN s ELSE rt
  BY <1>8 DEF MendedSome
<1>10. h.root \notin D4
  BY <1>2, <1>9, RootSpared
<1>. QED
  BY <1>9, <1>10 DEF Mended, IsTree, Fine

LEMMA LeafFixed ==
  ASSUME NEW J, Room(J), NEW n3, NEW rt, NEW R2, NEW P2, NEW D3, NEW p,
         Leafed(n3, rt, J, R2, P2, D3, p), rt \notin D3, NEW s \in J, NEW pp, NEW ppp,
         NEW d \in Dir, NEW ld \in Dir,
         (p \in J /\ p \notin D3) \/ LeafUnderRed(n3, J, P2, D3, s, p, pp, ppp, d, ld),
         NEW h, h = Fixed(n3, rt, p, pp, ppp, ld, s)
  PROVE  SameData(n3, h.n, J) /\ IsTree(h.n, h.root, J)
<1>1. CASE p \in J /\ p \notin D3
  <2>0. Typed(n3, J) /\ Shape(n3, rt, J, R2, P2) /\ RedsAre(n3, J, D3) /\ Even(n3, D3, J)
    BY DEF Leafed
  <2>1. h = [n |-> n3, root |-> rt]
    BY <1>1, <2>0, Unfixed
  <2>2. Under(n3, D3, J, Nil)
    BY <1>1 DEF Leafed, Under
  <2>3. SameData(n3, n3, J)
    BY DEF SameData
  <2>4. IsTree(n3, rt, J)
    BY <2>0, <2>2 DEF IsTree, Fine
  <2>. QED
    BY <2>1, <2>3, <2>4
<1>2. CASE LeafUnderRed(n3, J, P2, D3, s, p, pp, ppp, d, ld)
  <2>1. CASE d = ld
    BY <1>2, <2>1, LeafOuter
  <2>2. CASE d = Other(ld)
    BY <1>2, <2>2, LeafInner
  <2>. QED
    BY <2>1, <2>2, Sides
<1>. QED
  BY <1>1, <1>2

\* What the window says of a red parent where the walk falls off the tree.
WinAtEnd(n, I, R, P, D, K, p, pp, ppp, d, ld) ==
  /\ p \in I /\ n[p][d] = Nil /\ K \in R[p] /\ Before(d, K, n[p].key)
  /\ p \in D => /\ pp \in I /\ n[pp][ld] = p /\ P[p] = pp /\ P[pp] = ppp /\ pp \notin D
                /\ n[pp][Other(ld)] \notin D /\ n[p][Other(d)] \notin D

LEMMA FallsOff ==
  ASSUME NEW I, Room(I), NEW n, NEW rt, NEW R, NEW P, NEW D, Fine(n, rt, I, R, P, D),
         NEW K \in Int, NEW p, NEW pp, NEW ppp, NEW d \in Dir, NEW ld \in Dir,
         OnPath(n, rt, I, R, K, Nil, p, d), Win(n, P, D, K, Nil, p, pp, ppp, ld)
  PROVE  WinAtEnd(n, I, R, P, D, K, p, pp, ppp, d, ld)
<1>1. /\ Typed(n, I) /\ Shape(n, rt, I, R, P) /\ Under(n, D, I, Nil)
      /\ D \subseteq I /\ Nil \notin I /\ rt \in I
  BY DEF Fine, Shape, Room, RedsAre, RedIn
<1>2. p # Nil
  BY <1>1 DEF OnPath
<1>3. p \in I /\ n[p][d] = Nil /\ K \in R[p] /\ Before(d, K, n[p].key)
  BY <1>2 DEF OnPath
<1>4. ~Calm(n, D, Nil)
  BY DEF Calm
<1>5. WinA(n, P, D, Nil, p, pp, ppp, ld)
  BY <1>1, <1>4 DEF Win, WinB, WinC
<1>6. ASSUME p \in D
      PROVE  /\ pp \in I /\ n[pp][ld] = p /\ P[p] = pp /\ P[pp] = ppp /\ pp \notin D
             /\ n[pp][Other(ld)] \notin D /\ n[p][Other(d)] \notin D
  <2>1. /\ P[p] = pp /\ pp # Nil /\ n[pp][ld] = p /\ P[pp] = ppp
        /\ n[pp][Other(ld)] \notin D
    BY <1>2, <1>4, <1>5, <1>6 DEF WinA
  <2>2. pp \in I
    BY <2>1, <1>1, <1>3 DEF Shape
  <2>3. pp \notin D /\ n[p][Other(d)] \notin D
    BY <2>1, <2>2, <1>1, <1>3, <1>6, Sides DEF Under
  <2>. QED
    BY <2>1, <2>2, <2>3
<1>. QED
  BY <1>3, <1>6 DEF WinAtEnd

\* The window over the new leaf.
LEMMA WinOverLeaf ==
  ASSUME NEW I, Room(I), NEW n, Typed(n, I), NEW rt, NEW R, NEW P, Shape(n, rt, I, R, P),
         NEW D, D \subseteq I, NEW K, NEW p, NEW pp, NEW ppp, NEW d \in Dir, NEW ld \in Dir,
         WinAtEnd(n, I, R, P, D, K, p, pp, ppp, d, ld),
         NEW s, NEW J, Joined(J, I, s), NEW v, NEW n3, Grown(n, n3, rt, I, J, s, p, d, K, v),
         NEW P2, ParentsIn(P2, P, I), NEW D3, LeafReds(D3, D, s, rt)
  PROVE  (p \in J /\ p \notin D3) \/ LeafUnderRed(n3, J, P2, D3, s, p, pp, ppp, d, ld)
<1>J. s \notin I /\ J = I \cup {s} /\ Room(J) /\ Nil \notin J
  BY DEF Joined, Room
<1>1. p \in I /\ s # p /\ Other(d) \in Dir /\ Other(d) # d /\ Other(ld) \in Dir
  BY <1>J, Sides DEF WinAtEnd
<1>2. \A i \in I, e \in Dir : n3[i][e] = IF i = p /\ e = d THEN s ELSE n[i][e]
  BY DEF Grown
<1>3. \A i \in I, e \in Dir : n[i][e] \in I \cup {Nil}
  BY SonOf
<1>4. \A i \in I \cup {Nil} : i \in D3 => i \in D
  BY <1>J DEF LeafReds
<1>5. n3[p][d] = s /\ n3[p][Other(d)] = n[p][Other(d)]
  BY <1>1, <1>2
<1>7. /\ s \in D3
      /\ \A e \in Dir : n3[s][e] = Nil
  BY <1>J DEF Grown, LeafReds, Shape
<1>6. ASSUME p \in D3
      PROVE /\ pp \in J /\ n3[pp][ld] = p /\ P2[pp] = ppp /\ pp \notin D3 /\ n3[pp][Other(ld)] \notin D3
            /\ n3[p][Other(d)] \notin D3
  <2>1. p \in D
    BY <1>1, <1>4, <1>6
  <2>2. /\ pp \in I /\ n[pp][ld] = p /\ P[pp] = ppp /\ pp \notin D
        /\ n[pp][Other(ld)] \notin D /\ n[p][Other(d)] \notin D
    BY <2>1 DEF WinAtEnd
  <2>3. pp # p
    BY <2>1, <2>2
  <2>4. n3[pp][ld] = p /\ n3[pp][Other(ld)] = n[pp][Other(ld)]
    BY <2>2, <2>3, <1>1, <1>2
  <2>5. n3[pp][Other(ld)] \notin D3 /\ n3[p][Other(d)] \notin D3
    BY <2>2, <2>4, <1>1, <1>3, <1>4, <1>5
  <2>6. P2[pp] = ppp
    BY <2>2 DEF ParentsIn
  <2>. QED
    BY <2>2, <2>4, <2>5, <2>6, <1>4, <1>J
<1>. QED
  BY <1>J, <1>1, <1>5, <1>6, <1>7 DEF LeafUnderRed

MayGrow(n, n3, rt, I, J, s, p, d, K, v) == p \in I => Grown(n, n3, rt, I, J, s, p, d, K, v)
\* Key K, which was not there, has a node of its own.
NodeAdded(n, m, I, s, K, v) ==
  /\ \A i \in I : n[i].key # K /\ m[i].key = n[i].key /\ m[i].val = n[i].val
  /\ m[s].key = K /\ m[s].val = v

\* The walk of an insertion falls off the tree, and the new node is hung there.
LEMMA InsertEnds ==
  ASSUME NEW I, Room(I), NEW n, NEW rt, NEW K \in Int, NEW v,
         NEW p, NEW pp, NEW ppp, NEW d \in Dir, NEW ld \in Dir,
         InsertWalk(n, rt, I, K, Nil, p, pp, ppp, d, ld),
         NEW s, NEW J, Joined(J, I, s),
         NEW n3, MayGrow(n, n3, rt, I, J, s, p, d, K, v), NEW h, h = Fixed(n3, rt, p, pp, ppp, ld, s)
  PROVE  IsTree(h.n, h.root, J) /\ NodeAdded(n, h.n, I, s, K, v)
<1>1. PICK R, P, D : /\ Fine(n, rt, I, R, P, D)
                     /\ OnPath(n, rt, I, R, K, Nil, p, d)
                     /\ Win(n, P, D, K, Nil, p, pp, ppp, ld)
  BY DEF InsertWalk
<1>2. WinAtEnd(n, I, R, P, D, K, p, pp, ppp, d, ld)
  BY <1>1, FallsOff
<1>3. Typed(n, I) /\ Shape(n, rt, I, R, P) /\ rt \in I /\ D \subseteq I /\ s \in J /\ J = I \cup {s} /\ Room(J)
  BY <1>1 DEF Fine, Shape, Room, RedsAre, RedIn, Joined
<1>4. p \in I /\ n[p][d] = Nil /\ K \in R[p] /\ Before(d, K, n[p].key)
  BY <1>2 DEF WinAtEnd
<1>5. Grown(n, n3, rt, I, J, s, p, d, K, v)
  BY <1>4 DEF MayGrow
<1>6. PICK D3 : LeafReds(D3, D, s, rt)
  BY DEF LeafReds
<1>7. PICK R2, P2 : Leafed(n3, rt, J, R2, P2, D3, p) /\ ParentsIn(P2, P, I) /\ P2[s] = p
  <2>2. Fine(n, rt, I, R, P, D) /\ p \in I /\ n[p][d] = Nil /\ K \in R[p] /\ Before(d, K, n[p].key)
    BY <1>1, <1>4
  <2>. QED
    BY <2>2, <1>5, <1>6, LeafHangs
<1>8. (p \in J /\ p \notin D3) \/ LeafUnderRed(n3, J, P2, D3, s, p, pp, ppp, d, ld)
  BY <1>2, <1>3, <1>5, <1>6, <1>7, WinOverLeaf
<1>9. rt \notin D3
  BY <1>6 DEF LeafReds
<1>11. SameData(n3, h.n, J) /\ IsTree(h.n, h.root, J)
  BY <1>3, <1>7, <1>8, <1>9, LeafFixed
<1>12. \A i \in I : n[i].key # K
  BY <1>3, <1>4, NoKey
<1>13. \A i \in J : h.n[i].key = n3[i].key /\ h.n[i].val = n3[i].val
  BY <1>11 DEF SameData
<1>14. /\ \A i \in I : n3[i].key = n[i].key /\ n3[i].val = n[i].val
       /\ n3[s].key = K /\ n3[s].val = v
  BY <1>5 DEF Grown
<1>. QED
  <2>1. \A i \in I : h.n[i].key = n[i].key /\ h.n[i].val = n[i].val
    BY <1>3, <1>14, <1>13
  <2>2. h.n[s].key = K /\ h.n[s].val = v
    BY <1>3, <1>14, <1>13
  <2>. QED
    BY <2>1, <2>2, <1>11, <1>12 DEF NodeAdded

----------------------------------------------------------------------------
(* The walk of a deletion: red nodes pushed down.                          *)

\* The walk of a deletion of key K is at c, and f holds the key if it has been
\* met: what is left to look through is next to K, from below.
Lower(S, K) == \A a \in S, k \in Int : a <= k /\ k < K => k \in S
DelPath(n, I, R, K, c, f) ==
  /\ c \in I /\ Lower(R[c], K)
  /\ f = Nil => K \in R[c]
  /\ f # Nil => f \in I /\ n[f].key = K /\ R[c] \subseteq R[f] /\ \A k \in R[c] : k < K
\* Its window: c or its parent is red, or there is a black root over two black sons.
DelWin(n, rt, P, D, I, c, p, pp, wd) ==
  /\ n[Aux].r = rt /\ n[Aux].l = Nil
  /\ c = rt => p = Aux /\ pp = Nil /\ wd = "r"
  /\ c # rt => p \in I /\ P[c] = p /\ n[p][wd] = c /\ pp = IF p = rt THEN Aux ELSE P[p]
  /\ p = Aux \/ p \in D \/ c \in D \/ (p = rt /\ n[p][Other(wd)] \notin D)
\* What a turn of the walk makes of the tree before it goes to side d.
DeleteDone(n, t, I, K, c, d, f) ==
  \E R2, P2, D2 :
    /\ SameData(n, t.n, I) /\ Fine(t.n, t.root, I, R2, P2, D2)
    /\ t.n[Aux].r = t.root /\ t.n[Aux].l = Nil
    /\ t.p = (IF c = t.root THEN Aux ELSE P2[c])
    /\ c \in D2 \/ t.n[c][d] \in D2 \/ (c = t.root /\ t.n[c][Other(d)] \notin D2)
    /\ DelPath(t.n, I, R2, K, c, f)

LEMMA AsItIs ==
  ASSUME NEW I, NEW n, NEW rt, NEW R, NEW P, NEW D, Fine(n, rt, I, R, P, D),
         NEW K, NEW c, NEW p, NEW pp, NEW wd, NEW d, NEW f,
         DelWin(n, rt, P, D, I, c, p, pp, wd), DelPath(n, I, R, K, c, f),
         c \in D \/ n[c][d] \in D \/ (c = rt /\ n[c][Other(d)] \notin D),
         NEW t, t = [n |-> n, root |-> rt, p |-> p]
  PROVE  DeleteDone(n, t, I, K, c, d, f)
<1>1. t.n = n /\ t.root = rt /\ t.p = p
  OBVIOUS
<1>2. SameData(n, n, I)
  BY DEF SameData
<1>3. p = IF c = rt THEN Aux ELSE P[c]
  BY DEF DelWin
<1>4. n[Aux].r = rt /\ n[Aux].l = Nil
  BY DEF DelWin
<1>. QED
  BY <1>1, <1>2, <1>3, <1>4 DEF DeleteDone

\* The part of the path that a rotation of c leaves to it.
LEMMA PathTurned ==
  ASSUME NEW I, Room(I), NEW n, Typed(n, I), NEW rt, NEW R, NEW P, Shape(n, rt, I, R, P),
         NEW K \in Int, NEW c, NEW f, DelPath(n, I, R, K, c, f), NEW m, SameData(n, m, I),
         NEW d \in Dir, Before(d, K, n[c].key) \/ (K = n[c].key /\ d = "l"),
         NEW xd \in Dir, xd # d, NEW y, y = n[c][xd], y # Nil,
         NEW R2, R2 = TurnedRange(n, R, c, y, d)
  PROVE  DelPath(m, I, R2, K, c, f)
<1>1. /\ c \in I /\ Lower(R[c], K)
      /\ f = Nil => K \in R[c]
      /\ f # Nil => f \in I /\ n[f].key = K /\ R[c] \subseteq R[f] /\ \A k \in R[c] : k < K
  BY DEF DelPath
<1>2. /\ y \in I /\ y # c /\ n[y].key \in R[c] /\ n[y].key \in Int /\ n[c].key \in Int /\ n[c].key \in R[c]
      /\ Before(xd, n[y].key, n[c].key)
  <2>0. c \in I
    BY <1>1
  <2>1. /\ y \in I /\ y # c /\ n[y].key \in R[c]
        /\ \A k \in R[y] : k \in Int /\ Before(xd, k, n[c].key)
        /\ n[y].key \in R[y]
    BY <2>0, Link1
  <2>2. n[c].key \in Int /\ n[c].key \in R[c]
    BY <2>0, KeyOf DEF Shape
  <2>. QED
    BY <2>0, <2>1, <2>2
<1>3. Before(d, n[c].key, n[y].key)
  BY <1>2, BeforeOrder
<1>4. R2[c] = {k \in R[c] : Before(d, k, n[y].key)} /\ \A i \in I : i # c /\ i # y => R2[i] = R[i]
  BY <1>1, <1>2 DEF TurnedRange, Shape
<1>5. R[c] \subseteq Int
  BY <1>1 DEF Shape
<1>6. f = Nil => K \in R2[c]
  BY <1>1, <1>2, <1>3, <1>4, <1>5 DEF Before
<1>7. f # Nil => f # c /\ f # y
  BY <1>1, <1>2
<1>8. f # Nil => d = "r"
  BY <1>1, <1>2 DEF Before, Dir
<1>9. Lower(R2[c], K)
  <2>1. SUFFICES ASSUME NEW a \in R2[c], NEW k \in Int, a <= k, k < K PROVE k \in R2[c]
    BY DEF Lower
  <2>2. a \in R[c] /\ a \in Int /\ Before(d, a, n[y].key)
    BY <1>4, <1>5
  <2>3. k \in R[c]
    BY <2>1, <2>2, <1>1 DEF Lower
  <2>4. CASE d = "r"
    BY <2>1, <2>2, <2>3, <2>4, <1>2, <1>4 DEF Before
  <2>5. CASE d = "l"
    BY <2>1, <2>2, <2>3, <2>5, <1>2, <1>3, <1>4 DEF Before
  <2>. QED
    BY <2>4, <2>5 DEF Dir
<1>10. f # Nil => f \in I /\ m[f].key = K /\ R2[c] \subseteq R2[f] /\ \A k \in R2[c] : k < K
  BY <1>1, <1>4, <1>7 DEF SameData
<1>. QED
  BY <1>1, <1>6, <1>9, <1>10 DEF DelPath

\* The current node is rotated under its red son y.
LEMMA RotatesDown ==
  ASSUME NEW I, Room(I), NEW n, NEW rt, NEW R, NEW P, NEW D, Fine(n, rt, I, R, P, D),
         NEW K \in Int, NEW c, NEW p, NEW pp, NEW wd \in Dir, NEW d \in Dir, NEW f,
         DelWin(n, rt, P, D, I, c, p, pp, wd), DelPath(n, I, R, K, c, f),
         Before(d, K, n[c].key) \/ (K = n[c].key /\ d = "l"),
         NEW xd, xd = Other(d), NEW y, y = n[c][xd], y \in D, c \notin D, n[c][d] \notin D,
         NEW rot, rot = Rot1(n, c, d, xd), NEW m, m = SetSon(rot.n, p, wd, y),
         NEW t, t = [n |-> m, root |-> IF c = rt THEN y ELSE rt, p |-> y]
  PROVE  DeleteDone(n, t, I, K, c, d, f)
<1>1. /\ Typed(n, I) /\ Shape(n, rt, I, R, P) /\ RedIn(n, I) = D /\ Even(n, D, I) /\ Under(n, D, I, Nil)
      /\ D \subseteq I /\ Nil \notin I /\ rt \in I /\ c \in I /\ Aux \notin I
  BY DEF Fine, RedsAre, RedIn, Room, Shape, DelPath
<1>2. xd \in Dir /\ xd # d /\ y # Nil /\ y \in I
  BY <1>1, Sides
<1>3. y # c
  BY <1>1, <1>2, OneParent
<1>4. Hook(n, rt, I, c, p, wd)
  BY DEF Hook, DelWin
<1>5. Hung(n, m, I, c, y, d, xd, p, wd)
  BY <1>1, <1>2, <1>4, TurnHung
<1>6. /\ Typed(m, I) /\ SameData(n, m, I) /\ Turned(n, m, I, c, y, d, xd)
      /\ RedIn(m, I) = (D \ {y}) \cup {c}
      /\ \A e \in Dir : m[Aux][e] = IF p = Aux /\ e = wd THEN y ELSE n[Aux][e]
  BY <1>1, <1>5 DEF Hung
<1>7. PICK rt2 : rt2 = IF c = rt THEN y ELSE rt
  OBVIOUS
<1>8. PICK R2, P2 : R2 = TurnedRange(n, R, c, y, d) /\ P2 = TurnedUp(n, P, c, y, d)
  OBVIOUS
<1>9. Shape(m, rt2, I, R2, P2)
  BY <1>1, <1>2, <1>6, <1>7, <1>8, TurnShape
<1>10. PICK D2 : Exchanged(D2, D, y, c)
  BY DEF Exchanged
<1>11. RedsAre(m, I, D2)
  BY <1>6, <1>10 DEF RedsAre, Exchanged
<1>12. Even(m, D2, I)
  <2>1. Typed(n, I) /\ Shape(n, rt, I, R, P) /\ Even(n, D, I) /\ c \in I
    BY <1>1
  <2>2. Turned(n, m, I, c, y, d, xd) /\ xd \in Dir /\ xd # d /\ y # Nil
    BY <1>2, <1>6
  <2>. QED
    BY <2>1, <2>2, <1>10, TurnHeights
<1>13. Under(m, D2, I, Nil)
  <2>1. Under(n, D, I, y)
    BY <1>1 DEF Under
  <2>2. n[y][d] \notin D
    BY <1>1, <1>2 DEF Under
  <2>. QED
    BY <2>1, <2>2, <1>1, <1>2, <1>6, <1>10, TurnMends
<1>14. P2[c] = y /\ c # rt2
  BY <1>1, <1>3, <1>7, <1>8 DEF TurnedUp, Shape
<1>15. m[Aux].r = rt2 /\ m[Aux].l = Nil
  <2>1. n[Aux].r = rt /\ n[Aux].l = Nil
    BY DEF DelWin
  <2>2. m[Aux]["r"] = (IF p = Aux /\ "r" = wd THEN y ELSE n[Aux]["r"])
        /\ m[Aux]["l"] = (IF p = Aux /\ "l" = wd THEN y ELSE n[Aux]["l"])
    BY <1>6 DEF Dir
  <2>3. (c = rt /\ p = Aux /\ wd = "r") \/ (c # rt /\ p # Aux)
    BY <1>1 DEF DelWin
  <2>. QED
    BY <2>1, <2>2, <2>3, <1>7
<1>16. DelPath(m, I, R2, K, c, f)
  BY <1>1, <1>2, <1>6, <1>8, PathTurned
<1>17. c \in D2
  BY <1>10 DEF Exchanged
<1>18. Fine(m, rt2, I, R2, P2, D2)
  BY <1>6, <1>9, <1>11, <1>12, <1>13 DEF Fine
<1>19. t.n = m /\ t.root = rt2 /\ t.p = y
  BY <1>7
<1>. QED
  BY <1>6, <1>14, <1>15, <1>16, <1>17, <1>18, <1>19 DEF DeleteDone

\* Once the parent is there, the sibling is, and neither is out of place.
LEMMA DelParent ==
  ASSUME NEW I, Room(I), NEW n, NEW rt, NEW R, NEW P, NEW D, Fine(n, rt, I, R, P, D),
         NEW c \in I, NEW p, NEW pp, NEW wd \in Dir, DelWin(n, rt, P, D, I, c, p, pp, wd),
         c \notin D, NEW s, s = n[p][Other(wd)], s # Nil
  PROVE  /\ c # rt /\ p \in I /\ P[c] = p /\ n[p][wd] = c /\ s \in I /\ s # c /\ s # p /\ p # c
         /\ pp = (IF p = rt THEN Aux ELSE P[p])
         /\ p \in D \/ p = rt
         /\ s \notin D
<1>1. /\ Typed(n, I) /\ Shape(n, rt, I, R, P) /\ Under(n, D, I, Nil) /\ D \subseteq I
      /\ Nil \notin I /\ rt \in I /\ Aux \notin I
  BY DEF Fine, Shape, Room, RedsAre, RedIn
<1>2. c # rt
  <2>1. SUFFICES ASSUME c = rt PROVE FALSE
    OBVIOUS
  <2>2. p = Aux /\ Other(wd) = "l"
    BY <2>1 DEF DelWin, Other
  <2>3. n[Aux]["l"] = Nil
    BY DEF DelWin
  <2>. QED
    BY <2>2, <2>3
<1>3. p \in I /\ P[c] = p /\ n[p][wd] = c /\ pp = IF p = rt THEN Aux ELSE P[p]
  BY <1>2 DEF DelWin
<1>4. Other(wd) \in Dir /\ Other(wd) # wd
  BY Sides
<1>5. s \in I /\ s # p
  BY <1>1, <1>3, <1>4, OneParent
<1>6. s # c /\ p # c
  BY <1>1, <1>3, OneParent
<1>7. (p \in D \/ p = rt) /\ s \notin D
  <2>1. p \in D \/ (p = rt /\ s \notin D)
    BY <1>1, <1>3 DEF DelWin
  <2>2. p \in D => s \notin D
    BY <1>1, <1>3, <1>4 DEF Under
  <2>. QED
    BY <2>1, <2>2
<1>. QED
  BY <1>2, <1>3, <1>5, <1>6, <1>7

\* c and its sibling s turn red, and their parent black.
FlipReds(D2, D, p, c, s) == D2 = (D \ {p}) \cup {c, s}

LEMMA FlipColours ==
  ASSUME NEW I, Room(I), NEW n, Typed(n, I), NEW D, RedsAre(n, I, D),
         NEW p \in I, NEW s \in I, NEW c \in I,
         NEW m, m = SetRed(SetRed(SetRed(n, p, FALSE), s, TRUE), c, TRUE),
         s # p, c # p, NEW D2, FlipReds(D2, D, p, c, s)
  PROVE  Typed(m, I) /\ SameData(n, m, I) /\ SameSons(n, m, I) /\ RedsAre(m, I, D2)
<1>1. PICK m1 : m1 = SetRed(n, p, FALSE)
  OBVIOUS
<1>2. PICK m2 : m2 = SetRed(m1, s, TRUE)
  OBVIOUS
<1>3. m = SetRed(m2, c, TRUE)
  BY <1>1, <1>2
<1>4. Typed(m1, I) /\ SameData(n, m1, I) /\ SameSons(n, m1, I) /\ RedsAre(m1, I, RedIn(n, I) \ {p})
  BY <1>1, BlackenedOne
<1>5. Typed(m2, I) /\ SameData(m1, m2, I) /\ SameSons(m1, m2, I) /\ RedsAre(m2, I, RedIn(m1, I) \cup {s})
  BY <1>2, <1>4, Reddened
<1>6. Typed(m, I) /\ SameData(m2, m, I) /\ SameSons(m2, m, I) /\ RedsAre(m, I, RedIn(m2, I) \cup {c})
  BY <1>3, <1>5, Reddened
<1>7. SameData(n, m, I)
  BY <1>4, <1>5, <1>6 DEF SameData
<1>8. SameSons(n, m, I)
  BY <1>4, <1>5, <1>6, ZenonT(60) DEF SameSons
<1>9. RedIn(m, I) = ((D \ {p}) \cup {s}) \cup {c}
  BY <1>4, <1>5, <1>6 DEF RedsAre
<1>10. RedsAre(m, I, D2)
  BY <1>9 DEF RedsAre, FlipReds
<1>. QED
  BY <1>6, <1>7, <1>8, <1>10

LEMMA FlipRules ==
  ASSUME NEW I, Room(I), NEW n, Typed(n, I), NEW rt, NEW R, NEW P, Shape(n, rt, I, R, P),
         NEW D, D \subseteq I, Even(n, D, I), Under(n, D, I, Nil),
         NEW p \in I, NEW wd \in Dir, NEW c \in I, c = n[p][wd], NEW s \in I, s = n[p][Other(wd)],
         p \in D \/ p = rt, c \notin D, s \notin D, BlackSons(n, D, c), BlackSons(n, D, s),
         NEW D2, FlipReds(D2, D, p, c, s)
  PROVE  Even(n, D2, I) /\ Under(n, D2, I, Nil)
<1>1. PICK H : Balanced(n, D, H, I)
  BY DEF Even
<1>2. Nil \notin I /\ c # Nil /\ s # Nil /\ Other(wd) \in Dir /\ Other(wd) # wd
  BY Sides DEF Room
<1>3. D2 = (D \ {p}) \cup {c, s}
  BY DEF FlipReds
<1>4. \E H2 : Balanced(n, D2, H2, I)
  BY <1>1, <1>2, <1>3, DownFlip
<1>5. Even(n, D2, I)
  BY <1>4 DEF Even
<1>6. /\ \A a \in I, e \in Dir : n[a][e] = c => a = p
      /\ \A a \in I, e \in Dir : n[a][e] = s => a = p
  BY <1>2, OneParent
<1>7. p # c /\ p # s
  BY <1>2, OneParent
<1>8. Under(n, D2, I, Nil)
  <2>1. SUFFICES ASSUME NEW i \in I, NEW e \in Dir, i \in D2, n[i][e] \in D2 PROVE FALSE
    BY DEF Under
  <2>2. i # p /\ i \in I
    BY <2>1, <1>3, <1>7
  <2>3. n[i][e] # c /\ n[i][e] # s
    BY <1>6, <2>2
  <2>4. n[i][e] \in D
    BY <2>1, <2>3, <1>3
  <2>5. i \in D
    BY <2>1, <2>4, <1>3 DEF BlackSons
  <2>. QED
    BY <2>4, <2>5, <1>2 DEF Under
<1>. QED
  BY <1>5, <1>8

LEMMA Flips ==
  ASSUME NEW I, Room(I), NEW n, NEW rt, NEW R, NEW P, NEW D, Fine(n, rt, I, R, P, D),
         NEW K, NEW c, NEW p, NEW pp, NEW wd \in Dir, NEW d, NEW f,
         DelWin(n, rt, P, D, I, c, p, pp, wd), DelPath(n, I, R, K, c, f),
         c \notin D, BlackSons(n, D, c), NEW s, s = n[p][Other(wd)], s # Nil, BlackSons(n, D, s),
         NEW m, m = SetRed(SetRed(SetRed(n, p, FALSE), s, TRUE), c, TRUE),
         NEW t, t = [n |-> m, root |-> rt, p |-> p]
  PROVE  DeleteDone(n, t, I, K, c, d, f)
<1>1. /\ Typed(n, I) /\ Shape(n, rt, I, R, P) /\ RedsAre(n, I, D) /\ Even(n, D, I) /\ Under(n, D, I, Nil)
      /\ D \subseteq I /\ c \in I
  BY DEF Fine, RedsAre, RedIn, DelPath
<1>2. /\ c # rt /\ p \in I /\ P[c] = p /\ n[p][wd] = c /\ s \in I /\ s # c /\ s # p /\ p # c
      /\ p \in D \/ p = rt
      /\ s \notin D
  BY <1>1, DelParent
<1>3. PICK D2 : FlipReds(D2, D, p, c, s)
  BY DEF FlipReds
<1>4. Typed(m, I) /\ SameData(n, m, I) /\ SameSons(n, m, I) /\ RedsAre(m, I, D2)
  BY <1>1, <1>2, <1>3, FlipColours
<1>5. Even(n, D2, I) /\ Under(n, D2, I, Nil)
  BY <1>1, <1>2, <1>3, FlipRules
<1>6. Even(m, D2, I) /\ Under(m, D2, I, Nil)
  BY <1>4, <1>5, SameRules
<1>7. Shape(m, rt, I, R, P)
  BY <1>1, <1>4, SameShape
<1>8. Fine(m, rt, I, R, P, D2)
  BY <1>4, <1>6, <1>7 DEF Fine
<1>9. m[Aux].r = rt /\ m[Aux].l = Nil
  <2>1. m[Aux]["r"] = n[Aux]["r"] /\ m[Aux]["l"] = n[Aux]["l"]
    BY <1>4 DEF SameSons, Dir
  <2>2. n[Aux]["r"] = rt /\ n[Aux]["l"] = Nil
    BY DEF DelWin
  <2>. QED
    BY <2>1, <2>2
<1>10. DelPath(m, I, R, K, c, f)
  BY <1>4 DEF DelPath, SameData
<1>11. c \in D2
  BY <1>3 DEF FlipReds
<1>12. t.n = m /\ t.root = rt /\ t.p = p
  OBVIOUS
<1>. QED
  BY <1>2, <1>4, <1>8, <1>9, <1>10, <1>11, <1>12 DEF DeleteDone

Lendable(n, I, rt, D, p, wd, od, c, s, z) ==
  /\ CanLend(n, I, rt, D, p, wd, od, c, s, z)
  /\ p # c /\ p # s /\ c # s /\ z # s /\ z # p /\ z # c /\ z \in I /\ z # Nil /\ s # Nil /\ c # Nil

LEMMA LendApart ==
  ASSUME NEW I, Room(I), NEW n, Typed(n, I), NEW rt, NEW R, NEW P, Shape(n, rt, I, R, P),
         NEW D, D \subseteq I, NEW p, NEW wd \in Dir, NEW od \in Dir, od # wd,
         NEW c, NEW s, NEW z, CanLend(n, I, rt, D, p, wd, od, c, s, z)
  PROVE  Lendable(n, I, rt, D, p, wd, od, c, s, z)
<1>1. /\ p \in I /\ c \in I /\ s \in I /\ c = n[p][wd] /\ s = n[p][od] /\ z = n[s][od] /\ z \in I
  BY DEF CanLend
<1>2. Nil \notin I
  BY DEF Room
<1>3. s # p /\ \A a \in I, e \in Dir : n[a][e] = s => a = p /\ e = od
  BY <1>1, <1>2, OneParent
<1>4. c # p /\ \A a \in I, e \in Dir : n[a][e] = c => a = p /\ e = wd
  BY <1>1, <1>2, OneParent
<1>5. z # s /\ \A e \in Dir : n[z][e] # s
  BY <1>1, <1>2, OneParent
<1>. QED
  BY <1>1, <1>2, <1>3, <1>4, <1>5 DEF Lendable

LEMMA LendHeights ==
  ASSUME NEW I, Room(I), NEW n, Typed(n, I), NEW m, Typed(m, I), NEW rt, NEW R, NEW P, Shape(n, rt, I, R, P),
         NEW D, D \subseteq I, Even(n, D, I), NEW p, NEW wd \in Dir, NEW od \in Dir, od = Other(wd),
         NEW c, NEW s, NEW z, Lendable(n, I, rt, D, p, wd, od, c, s, z),
         Turned(n, m, I, p, s, wd, od), NEW rt2, NEW R2, NEW P2, Shape(m, rt2, I, R2, P2),
         NEW D2, LentReds(D2, D, p, c, s, z)
  PROVE  Even(m, D2, I)
<1>1. /\ p \in I /\ c \in I /\ s \in I /\ c = n[p][wd] /\ s = n[p][od] /\ z = n[s][od]
      /\ z \in D /\ s \notin D /\ c \notin D /\ (p \in D \/ p = rt)
      /\ p # c /\ p # s /\ c # s /\ z # s /\ z # p /\ z # c /\ z # Nil /\ s # Nil /\ c # Nil
  BY DEF Lendable, CanLend
<1>2. od # wd /\ Other(od) = wd
  BY Sides
<1>3. PICK H : Balanced(n, D, H, I)
  BY DEF Even
<1>4. PICK D3 : FlipReds(D3, D, p, c, s)
  BY DEF FlipReds
<1>5. \E H3 : Balanced(n, D3, H3, I)
  <2>1. D3 = (D \ {p}) \cup {c, s}
    BY <1>4 DEF FlipReds
  <2>2. s = n[p][Other(wd)] /\ (p \in D \/ p = rt)
    BY <1>1
  <2>. QED
    BY <2>1, <2>2, <1>1, <1>3, DownFlip
<1>6. PICK D4 : Exchanged(D4, D3, s, p)
  BY DEF Exchanged
<1>7. Even(m, D4, I)
  <2>1. Even(n, D3, I)
    BY <1>5 DEF Even
  <2>2. p \notin D3 /\ s \in D3
    BY <1>1, <1>4 DEF FlipReds
  <2>3. p \in I /\ s = n[p][od] /\ s # Nil
    BY <1>1
  <2>. QED
    BY <2>1, <2>2, <2>3, <1>2, <1>6, TurnHeights
<1>8. PICK H4 : Balanced(m, D4, H4, I)
  BY <1>7 DEF Even
<1>9. m[s][wd] = p /\ m[s][od] = z
  BY <1>1, <1>2 DEF Turned
<1>10. s \notin D4 /\ p \in D4 /\ z \in D4
  BY <1>1, <1>4, <1>6 DEF FlipReds, Exchanged
<1>11. D2 = (D4 \cup {s}) \ {p, z}
  BY <1>1, <1>4, <1>6 DEF FlipReds, Exchanged, LentReds
<1>12. p # Nil
  BY <1>1 DEF Room
<1>13. \E H2 : Balanced(m, D2, H2, I)
  <2>1. s \in I /\ p = m[s][wd] /\ z = m[s][od]
    BY <1>1, <1>9
  <2>. QED
    BY <2>1, <1>1, <1>2, <1>8, <1>10, <1>11, <1>12, UpFlip
<1>. QED
  BY <1>13 DEF Even

\* The colours, after those of the rotation m0.
LEMMA LendColours ==
  ASSUME NEW I, Room(I), NEW n, NEW rt, NEW D, RedsAre(n, I, D),
         NEW p, NEW wd \in Dir, NEW od \in Dir, od = Other(wd),
         NEW c, NEW s, NEW z, Lendable(n, I, rt, D, p, wd, od, c, s, z),
         NEW m0, Typed(m0, I), Turned(n, m0, I, p, s, wd, od), RedIn(m0, I) = (RedIn(n, I) \ {s}) \cup {p},
         NEW m1, m1 = SetRBB(m0, s), NEW m2, m2 = SetRed(m1, c, m1[s].red),
         NEW D2, LentReds(D2, D, p, c, s, z)
  PROVE  Typed(m2, I) /\ SameData(m0, m2, I) /\ SameSons(m0, m2, I) /\ RedsAre(m2, I, D2)
<1>1. /\ p \in I /\ c \in I /\ s \in I /\ z = n[s][od] /\ z \in D /\ s \notin D
      /\ p # c /\ p # s /\ c # s /\ z # s /\ z # p /\ z # c
  BY DEF Lendable, CanLend
<1>2. od # wd /\ \A e \in Dir : e = wd \/ e = od
  BY Sides
<1>3. m0[s][wd] = p /\ m0[s][od] = z
  BY <1>1, <1>2 DEF Turned
<1>4. {m0[s].l, m0[s].r} = {p, z}
  BY <1>2, <1>3 DEF Dir
<1>5. /\ Typed(m1, I) /\ SameData(m0, m1, I) /\ SameSons(m0, m1, I)
      /\ RedsAre(m1, I, (RedIn(m0, I) \cup {s}) \ {m0[s].l, m0[s].r})
  BY <1>1, SetRBBEffect
<1>6. RedIn(m1, I) = (((D \ {s}) \cup {p}) \cup {s}) \ {p, z}
  BY <1>4, <1>5 DEF RedsAre
<1>7. m1[s].red = TRUE
  <2>1. s \in RedIn(m1, I)
    BY <1>1, <1>6
  <2>2. m1[s].red \in BOOLEAN
    BY <1>1, <1>5, KeyOf
  <2>. QED
    BY <2>1, <2>2, Zenon DEF RedIn
<1>8. m2 = SetRed(m1, c, TRUE)
  BY <1>7, Zenon
<1>9. /\ Typed(m2, I) /\ SameData(m1, m2, I) /\ SameSons(m1, m2, I)
      /\ RedsAre(m2, I, RedIn(m1, I) \cup {c})
  BY <1>1, <1>5, <1>8, Reddened
<1>10. RedsAre(m2, I, D2)
  BY <1>1, <1>6, <1>9 DEF RedsAre, LentReds
<1>11. SameData(m0, m2, I)
  BY <1>5, <1>9 DEF SameData
<1>12. SameSons(m0, m2, I)
  BY <1>5, <1>9 DEF SameSons
<1>. QED
  BY <1>9, <1>10, <1>11, <1>12

\* What lending leaves.
LentDone(n, m2, rt, rt2, I, R2, P2, p, c) ==
  \E D2 : /\ Fine(m2, rt2, I, R2, P2, D2) /\ c \in D2
          /\ SameData(n, m2, I) /\ m2[Aux].r = rt2 /\ m2[Aux].l = Nil
          /\ c # rt2 /\ P2[c] = p
UnderAux(n, rt) == n[Aux].r = rt /\ n[Aux].l = Nil
\* The parent of p, which for the root is Aux.
Hold(p, rt, P) == IF p = rt THEN Aux ELSE P[p]
RotatedOver(n, n0, m0, I, p, s, wd, od) ==
  /\ Typed(m0, I) /\ SameData(n, m0, I) /\ Turned(n, m0, I, p, s, wd, od)
  /\ RedIn(m0, I) = (RedIn(n, I) \ {s}) \cup {p}
  /\ n0 = s

Recoloured(m0, m2, I, D2) ==
  Typed(m2, I) /\ SameData(m0, m2, I) /\ SameSons(m0, m2, I) /\ RedsAre(m2, I, D2)
TurnedTo(n, R, P, x, y, d, R2, P2) ==
  R2 = TurnedRange(n, R, x, y, d) /\ P2 = TurnedUp(n, P, x, y, d)

\* p is rotated over s.
LEMMA LendTurns ==
  ASSUME NEW I, Room(I), NEW n, Typed(n, I), NEW rt, NEW R, NEW P, Shape(n, rt, I, R, P),
         UnderAux(n, rt), NEW p \in I, NEW wd \in Dir, NEW od \in Dir, od # wd,
         NEW s, s = n[p][od], s # Nil,
         NEW hp, hp = Hold(p, rt, P), NEW rot, rot = Rot1(n, p, wd, od),
         NEW h, h = Rehang([n |-> rot.n, root |-> rt], hp, p, rot.top)
  PROVE  /\ RotatedOver(n, rot.top, h.n, I, p, s, wd, od)
         /\ h.root = (IF p = rt THEN s ELSE rt)
         /\ UnderAux(h.n, h.root)
<1>1. hp = P[p] \/ (hp = Aux /\ p = rt /\ n[Aux].r = rt)
  BY DEF Hold, UnderAux
<1>2. /\ h.root = IF p = rt THEN s ELSE rt
      /\ \E side \in Dir : /\ Hook(n, rt, I, p, hp, side) /\ h.n = SetSon(rot.n, hp, side, s)
                           /\ hp = Aux => side = "r"
  BY <1>1, HungBack
<1>3. PICK side \in Dir : /\ Hook(n, rt, I, p, hp, side) /\ h.n = SetSon(rot.n, hp, side, s)
                          /\ hp = Aux => side = "r"
  BY <1>2
<1>4. PICK m0 : m0 = h.n
  OBVIOUS
<1>5. rot.top = s /\ Hung(n, m0, I, p, s, wd, od, hp, side)
  BY <1>3, <1>4, TurnHung
<1>6. \A e \in Dir : m0[Aux][e] = IF hp = Aux /\ e = side THEN s ELSE n[Aux][e]
  BY <1>5 DEF Hung
<1>7. m0[Aux]["r"] = (IF hp = Aux /\ "r" = side THEN s ELSE n[Aux]["r"])
      /\ m0[Aux]["l"] = (IF hp = Aux /\ "l" = side THEN s ELSE n[Aux]["l"])
  BY <1>6 DEF Dir
<1>8. n[Aux]["r"] = rt /\ n[Aux]["l"] = Nil
  BY DEF UnderAux
<1>9. (p = rt /\ hp = Aux) \/ (p # rt /\ hp # Aux)
  BY DEF Hold, Shape, Room
<1>10. m0[Aux]["r"] = h.root /\ m0[Aux]["l"] = Nil
  BY <1>2, <1>3, <1>7, <1>8, <1>9
<1>. QED
  BY <1>2, <1>4, <1>5, <1>10 DEF Hung, RotatedOver, UnderAux

LEMMA LendsOver ==
  ASSUME NEW I, Room(I), NEW n, Typed(n, I), NEW rt, NEW R, NEW P, Shape(n, rt, I, R, P),
         NEW D, D \subseteq I, Even(n, D, I),
         NEW p, NEW wd \in Dir, NEW od \in Dir, od = Other(wd),
         NEW c, NEW s, NEW z, Lendable(n, I, rt, D, p, wd, od, c, s, z),
         NEW rt2, rt2 = (IF p = rt THEN s ELSE rt),
         NEW s2, NEW m0, RotatedOver(n, s2, m0, I, p, s, wd, od), UnderAux(m0, rt2),
         NEW D2, LentReds(D2, D, p, c, s, z),
         NEW m2, Recoloured(m0, m2, I, D2),
         NEW R2, NEW P2, TurnedTo(n, R, P, p, s, wd, R2, P2)
  PROVE  LentDone(n, m2, rt, rt2, I, R2, P2, p, c)
<1>0. Typed(m2, I) /\ SameData(m0, m2, I) /\ SameSons(m0, m2, I) /\ RedsAre(m2, I, D2)
  BY DEF Recoloured
<1>1. od # wd
  BY Sides
<1>3. /\ p \in I /\ c \in I /\ s \in I /\ c = n[p][wd] /\ s = n[p][od] /\ z = n[s][od]
      /\ z \in D /\ s \notin D /\ c \notin D /\ (p \in D \/ p = rt)
      /\ BlackSons(n, D, c) /\ Under(n, D, I, z)
      /\ p # c /\ p # s /\ c # s /\ s # Nil /\ c # Nil
  BY DEF Lendable, CanLend
<1>2. CanLend(n, I, rt, D, p, wd, od, c, s, z)
  BY DEF Lendable
<1>6. Typed(m0, I) /\ SameData(n, m0, I) /\ Turned(n, m0, I, p, s, wd, od)
  BY DEF RotatedOver
<1>8. Shape(m0, rt2, I, R2, P2)
  BY <1>1, <1>3, <1>6, TurnShape DEF TurnedTo
<1>9. Even(m0, D2, I)
  BY <1>1, <1>6, <1>8, LendHeights
<1>10. Under(m0, D2, I, Nil)
  BY <1>1, <1>2, <1>6, LendMends
<1>12. Even(m2, D2, I) /\ Under(m2, D2, I, Nil)
  BY <1>0, <1>9, <1>10, SameRules
<1>13. Shape(m2, rt2, I, R2, P2)
  BY <1>0, <1>8, SameShape
<1>14. Fine(m2, rt2, I, R2, P2, D2)
  BY <1>0, <1>12, <1>13 DEF Fine
<1>15. SameData(n, m2, I)
  BY <1>0, <1>6 DEF SameData
<1>16. m2[Aux].r = rt2 /\ m2[Aux].l = Nil
  <2>1. m2[Aux]["r"] = m0[Aux]["r"] /\ m2[Aux]["l"] = m0[Aux]["l"]
    BY <1>0 DEF SameSons, Dir
  <2>2. m0[Aux]["r"] = rt2 /\ m0[Aux]["l"] = Nil
    BY DEF UnderAux
  <2>. QED
    BY <2>1, <2>2
<1>17. m0[p][wd] = c
  BY <1>1, <1>3, <1>6 DEF Turned
<1>18. P2[c] = p /\ c # rt2
  BY <1>3, <1>6, <1>8, <1>17, OneParent
<1>19. c \in D2
  BY DEF LentReds
<1>. QED
  BY <1>14, <1>15, <1>16, <1>18, <1>19 DEF LentDone

LEMMA LendsOnce ==
  ASSUME NEW I, Room(I), NEW n, Typed(n, I), NEW rt, NEW R, NEW P, Shape(n, rt, I, R, P),
         UnderAux(n, rt), NEW D, RedsAre(n, I, D), Even(n, D, I),
         NEW p, NEW wd \in Dir, NEW od \in Dir, od = Other(wd),
         NEW c, NEW s, NEW z, CanLend(n, I, rt, D, p, wd, od, c, s, z),
         NEW hp, hp = Hold(p, rt, P), NEW rot, rot = Rot1(n, p, wd, od),
         NEW h, h = Rehang([n |-> rot.n, root |-> rt], hp, p, rot.top),
         NEW m1, m1 = SetRBB(h.n, rot.top), NEW m2, m2 = SetRed(m1, c, m1[rot.top].red),
         NEW R2, NEW P2, TurnedTo(n, R, P, p, s, wd, R2, P2)
  PROVE  LentDone(n, m2, rt, h.root, I, R2, P2, p, c)
<1>1. D \subseteq I /\ od # wd
  BY Sides DEF RedsAre, RedIn
<1>2. Lendable(n, I, rt, D, p, wd, od, c, s, z)
  BY <1>1, LendApart
<1>3. p \in I /\ s = n[p][od] /\ s # Nil
  BY <1>2 DEF Lendable, CanLend
<1>4. PICK m0, rt2 : m0 = h.n /\ rt2 = h.root
  OBVIOUS
<1>5. /\ RotatedOver(n, rot.top, m0, I, p, s, wd, od)
      /\ rt2 = (IF p = rt THEN s ELSE rt)
      /\ UnderAux(m0, rt2)
  BY <1>1, <1>3, <1>4, LendTurns
<1>6. /\ Typed(m0, I) /\ Turned(n, m0, I, p, s, wd, od)
      /\ RedIn(m0, I) = (RedIn(n, I) \ {s}) \cup {p}
      /\ rot.top = s
  BY <1>5 DEF RotatedOver
<1>7. PICK D2 : LentReds(D2, D, p, c, s, z)
  BY DEF LentReds
<1>8. Recoloured(m0, m2, I, D2)
  <2>1. m1 = SetRBB(m0, s) /\ m2 = SetRed(m1, c, m1[s].red)
    BY <1>4, <1>6, Zenon
  <2>. QED
    BY <2>1, <1>2, <1>6, <1>7, LendColours DEF Recoloured
<1>9. LentDone(n, m2, rt, rt2, I, R2, P2, p, c)
  BY <1>1, <1>2, <1>5, <1>7, <1>8, LendsOver, SMTT(60)
<1>. QED
  BY <1>4, <1>9

\* The path stays with a node that a rotation of x under y goes by.
LEMMA PathAside ==
  ASSUME NEW I, NEW n, NEW rt, NEW R, NEW P, Shape(n, rt, I, R, P),
         NEW K, NEW c, NEW f, DelPath(n, I, R, K, c, f), NEW m, SameData(n, m, I),
         NEW x, NEW y, NEW d, c # x, c # y, f # x, f # y,
         NEW R2, R2 = TurnedRange(n, R, x, y, d)
  PROVE  DelPath(m, I, R2, K, c, f)
<1>1. c \in I /\ R2[c] = R[c]
  BY DEF DelPath, TurnedRange, Shape
<1>2. f # Nil => f \in I /\ R2[f] = R[f] /\ m[f].key = n[f].key
  BY DEF DelPath, TurnedRange, Shape, SameData
<1>. QED
  BY <1>1, <1>2 DEF DelPath

\* Beside the path: no key below s, the sibling of c, is among those below c.
LEMMA Aside ==
  ASSUME NEW I, Room(I), NEW n, Typed(n, I), NEW rt, NEW R, NEW P, Shape(n, rt, I, R, P),
         NEW p \in I, NEW wd \in Dir, NEW od \in Dir, od # wd,
         NEW c, c = n[p][wd], c # Nil, NEW s, s = n[p][od], s # Nil
  PROVE  /\ n[c].key \in R[c] /\ n[c].key \notin R[s]
         /\ c \in I /\ s \in I /\ c # s /\ c # p /\ s # p
         /\ \A k \in R[c] : k \in Int /\ k \in R[p] /\ Before(wd, k, n[p].key) /\ Before(wd, k, n[s].key)
<1>1. /\ c \in I /\ c # p /\ R[c] \subseteq R[p] /\ n[c].key \in R[c]
      /\ \A k \in R[c] : k \in Int /\ Before(wd, k, n[p].key)
  BY Link1
<1>2. /\ s \in I /\ s # p /\ n[s].key \in R[s]
      /\ \A k \in R[s] : k \in Int /\ Before(od, k, n[p].key)
  BY Link1
<1>3. n[p].key \in Int
  BY KeyOf
<1>4. \A k \in R[c] : k \notin R[s] /\ Before(wd, k, n[s].key)
  BY <1>1, <1>2, <1>3 DEF Before, Dir
<1>. QED
  BY <1>1, <1>2, <1>4

LEMMA PathLent ==
  ASSUME NEW I, Room(I), NEW n, Typed(n, I), NEW rt, NEW R, NEW P, Shape(n, rt, I, R, P),
         NEW K, NEW c, NEW f, DelPath(n, I, R, K, c, f), NEW m, SameData(n, m, I),
         NEW p \in I, NEW wd \in Dir, NEW od \in Dir, od # wd,
         c = n[p][wd], NEW s, s = n[p][od], s # Nil,
         NEW R2, R2 = TurnedRange(n, R, p, s, wd)
  PROVE  DelPath(m, I, R2, K, c, f)
<1>0. c # Nil
  BY DEF DelPath, Room
<1>1. /\ n[c].key \in R[c] /\ n[c].key \notin R[s]
      /\ c \in I /\ s \in I /\ c # s /\ c # p /\ s # p
      /\ \A k \in R[c] : k \in Int /\ k \in R[p] /\ Before(wd, k, n[p].key) /\ Before(wd, k, n[s].key)
  BY <1>0, Aside
<1>2. f # s
  BY <1>1 DEF DelPath, Room
<1>3. CASE f # p
  BY <1>1, <1>2, <1>3, PathAside
<1>4. CASE f = p
  <2>1. R2[c] = R[c] /\ R2[p] = {k \in R[p] : Before(wd, k, n[s].key)}
    BY <1>1 DEF TurnedRange, Shape
  <2>2. R2[c] \subseteq R2[p]
    BY <1>1, <2>1
  <2>3. m[p].key = n[p].key /\ p # Nil
    BY DEF SameData, Room
  <2>. QED
    BY <1>4, <2>1, <2>2, <2>3 DEF DelPath
<1>. QED
  BY <1>3, <1>4

\* The first half of a double rotation: s goes under its red son i.
InnerLent(n, n1, rt, I, P, p, wd, od, c, s, i, K, f) ==
  \E R1, P1, D0 :
    /\ Typed(n1, I) /\ SameData(n, n1, I) /\ Shape(n1, rt, I, R1, P1) /\ UnderAux(n1, rt)
    /\ RedsAre(n1, I, D0) /\ Even(n1, D0, I) /\ CanLend(n1, I, rt, D0, p, wd, od, c, i, s)
    /\ Hold(p, rt, P1) = Hold(p, rt, P) /\ DelPath(n1, I, R1, K, c, f)
InnerReady(n, rt, I, D, p, wd, od, c, s, i) ==
  /\ p \in I /\ c \in I /\ s \in I /\ i \in I
  /\ c = n[p][wd] /\ s = n[p][od] /\ i = n[s][wd]
  /\ s \notin D /\ c \notin D /\ (p \in D \/ p = rt) /\ i \in D /\ BlackSons(n, D, c)

InnerFar(n, rt, P, p, c, s, i) ==
  /\ s # p /\ i # s /\ i # p /\ c # p /\ c # s /\ c # i /\ s # rt
  /\ \A e \in Dir : n[c][e] # s
  /\ P[p] # i /\ P[s] = p /\ P[i] = s

LEMMA InnerApart ==
  ASSUME NEW I, Room(I), NEW n, Typed(n, I), NEW rt, NEW R, NEW P, Shape(n, rt, I, R, P),
         NEW D, NEW p, NEW wd \in Dir, NEW od \in Dir, od # wd, NEW c, NEW s, NEW i,
         InnerReady(n, rt, I, D, p, wd, od, c, s, i)
  PROVE  InnerFar(n, rt, P, p, c, s, i)
<1>1. /\ p \in I /\ c \in I /\ s \in I /\ i \in I
      /\ c = n[p][wd] /\ s = n[p][od] /\ i = n[s][wd] /\ Nil \notin I
  BY DEF InnerReady, Room
<1>2. s # p /\ s # rt /\ P[s] = p /\ (\A a \in I, e \in Dir : n[a][e] = s => a = p)
  BY <1>1, OneParent
<1>3. c # p /\ (\A a \in I, e \in Dir : n[a][e] = c => a = p /\ e = wd)
  BY <1>1, OneParent
<1>4. i # s /\ P[i] = s /\ (\A a \in I, e \in Dir : n[a][e] = i => a = s)
  BY <1>1, OneParent
<1>5. i # p /\ c # i
  BY <1>1, <1>2, <1>3, OneParent
<1>6. c # s
  BY <1>1, <1>3
<1>7. ASSUME P[p] = i PROVE FALSE
  <2>1. p # rt
    BY <1>1, <1>7 DEF Shape
  <2>2. PICK e \in Dir : n[i][e] = p
    BY <2>1, <1>1, <1>7 DEF Shape
  <2>3. Chain(n, p, od, s, wd, i, e, p)
    BY <2>2, <1>1 DEF Chain
  <2>. QED
    BY <2>3, <1>1, NoLoop DEF Apart
<1>. QED
  BY <1>1, <1>2, <1>3, <1>4, <1>5, <1>6, <1>7 DEF InnerFar

LEMMA LendInner ==
  ASSUME NEW I, Room(I), NEW n, NEW rt, NEW R, NEW P, NEW D, Fine(n, rt, I, R, P, D), UnderAux(n, rt),
         NEW p, NEW wd \in Dir, NEW od \in Dir, od # wd, NEW c, NEW s, NEW i,
         InnerReady(n, rt, I, D, p, wd, od, c, s, i),
         NEW K, NEW f, DelPath(n, I, R, K, c, f),
         NEW first, first = Rot1(n, s, od, wd), NEW n1, n1 = SetSon(first.n, p, od, i)
  PROVE  first.top = i /\ InnerLent(n, n1, rt, I, P, p, wd, od, c, s, i, K, f)
<1>1. /\ Typed(n, I) /\ Shape(n, rt, I, R, P) /\ RedIn(n, I) = D /\ Even(n, D, I) /\ Under(n, D, I, Nil)
      /\ D \subseteq I /\ Nil \notin I /\ Aux \notin I
  BY DEF Fine, RedsAre, RedIn, Room
<1>2. /\ p \in I /\ c \in I /\ s \in I /\ i \in I
      /\ c = n[p][wd] /\ s = n[p][od] /\ i = n[s][wd]
      /\ s \notin D /\ c \notin D /\ (p \in D \/ p = rt) /\ i \in D /\ BlackSons(n, D, c)
      /\ i # Nil /\ s # Nil /\ c # Nil
  BY <1>1 DEF InnerReady
<1>i. InnerFar(n, rt, P, p, c, s, i)
  BY <1>1, InnerApart
<1>3. /\ s # p /\ i # s /\ i # p /\ c # p /\ c # s /\ c # i /\ s # rt
      /\ \A e \in Dir : n[c][e] # s
      /\ P[p] # i /\ P[s] = p /\ P[i] = s
  BY <1>i DEF InnerFar
<1>4. Hook(n, rt, I, s, p, od)
  BY <1>2 DEF Hook
<1>5. first.top = i /\ Hung(n, n1, I, s, i, od, wd, p, od)
  <2>1. s \in I /\ i = n[s][wd] /\ i # Nil /\ wd # od
    BY <1>2
  <2>2. Typed(n, I) /\ Shape(n, rt, I, R, P)
    BY <1>1
  <2>. QED
    BY <2>1, <2>2, <1>4, TurnHung
<1>6. /\ Typed(n1, I) /\ SameData(n, n1, I) /\ Turned(n, n1, I, s, i, od, wd)
      /\ RedIn(n1, I) = (D \ {i}) \cup {s}
      /\ \A e \in Dir : n1[Aux][e] = n[Aux][e]
  BY <1>1, <1>2, <1>5 DEF Hung
<1>7. PICK R1, P1 : R1 = TurnedRange(n, R, s, i, od) /\ P1 = TurnedUp(n, P, s, i, od)
  OBVIOUS
<1>8. Shape(n1, rt, I, R1, P1)
  BY <1>1, <1>2, <1>3, <1>6, <1>7, TurnShape
<1>9. PICK D0 : Exchanged(D0, D, i, s)
  BY DEF Exchanged
<1>10. RedsAre(n1, I, D0)
  BY <1>6, <1>9 DEF RedsAre, Exchanged
<1>11. Even(n1, D0, I)
  <2>1. s \in I /\ i = n[s][wd] /\ i # Nil /\ wd # od /\ s \notin D /\ i \in D
    BY <1>2
  <2>2. Typed(n, I) /\ Shape(n, rt, I, R, P) /\ Even(n, D, I)
    BY <1>1
  <2>3. Turned(n, n1, I, s, i, od, wd)
    BY <1>6
  <2>. QED
    BY <2>1, <2>2, <2>3, <1>9, TurnHeights
<1>12. Under(n1, D0, I, s)
  <2>1. s \in I /\ i = n[s][wd] /\ i # Nil /\ wd # od /\ s \notin D /\ i \in D
    BY <1>2
  <2>2. Typed(n, I) /\ Shape(n, rt, I, R, P) /\ D \subseteq I /\ Under(n, D, I, Nil)
    BY <1>1
  <2>3. Turned(n, n1, I, s, i, od, wd)
    BY <1>6
  <2>. QED
    BY <2>1, <2>2, <2>3, <1>9, TurnPair, ZenonT(60)
<1>13. UnderAux(n1, rt)
  <2>1. n1[Aux]["r"] = n[Aux]["r"] /\ n1[Aux]["l"] = n[Aux]["l"]
    BY <1>6 DEF Dir
  <2>. QED
    BY <2>1 DEF UnderAux
<1>14. /\ n1[p][wd] = c /\ n1[p][od] = i /\ n1[i][od] = s
       /\ \A e \in Dir : n1[c][e] = n[c][e]
  BY <1>2, <1>3, <1>6 DEF Turned
<1>15. BlackSons(n1, D0, c)
  BY <1>2, <1>3, <1>9, <1>14 DEF BlackSons, Exchanged
<1>16. s \in D0 /\ i \notin D0 /\ c \notin D0 /\ (p \in D0 \/ p = rt)
  BY <1>2, <1>3, <1>9 DEF Exchanged
<1>17. CanLend(n1, I, rt, D0, p, wd, od, c, i, s)
  BY <1>2, <1>12, <1>14, <1>15, <1>16 DEF CanLend
<1>18. Hold(p, rt, P1) = Hold(p, rt, P)
  <2>1. CASE p = rt
    BY <2>1 DEF Hold
  <2>2. CASE p # rt
    <3>1. p # n[i][od]
      BY <1>1, <1>2, <1>3, OneParent, SMTT(60)
    <3>2. P1[p] = P[p]
      BY <3>1, <1>2, <1>3, <1>1, <1>7 DEF TurnedUp, Shape
    <3>. QED
      BY <3>2 DEF Hold
  <2>. QED
    BY <2>1, <2>2
<1>19. f # s /\ f # i
  <2>1. n[c].key \in R[c] /\ n[c].key \notin R[s]
    BY <1>1, <1>2, Aside
  <2>2. R[i] \subseteq R[s]
    BY <1>1, <1>2, Link1
  <2>. QED
    BY <2>1, <2>2, <1>1, <1>2 DEF DelPath
<1>20. DelPath(n1, I, R1, K, c, f)
  BY <1>1, <1>3, <1>6, <1>7, <1>19, PathAside
<1>. QED
  BY <1>5, <1>6, <1>8, <1>10, <1>11, <1>13, <1>17, <1>18, <1>20 DEF InnerLent

\* SiblingLends of a tree [n, rt]; and RedPushedDown.
Lent(n, rt, c, p, pp, wd, s, xd0) ==
  LET rot == IF IsRed(n, n[s][wd]) THEN Rot2(n, p, wd, xd0) ELSE Rot1(n, p, wd, xd0)
      h   == Rehang([n |-> rot.n, root |-> rt], pp, p, rot.top)
      m1  == SetRBB(h.n, rot.top)
  IN  [n |-> SetRed(m1, c, m1[rot.top].red), root |-> h.root, p |-> p]

Pushed(n, rt, c, p, pp, wd, d) ==
  LET y   == n[c][Other(d)]
      s   == n[p][Other(wd)]
      rot == Rot1(n, c, d, Other(d))
      asIs == [n |-> n, root |-> rt, p |-> p]
  IN  IF n[c].red \/ IsRed(n, n[c][d]) THEN asIs
      ELSE IF IsRed(n, y)
        THEN [n |-> SetSon(rot.n, p, wd, y), p |-> y, root |-> IF c = rt THEN y ELSE rt]
      ELSE IF s = Nil THEN asIs
      ELSE IF ~IsRed(n, n[s].l) /\ ~IsRed(n, n[s].r)
        THEN [asIs EXCEPT !.n = SetRed(SetRed(SetRed(n, p, FALSE), s, TRUE), c, TRUE)]
      ELSE IF pp = Nil THEN asIs
      ELSE Lent(n, rt, c, p, pp, wd, s, Other(wd))

\* One rotation, or the second of two, from n1 on.
LentAll(n, m2, rt, rt2, I, p, c, K, f) ==
  \E R2, P2 : LentDone(n, m2, rt, rt2, I, R2, P2, p, c) /\ DelPath(m2, I, R2, K, c, f)

LEMMA LendsAll ==
  ASSUME NEW I, Room(I), NEW n, Typed(n, I), NEW rt, NEW R, NEW P, Shape(n, rt, I, R, P),
         UnderAux(n, rt), NEW D, RedsAre(n, I, D), Even(n, D, I),
         NEW p, NEW wd \in Dir, NEW od \in Dir, od = Other(wd),
         NEW c, NEW s, NEW z, CanLend(n, I, rt, D, p, wd, od, c, s, z),
         NEW K, NEW f, DelPath(n, I, R, K, c, f),
         NEW hp, hp = Hold(p, rt, P), NEW rot, rot = Rot1(n, p, wd, od),
         NEW h, h = Rehang([n |-> rot.n, root |-> rt], hp, p, rot.top),
         NEW m1, m1 = SetRBB(h.n, rot.top), NEW m2, m2 = SetRed(m1, c, m1[rot.top].red)
  PROVE  LentAll(n, m2, rt, h.root, I, p, c, K, f)
<1>1. PICK R2, P2 : TurnedTo(n, R, P, p, s, wd, R2, P2)
  BY DEF TurnedTo
<1>2. LentDone(n, m2, rt, h.root, I, R2, P2, p, c)
  BY <1>1, LendsOnce
<1>3. SameData(n, m2, I)
  BY <1>2 DEF LentDone
<1>4. p \in I /\ c = n[p][wd] /\ s = n[p][od] /\ s \in I /\ od # wd
  BY Sides DEF CanLend
<1>5. s # Nil
  BY <1>4 DEF Room
<1>6. R2 = TurnedRange(n, R, p, s, wd)
  BY <1>1 DEF TurnedTo
<1>7. DelPath(m2, I, R2, K, c, f)
  BY <1>3, <1>4, <1>5, <1>6, PathLent, SMTT(60)
<1>. QED
  BY <1>2, <1>7 DEF LentAll

LEMMA LentIsDone ==
  ASSUME NEW I, NEW n, NEW n1, SameData(n, n1, I), NEW m2, NEW rt, NEW rt2, NEW p, NEW c, NEW K, NEW f,
         LentAll(n1, m2, rt, rt2, I, p, c, K, f), NEW d,
         NEW t, t.n = m2, t.root = rt2, t.p = p
  PROVE  DeleteDone(n, t, I, K, c, d, f)
<1>1. PICK R2, P2 : LentDone(n1, m2, rt, rt2, I, R2, P2, p, c) /\ DelPath(m2, I, R2, K, c, f)
  BY DEF LentAll
<1>2. PICK D2 : /\ Fine(m2, rt2, I, R2, P2, D2) /\ c \in D2
                /\ SameData(n1, m2, I) /\ m2[Aux].r = rt2 /\ m2[Aux].l = Nil
                /\ c # rt2 /\ P2[c] = p
  BY <1>1 DEF LentDone
<1>3. SameData(n, m2, I)
  BY <1>2 DEF SameData
<1>. QED
  BY <1>1, <1>2, <1>3 DEF DeleteDone

LEMMA RedSons ==
  ASSUME NEW I, Room(I), NEW n, Typed(n, I), NEW D, RedsAre(n, I, D), NEW x \in I
  PROVE  /\ \A e \in Dir : IsRed(n, n[x][e]) <=> n[x][e] \in D
         /\ (~IsRed(n, n[x].l) /\ ~IsRed(n, n[x].r)) <=> BlackSons(n, D, x)
<1>1. \A e \in Dir : n[x][e] \in I \cup {Nil}
  BY SonOf
<1>2. Nil \notin I
  BY DEF Room
<1>3. ASSUME NEW e \in Dir PROVE IsRed(n, n[x][e]) <=> n[x][e] \in D
  <2>1. PICK j : j = n[x][e]
    OBVIOUS
  <2>2. IsRed(n, j) <=> j \in RedIn(n, I)
    BY <2>1, <1>1, <1>2, IsRedIn
  <2>. QED
    BY <2>1, <2>2 DEF RedsAre
<1>4. "l" \in Dir /\ "r" \in Dir /\ (\A e \in Dir : e = "l" \/ e = "r")
  BY DEF Dir
<1>5. (IsRed(n, n[x]["l"]) <=> n[x]["l"] \in D) /\ (IsRed(n, n[x]["r"]) <=> n[x]["r"] \in D)
  BY <1>3, <1>4
<1>6. BlackSons(n, D, x) <=> (n[x]["l"] \notin D /\ n[x]["r"] \notin D)
  BY <1>4 DEF BlackSons
<1>7. n[x].l = n[x]["l"] /\ n[x].r = n[x]["r"]
  OBVIOUS
<1>8. (~IsRed(n, n[x]["l"]) /\ ~IsRed(n, n[x]["r"])) <=> BlackSons(n, D, x)
  BY <1>5, <1>6
<1>. QED
  BY <1>3, <1>7, <1>8, Zenon

\* A sibling with a red son on the near side.
LEMMA LendsNear ==
  ASSUME NEW I, Room(I), NEW n, NEW rt, NEW R, NEW P, NEW D, Fine(n, rt, I, R, P, D), UnderAux(n, rt),
         NEW p, NEW wd \in Dir, NEW od \in Dir, od = Other(wd), NEW c, NEW s, NEW i,
         InnerReady(n, rt, I, D, p, wd, od, c, s, i),
         NEW K, NEW f, DelPath(n, I, R, K, c, f),
         NEW hp, hp = Hold(p, rt, P), NEW rot, rot = Rot2(n, p, wd, od),
         NEW h, h = Rehang([n |-> rot.n, root |-> rt], hp, p, rot.top),
         NEW m1, m1 = SetRBB(h.n, rot.top), NEW m2, m2 = SetRed(m1, c, m1[rot.top].red)
  PROVE  \E n1 : SameData(n, n1, I) /\ LentAll(n1, m2, rt, h.root, I, p, c, K, f)
<1>1. PICK first : first = Rot1(n, s, od, wd)
  OBVIOUS
<1>2. PICK n1 : n1 = SetSon(first.n, p, od, i)
  OBVIOUS
<1>3. od # wd
  BY Sides
<1>4. first.top = i /\ InnerLent(n, n1, rt, I, P, p, wd, od, c, s, i, K, f)
  BY <1>1, <1>2, <1>3, LendInner
<1>5. PICK R1, P1, D0 :
        /\ Typed(n1, I) /\ SameData(n, n1, I) /\ Shape(n1, rt, I, R1, P1) /\ UnderAux(n1, rt)
        /\ RedsAre(n1, I, D0) /\ Even(n1, D0, I) /\ CanLend(n1, I, rt, D0, p, wd, od, c, i, s)
        /\ Hold(p, rt, P1) = Hold(p, rt, P) /\ DelPath(n1, I, R1, K, c, f)
  BY <1>4 DEF InnerLent
<1>6. s = n[p][od]
  BY DEF InnerReady
<1>7. rot = Rot1(n1, p, wd, od)
  BY <1>1, <1>2, <1>4, <1>6, Zenon DEF Rot2
<1>8. hp = Hold(p, rt, P1)
  BY <1>5
<1>9. LentAll(n1, m2, rt, h.root, I, p, c, K, f)
  BY <1>5, <1>7, <1>8, LendsAll
<1>. QED
  BY <1>5, <1>9

\* The sibling lends, whichever of its sons is red.
LEMMA Lends ==
  ASSUME NEW I, Room(I), NEW n, NEW rt, NEW R, NEW P, NEW D, Fine(n, rt, I, R, P, D),
         NEW K, NEW c, NEW p, NEW pp, NEW wd \in Dir, NEW d, NEW f,
         DelWin(n, rt, P, D, I, c, p, pp, wd), DelPath(n, I, R, K, c, f),
         c \notin D, BlackSons(n, D, c), NEW od, od = Other(wd),
         NEW s, s = n[p][od], s # Nil, ~BlackSons(n, D, s),
         NEW t, t = Lent(n, rt, c, p, pp, wd, s, od)
  PROVE  DeleteDone(n, t, I, K, c, d, f)
<1>1. /\ Typed(n, I) /\ Shape(n, rt, I, R, P) /\ RedsAre(n, I, D) /\ Even(n, D, I) /\ Under(n, D, I, Nil)
      /\ D \subseteq I /\ c \in I /\ Nil \notin I
  BY DEF Fine, RedsAre, RedIn, DelPath, Room
<1>2. od \in Dir /\ od # wd
  BY Sides
<1>3. /\ c # rt /\ p \in I /\ P[c] = p /\ n[p][wd] = c /\ s \in I /\ s # c /\ s # p /\ p # c
      /\ pp = (IF p = rt THEN Aux ELSE P[p])
      /\ (p \in D \/ p = rt)
      /\ s \notin D
  BY <1>1, DelParent
<1>4. pp = Hold(p, rt, P)
  BY <1>3 DEF Hold
<1>5. UnderAux(n, rt)
  BY DEF DelWin, UnderAux
<1>6. PICK i : i = n[s][wd]
  OBVIOUS
<1>7. i \in I \cup {Nil}
  BY <1>1, <1>3, <1>6, SonOf
<1>8. IsRed(n, i) <=> i \in D
  BY <1>1, <1>3, <1>6, RedSons
<1>9. CASE i \in D
  <2>1. PICK rot : rot = Rot2(n, p, wd, od)
    OBVIOUS
  <2>2. PICK h : h = Rehang([n |-> rot.n, root |-> rt], pp, p, rot.top)
    OBVIOUS
  <2>3. PICK m1 : m1 = SetRBB(h.n, rot.top)
    OBVIOUS
  <2>4. PICK m2 : m2 = SetRed(m1, c, m1[rot.top].red)
    OBVIOUS
  <2>5. IsRed(n, n[s][wd])
    BY <1>6, <1>8, <1>9, Zenon
  <2>6. t = [n |-> m2, root |-> h.root, p |-> p]
    BY <2>1, <2>2, <2>3, <2>4, <2>5, Zenon DEF Lent
  <2>7. InnerReady(n, rt, I, D, p, wd, od, c, s, i)
    BY <1>1, <1>3, <1>6, <1>9 DEF InnerReady
  <2>8. \E n1 : SameData(n, n1, I) /\ LentAll(n1, m2, rt, h.root, I, p, c, K, f)
    BY <1>4, <1>5, <1>2, <2>1, <2>2, <2>3, <2>4, <2>7, LendsNear, SMTT(60)
  <2>9. t.n = m2 /\ t.root = h.root /\ t.p = p
    BY <2>6
  <2>. QED
    BY <2>8, <2>9, LentIsDone
<1>10. CASE i \notin D
  <2>1. PICK rot : rot = Rot1(n, p, wd, od)
    OBVIOUS
  <2>2. PICK h : h = Rehang([n |-> rot.n, root |-> rt], pp, p, rot.top)
    OBVIOUS
  <2>3. PICK m1 : m1 = SetRBB(h.n, rot.top)
    OBVIOUS
  <2>4. PICK m2 : m2 = SetRed(m1, c, m1[rot.top].red)
    OBVIOUS
  <2>5. ~IsRed(n, n[s][wd])
    BY <1>6, <1>8, <1>10, Zenon
  <2>6. t = [n |-> m2, root |-> h.root, p |-> p]
    BY <2>1, <2>2, <2>3, <2>4, <2>5, Zenon DEF Lent
  <2>7. PICK z : z = n[s][od]
    OBVIOUS
  <2>8. z \in D
    <3>1. \A e \in Dir : e = wd \/ e = od
      BY Sides
    <3>. QED
      BY <3>1, <2>7, <1>6, <1>10 DEF BlackSons
  <2>9. Under(n, D, I, z)
    BY <1>1 DEF Under
  <2>10. CanLend(n, I, rt, D, p, wd, od, c, s, z)
    BY <1>1, <1>3, <2>7, <2>8, <2>9 DEF CanLend
  <2>11. LentAll(n, m2, rt, h.root, I, p, c, K, f)
    BY <1>1, <1>2, <1>4, <1>5, <2>1, <2>2, <2>3, <2>4, <2>10, LendsAll
  <2>12. t.n = m2 /\ t.root = h.root /\ t.p = p
    BY <2>6
  <2>13. SameData(n, n, I)
    BY DEF SameData
  <2>. QED
    BY <2>11, <2>12, <2>13, LentIsDone
<1>. QED
  BY <1>9, <1>10

\* A turn of the loop of st_delete at c, before it goes to side d.
LEMMA DeleteTurn ==
  ASSUME NEW I, Room(I), NEW n, NEW rt, NEW R, NEW P, NEW D, Fine(n, rt, I, R, P, D),
         NEW K \in Int, NEW c, NEW p, NEW pp, NEW wd \in Dir, NEW d \in Dir, NEW f,
         DelWin(n, rt, P, D, I, c, p, pp, wd), DelPath(n, I, R, K, c, f),
         Before(d, K, n[c].key) \/ (K = n[c].key /\ d = "l"),
         NEW t, t = Pushed(n, rt, c, p, pp, wd, d)
  PROVE  DeleteDone(n, t, I, K, c, d, f)
<1>1. /\ Typed(n, I) /\ Shape(n, rt, I, R, P) /\ RedsAre(n, I, D) /\ Even(n, D, I) /\ Under(n, D, I, Nil)
      /\ D \subseteq I /\ c \in I /\ Nil \notin I
  BY DEF Fine, RedsAre, RedIn, DelPath, Room
<1>2. PICK xd \in Dir : xd = Other(d)
  BY Sides
<1>3. PICK y, s : y = n[c][xd] /\ s = n[p][Other(wd)]
  OBVIOUS
<1>4. PICK asIs : asIs = [n |-> n, root |-> rt, p |-> p]
  OBVIOUS
<1>5. \A e \in Dir : IsRed(n, n[c][e]) <=> n[c][e] \in D
  BY <1>1, RedSons
<1>6. n[c].red <=> c \in D
  BY <1>1, Zenon DEF RedsAre, RedIn
<1>7. CASE c \in D \/ n[c][d] \in D
  <2>1. n[c].red \/ IsRed(n, n[c][d])
    BY <1>5, <1>6, <1>7, Zenon
  <2>2. t = asIs
    BY <2>1, <1>4, Zenon DEF Pushed
  <2>. QED
    BY <2>2, <1>4, <1>7, AsItIs
<1>8. CASE c \notin D /\ n[c][d] \notin D /\ y \in D
  <2>1. ~(n[c].red \/ IsRed(n, n[c][d])) /\ IsRed(n, n[c][Other(d)])
    BY <1>2, <1>3, <1>5, <1>6, <1>8, Zenon
  <2>2. PICK rot : rot = Rot1(n, c, d, xd)
    OBVIOUS
  <2>3. PICK m : m = SetSon(rot.n, p, wd, y)
    OBVIOUS
  <2>4. t = [n |-> m, p |-> y, root |-> IF c = rt THEN y ELSE rt]
    BY <2>1, <2>2, <2>3, <1>2, <1>3, Zenon DEF Pushed
  <2>5. t = [n |-> m, root |-> IF c = rt THEN y ELSE rt, p |-> y]
    BY <2>4
  <2>. QED
    BY <2>2, <2>3, <2>5, <1>2, <1>3, <1>8, RotatesDown
<1>9. CASE c \notin D /\ n[c][d] \notin D /\ y \notin D
  <2>1. ~(n[c].red \/ IsRed(n, n[c][d])) /\ ~IsRed(n, n[c][Other(d)])
    BY <1>2, <1>3, <1>5, <1>6, <1>9, Zenon
  <2>2. BlackSons(n, D, c)
    BY <1>2, <1>3, <1>9, Sides DEF BlackSons
  <2>3. CASE s = Nil
    <3>1. t = asIs
      BY <2>1, <2>3, <1>3, <1>4, Zenon DEF Pushed
    <3>2. c = rt
      <4>1. SUFFICES ASSUME c # rt PROVE FALSE
        OBVIOUS
      <4>2. p \in I /\ n[p][wd] = c
        BY <4>1 DEF DelWin
      <4>3. PICK H : Balanced(n, D, H, I)
        BY <1>1 DEF Even
      <4>4. H[p] = BH(H, c) + (IF p \in D THEN 0 ELSE 1)
        BY <4>2, <4>3 DEF Balanced
      <4>5. H[p] = BH(H, s) + (IF p \in D THEN 0 ELSE 1)
        BY <4>2, <4>3, <1>3, Sides DEF Balanced
      <4>6. H[c] = BH(H, n[c][d]) + 1 /\ BH(H, n[c][d]) \in Nat
        <5>1. H[c] = BH(H, n[c][d]) + 1
          BY <4>3, <1>1, <1>9 DEF Balanced
        <5>2. n[c][d] \in I \cup {Nil}
          BY <1>1, SonOf
        <5>. QED
          BY <5>1, <5>2, <4>3 DEF Balanced, BH
      <4>7. H[c] \in Nat /\ H[p] \in Nat /\ c # Nil
        BY <4>2, <4>3, <1>1 DEF Balanced
      <4>8. BH(H, c) = H[c] /\ BH(H, s) = 0
        BY <4>7, <2>3 DEF BH
      <4>. QED
        BY <4>4, <4>5, <4>6, <4>7, <4>8
    <3>3. n[c][Other(d)] \notin D
      BY <1>2, <1>3, <1>9
    <3>. QED
      BY <3>1, <3>2, <3>3, <1>4, AsItIs
  <2>4. CASE s # Nil
    <3>1. /\ c # rt /\ p \in I /\ s \in I
          /\ pp = (IF p = rt THEN Aux ELSE P[p])
      BY <1>1, <1>3, <1>9, <2>4, DelParent
    <3>2. (~IsRed(n, n[s].l) /\ ~IsRed(n, n[s].r)) <=> BlackSons(n, D, s)
      BY <3>1, <1>1, RedSons
    <3>3. CASE BlackSons(n, D, s)
      <4>1. PICK m : m = SetRed(SetRed(SetRed(n, p, FALSE), s, TRUE), c, TRUE)
        OBVIOUS
      <4>2. ~IsRed(n, n[s].l) /\ ~IsRed(n, n[s].r)
        BY <3>2, <3>3, Zenon
      <4>3. t = [asIs EXCEPT !.n = m]
        BY <4>1, <4>2, <2>1, <2>4, <1>3, <1>4, Zenon DEF Pushed
      <4>4. t = [n |-> m, root |-> rt, p |-> p]
        BY <4>3, <1>4
      <4>. QED
        BY <4>1, <4>4, <2>2, <2>4, <3>3, <1>3, <1>9, Flips
    <3>4. CASE ~BlackSons(n, D, s)
      <4>1. ~(~IsRed(n, n[s].l) /\ ~IsRed(n, n[s].r))
        BY <3>2, <3>4, Zenon
      <4>2. pp # Nil
        <5>1. p # rt => P[p] \in I
          BY <1>1, <3>1 DEF Shape
        <5>. QED
          BY <5>1, <3>1, <1>1 DEF Room
      <4>3. PICK od : od = Other(wd)
        OBVIOUS
      <4>4. t = Lent(n, rt, c, p, pp, wd, s, od)
        BY <4>1, <4>2, <4>3, <2>1, <2>4, <1>3, Zenon DEF Pushed
      <4>. QED
        BY <4>3, <4>4, <2>2, <2>4, <3>4, <1>3, <1>9, Lends
    <3>. QED
      BY <3>3, <3>4
  <2>. QED
    BY <2>3, <2>4
<1>. QED
  BY <1>7, <1>8, <1>9

----------------------------------------------------------------------------
(* The walk of a deletion: its start, and its turns.                       *)

\* The same keys, links and colours, whatever the values and Aux hold.
SameTree(n, m, I) ==
  \A i \in I : /\ m[i].key = n[i].key /\ m[i].red = n[i].red
               /\ \A e \in Dir : m[i][e] = n[i][e]

LEMMA SameFine ==
  ASSUME NEW I, NEW n, NEW rt, NEW R, NEW P, NEW D, Fine(n, rt, I, R, P, D),
         NEW m, Typed(m, I), SameTree(n, m, I)
  PROVE  Fine(m, rt, I, R, P, D)
<1>1. Shape(n, rt, I, R, P) /\ RedIn(n, I) = D /\ Even(n, D, I) /\ Under(n, D, I, Nil)
  BY DEF Fine, RedsAre
<1>2. /\ \A i \in I : m[i].key = n[i].key
      /\ \A i \in I, e \in Dir : m[i][e] = n[i][e]
  BY DEF SameTree
<1>3. Shape(m, rt, I, R, P)
  BY <1>1, <1>2 DEF Shape
<1>4. RedIn(m, I) = D
  <2>1. \A i \in I : m[i].red = n[i].red
    BY DEF SameTree
  <2>2. RedIn(m, I) = RedIn(n, I)
    BY <2>1, Zenon DEF RedIn
  <2>. QED
    BY <2>2, <1>1
<1>5. Even(m, D, I)
  <2>1. PICK H : Balanced(n, D, H, I)
    BY <1>1 DEF Even
  <2>2. Balanced(m, D, H, I)
    BY <2>1, <1>2 DEF Balanced
  <2>. QED
    BY <2>2 DEF Even
<1>6. Under(m, D, I, Nil)
  BY <1>1, <1>2 DEF Under
<1>. QED
  BY <1>3, <1>4, <1>5, <1>6 DEF Fine, RedsAre

LEMMA SameIsTree ==
  ASSUME NEW I, NEW n, NEW rt, IsTree(n, rt, I),
         NEW m, Typed(m, I), SameTree(n, m, I)
  PROVE  IsTree(m, rt, I)
<1>1. PICK R, P, D : Fine(n, rt, I, R, P, D) /\ rt \notin D
  BY DEF IsTree
<1>2. Fine(m, rt, I, R, P, D)
  BY <1>1, SameFine
<1>. QED
  BY <1>1, <1>2 DEF IsTree

\* A tree that the deletion of key K walks down.
DelWalk(n, rt, I, K, c, p, pp, wd, f) ==
  \E R, P, D : /\ Fine(n, rt, I, R, P, D)
               /\ DelWin(n, rt, P, D, I, c, p, pp, wd)
               /\ DelPath(n, I, R, K, c, f)

\* Aux with the root for its right son.
AuxSet(n, m, I, rt) ==
  Typed(m, I) /\ SameTree(n, m, I) /\ m[Aux].r = rt /\ m[Aux].l = n[Aux].l

LEMMA AuxOverRoot ==
  ASSUME NEW I, Room(I), NEW n, Typed(n, I), NEW rt \in I,
         NEW m, m = SetSon(n, Aux, "r", rt)
  PROVE  AuxSet(n, m, I, rt)
<1>1. Aux \notin I /\ "r" \in Dir
  BY DEF Room, Dir
<1>3. Typed(m, I) /\ SonSet(n, m, I, Aux, "r", rt) /\ SameData(n, m, I) /\ SameReds(n, m, I)
  BY <1>1, SetSonEffect
<1>4. SameTree(n, m, I)
  <2>1. \A i \in I : m[i].key = n[i].key
    BY <1>3 DEF SameData
  <2>2. \A i \in I : m[i].red = n[i].red
    BY <1>3 DEF SameReds
  <2>3. \A i \in I, e \in Dir : m[i][e] = n[i][e]
    BY <1>1, <1>3 DEF SonSet
  <2>. QED
    BY <2>1, <2>2, <2>3 DEF SameTree
<1>5. \A e \in Dir : m[Aux][e] = IF e = "r" THEN rt ELSE n[Aux][e]
  BY <1>3 DEF SonSet
<1>6. m[Aux].r = rt /\ m[Aux].l = n[Aux].l
  BY <1>5 DEF Dir
<1>. QED
  BY <1>3, <1>4, <1>6 DEF AuxSet

LEMMA DeleteStarts ==
  ASSUME NEW I, Room(I), NEW n, NEW rt, IsTree(n, rt, I), n[Aux].l = Nil, NEW K \in Int,
         NEW m, AuxSet(n, m, I, rt)
  PROVE  DelWalk(m, rt, I, K, rt, Aux, Nil, "r", Nil)
<1>1. PICK R, P, D : Fine(n, rt, I, R, P, D)
  BY DEF IsTree
<1>2. Fine(m, rt, I, R, P, D)
  BY <1>1, SameFine DEF AuxSet
<1>3. Typed(m, I) /\ Shape(m, rt, I, R, P)
  BY <1>2 DEF Fine
<1>4. PICK R2 : R2 = [R EXCEPT ![rt] = Int]
  OBVIOUS
<1>5. Shape(m, rt, I, R2, P) /\ R2[rt] = Int
  BY <1>3, <1>4, WidenRoot
<1>6. Fine(m, rt, I, R2, P, D)
  BY <1>2, <1>5 DEF Fine
<1>7. rt \in I
  BY <1>3 DEF Shape
<1>8. m[Aux].r = rt /\ m[Aux].l = Nil
  BY DEF AuxSet
<1>9. DelWin(m, rt, P, D, I, rt, Aux, Nil, "r")
  BY <1>8 DEF DelWin
<1>10. DelPath(m, I, R2, K, rt, Nil)
  BY <1>5, <1>7 DEF DelPath, Lower, Room
<1>. QED
  BY <1>6, <1>9, <1>10 DEF DelWalk

\* What is left to look through, one link further down.
LEMMA PathDown ==
  ASSUME NEW I, Room(I), NEW n, Typed(n, I), NEW rt, NEW R, NEW P, Shape(n, rt, I, R, P),
         NEW K \in Int, NEW c, NEW f, DelPath(n, I, R, K, c, f),
         NEW d \in Dir, Before(d, K, n[c].key) \/ (K = n[c].key /\ d = "l"),
         NEW j, j = n[c][d], j # Nil,
         NEW R2, Widened(n, R, R2, c, d),
         NEW g, g = IF n[c].key = K THEN c ELSE f
  PROVE  DelPath(n, I, R2, K, j, g)
<1>1. /\ c \in I /\ Lower(R[c], K)
      /\ f = Nil => K \in R[c]
      /\ f # Nil => f \in I /\ n[f].key = K /\ R[c] \subseteq R[f] /\ \A k \in R[c] : k < K
  BY DEF DelPath
<1>2. c \in I
  BY <1>1
<1>3. /\ Shape(n, rt, I, R2, P) /\ R2[c] = R[c]
      /\ \A k \in R[c] : Before(d, k, n[c].key) => k \in R2[j]
      /\ \A k \in R2[j] : k \in R[c] /\ Before(d, k, n[c].key)
  BY <1>2, Widen
<1>4. j \in I /\ j # c /\ n[c].key \in R[c] /\ n[c].key \in Int
  <2>1. j \in I /\ j # c
    BY <1>2, Link1
  <2>2. n[c].key \in Int /\ n[c].key \in R[c]
    BY <1>2, KeyOf DEF Shape
  <2>. QED
    BY <2>1, <2>2
<1>5. R[c] \subseteq Int /\ Nil \notin I
  BY <1>2 DEF Shape, Room
<1>6. f # Nil => n[c].key < K /\ n[c].key # K /\ d = "r" /\ g = f
  BY <1>1, <1>4 DEF Before, Dir
<1>7. Lower(R2[j], K)
  <2>1. SUFFICES ASSUME NEW a \in R2[j], NEW k \in Int, a <= k, k < K PROVE k \in R2[j]
    BY DEF Lower
  <2>2. a \in R[c] /\ a \in Int /\ Before(d, a, n[c].key)
    BY <1>3, <1>5
  <2>3. k \in R[c]
    BY <2>1, <2>2, <1>1 DEF Lower
  <2>4. Before(d, k, n[c].key)
    BY <2>1, <2>2, <1>4 DEF Before, Dir
  <2>. QED
    BY <2>3, <2>4, <1>3
<1>8. g = Nil => K \in R2[j]
  BY <1>1, <1>3, <1>4, <1>5
<1>9. g # Nil => g \in I /\ n[g].key = K
  BY <1>1
<1>10. g # Nil => \A k \in R2[j] : k < K
  <2>1. CASE n[c].key = K
    BY <2>1, <1>3, <1>4, <1>5 DEF Before
  <2>2. CASE n[c].key # K
    BY <2>2, <1>1, <1>3
  <2>. QED
    BY <2>1, <2>2
<1>11. g # Nil => R2[j] \subseteq R2[g]
  <2>1. CASE n[c].key = K
    BY <2>1, <1>3
  <2>2. CASE n[c].key # K /\ f # Nil
    <3>1. f \in I /\ n[f].key = K /\ R[c] \subseteq R[f]
      BY <2>2, <1>1
    <3>2. CASE f = j
      BY <3>2, <2>2
    <3>3. CASE f # j
      <4>1. R2[f] = R[f]
        BY <3>1, <3>3 DEF Widened, Shape
      <4>. QED
        BY <4>1, <3>1, <2>2, <1>3
    <3>. QED
      BY <3>2, <3>3
  <2>. QED
    BY <2>1, <2>2
<1>. QED
  BY <1>4, <1>7, <1>8, <1>9, <1>10, <1>11 DEF DelPath

\* The walk goes on to side d.
LEMMA DeleteGoesOn ==
  ASSUME NEW I, Room(I), NEW K \in Int, NEW n, NEW t, NEW c \in I, NEW f,
         NEW d \in Dir, Before(d, K, n[c].key) \/ (K = n[c].key /\ d = "l"),
         DeleteDone(n, t, I, K, c, d, f), NEW j, j = t.n[c][d], j # Nil,
         NEW g, g = IF n[c].key = K THEN c ELSE f
  PROVE  DelWalk(t.n, t.root, I, K, j, c, t.p, d, g)
<1>1. PICK R, P, D :
        /\ SameData(n, t.n, I) /\ Fine(t.n, t.root, I, R, P, D)
        /\ t.n[Aux].r = t.root /\ t.n[Aux].l = Nil
        /\ t.p = (IF c = t.root THEN Aux ELSE P[c])
        /\ c \in D \/ t.n[c][d] \in D \/ (c = t.root /\ t.n[c][Other(d)] \notin D)
        /\ DelPath(t.n, I, R, K, c, f)
  BY DEF DeleteDone
<1>2. PICK m, rt, p : m = t.n /\ rt = t.root /\ p = t.p
  OBVIOUS
<1>3. Fine(m, rt, I, R, P, D) /\ Typed(m, I) /\ Shape(m, rt, I, R, P) /\ DelPath(m, I, R, K, c, f)
  BY <1>1, <1>2 DEF Fine
<1>4. m[c].key = n[c].key
  BY <1>1, <1>2 DEF SameData
<1>5. PICK R2 : Widened(m, R, R2, c, d)
  BY DEF Widened
<1>6. j = m[c][d] /\ j # Nil
  BY <1>2
<1>7. Shape(m, rt, I, R2, P)
  BY <1>3, <1>5, <1>6, Widen
<1>8. Fine(m, rt, I, R2, P, D)
  BY <1>3, <1>7 DEF Fine
<1>9. DelPath(m, I, R2, K, j, g)
  <2>1. Before(d, K, m[c].key) \/ (K = m[c].key /\ d = "l")
    BY <1>4
  <2>2. g = IF m[c].key = K THEN c ELSE f
    BY <1>4
  <2>3. Typed(m, I) /\ Shape(m, rt, I, R, P) /\ DelPath(m, I, R, K, c, f)
    BY <1>3
  <2>. QED
    BY <2>1, <2>2, <2>3, <1>5, <1>6, PathDown
<1>10. j \in I /\ j # rt /\ P[j] = c
  <2>1. Typed(m, I) /\ Shape(m, rt, I, R, P)
    BY <1>3
  <2>. QED
    BY <2>1, <1>6, OneParent
<1>11. DelWin(m, rt, P, D, I, j, c, p, d)
  <2>1. m[Aux].r = rt /\ m[Aux].l = Nil
    BY <1>1, <1>2
  <2>2. p = IF c = rt THEN Aux ELSE P[c]
    BY <1>1, <1>2
  <2>3. c = Aux \/ c \in D \/ j \in D \/ (c = rt /\ m[c][Other(d)] \notin D)
    BY <1>1, <1>2
  <2>. QED
    BY <2>1, <2>2, <2>3, <1>6, <1>10 DEF DelWin
<1>. QED
  BY <1>2, <1>8, <1>9, <1>11 DEF DelWalk

----------------------------------------------------------------------------
(* The end of a deletion.                                                  *)

\* The end of a path of nodes without red sons is a leaf.
LEMMA LeafAtEnd ==
  ASSUME NEW I, Room(I), NEW n, NEW rt, NEW R, NEW P, NEW D, Fine(n, rt, I, R, P, D),
         NEW c \in I, NEW d \in Dir, n[c][d] = Nil, c \in D \/ n[c][Other(d)] \notin D
  PROVE  \A e \in Dir : n[c][e] = Nil
<1>1. Typed(n, I) /\ Under(n, D, I, Nil) /\ Nil \notin I
  BY DEF Fine, Room
<1>2. PICK H : Balanced(n, D, H, I)
  BY DEF Fine, Even
<1>3. PICK od, o : od = Other(d) /\ o = n[c][od]
  OBVIOUS
<1>4. od \in Dir /\ \A e \in Dir : e = d \/ e = od
  BY <1>3, Sides
<1>5. o \notin D
  BY <1>1, <1>3, <1>4 DEF Under
<1>6. H \in [I -> Nat] /\ \A i \in I, e \in Dir : H[i] = BH(H, n[i][e]) + IF i \in D THEN 0 ELSE 1
  BY <1>2 DEF Balanced
<1>7. o \in I \cup {Nil}
  BY <1>1, <1>3, <1>4, SonOf
<1>8. BH(H, o) = BH(H, n[c][d])
  <2>1. BH(H, o) \in Int /\ BH(H, n[c][d]) \in Int
    BY <1>6, <1>7 DEF BH
  <2>. QED
    BY <2>1, <1>3, <1>4, <1>6
<1>9. BH(H, o) = 0
  BY <1>8 DEF BH
<1>10. o = Nil
  <2>1. SUFFICES ASSUME o # Nil PROVE FALSE
    OBVIOUS
  <2>2. o \in I /\ H[o] = 0
    BY <2>1, <1>7, <1>9 DEF BH
  <2>3. n[o][d] \in I \cup {Nil}
    BY <2>2, <1>1, SonOf
  <2>4. H[o] = BH(H, n[o][d]) + 1 /\ BH(H, n[o][d]) \in Nat
    BY <2>2, <2>3, <1>5, <1>6 DEF BH
  <2>. QED
    BY <2>2, <2>4
<1>. QED
  BY <1>3, <1>4, <1>10

LEMMA RootBlackened ==
  ASSUME NEW I, Room(I), NEW n, NEW rt, NEW R, NEW P, NEW D, Fine(n, rt, I, R, P, D),
         NEW m, m = SetRed(n, rt, FALSE)
  PROVE  IsTree(m, rt, I) /\ SameData(n, m, I) /\ Typed(m, I)
<1>1. Typed(n, I) /\ Shape(n, rt, I, R, P) /\ RedIn(n, I) = D /\ Even(n, D, I) /\ Under(n, D, I, Nil)
  BY DEF Fine, RedsAre
<1>2. rt \in I
  BY <1>1 DEF Shape
<1>3. Typed(m, I) /\ SameData(n, m, I) /\ SameSons(n, m, I) /\ RedsAre(m, I, D \ {rt})
  BY <1>1, <1>2, BlackenedOne
<1>4. PICK D2 : D2 = D \ {rt}
  OBVIOUS
<1>5. RedsAre(m, I, D2)
  BY <1>3, <1>4
<1>6. Shape(m, rt, I, R, P)
  BY <1>1, <1>3, SameShape
<1>7. Even(n, D2, I)
  <2>1. PICK H : Balanced(n, D, H, I)
    BY <1>1 DEF Even
  <2>2. \E H2 : Balanced(n, D2, H2, I)
    BY <2>1, <1>1, <1>4, BlackRoot
  <2>. QED
    BY <2>2 DEF Even
<1>8. Under(n, D2, I, Nil)
  BY <1>1, <1>4 DEF Under
<1>9. Even(m, D2, I) /\ Under(m, D2, I, Nil)
  BY <1>3, <1>7, <1>8, SameRules
<1>10. Fine(m, rt, I, R, P, D2)
  BY <1>3, <1>5, <1>6, <1>9 DEF Fine
<1>11. rt \notin D2
  BY <1>4
<1>. QED
  BY <1>3, <1>10, <1>11 DEF IsTree

\* The end of a deletion of a key that is not there.
LEMMA EndsWithout ==
  ASSUME NEW I, Room(I), NEW K \in Int, NEW n, NEW t, NEW c \in I,
         NEW d \in Dir, Before(d, K, n[c].key), DeleteDone(n, t, I, K, c, d, Nil), t.n[c][d] = Nil,
         NEW m, m = SetRed(t.n, t.root, FALSE)
  PROVE  IsTree(m, t.root, I) /\ SameData(n, m, I) /\ Typed(m, I) /\ \A i \in I : n[i].key # K
<1>1. PICK R, P, D :
        /\ SameData(n, t.n, I) /\ Fine(t.n, t.root, I, R, P, D)
        /\ DelPath(t.n, I, R, K, c, Nil)
  BY DEF DeleteDone
<1>2. PICK n2, rt : n2 = t.n /\ rt = t.root
  OBVIOUS
<1>3. Fine(n2, rt, I, R, P, D) /\ SameData(n, n2, I)
  BY <1>1, <1>2
<1>4. IsTree(m, rt, I) /\ SameData(n2, m, I) /\ Typed(m, I)
  <2>1. m = SetRed(n2, rt, FALSE)
    BY <1>2
  <2>. QED
    BY <2>1, <1>3, RootBlackened
<1>5. SameData(n, m, I)
  BY <1>3, <1>4 DEF SameData
<1>6. ASSUME NEW i \in I PROVE n[i].key # K
  <2>1. K \in R[c]
    BY <1>1 DEF DelPath
  <2>2. n2[c].key = n[c].key /\ n2[i].key = n[i].key
    BY <1>3 DEF SameData
  <2>3. Typed(n2, I) /\ Shape(n2, rt, I, R, P)
    BY <1>3 DEF Fine
  <2>4. n2[c][d] = Nil /\ Before(d, K, n2[c].key)
    BY <2>2, <1>2
  <2>5. n2[i].key # K
    BY <2>1, <2>3, <2>4, NoKey
  <2>. QED
    BY <2>2, <2>5
<1>. QED
  BY <1>2, <1>4, <1>5, <1>6

\* The array over fewer indexes, or as many, as Become makes it.
Cut(x, J) == [i \in J \cup {Aux} |-> IF i = Aux THEN NoNode ELSE x[i]]
CutTo(x, y, J) ==
  /\ Typed(y, J) /\ \A i \in J : y[i] = x[i]
  /\ y[Aux].l = Nil /\ y[Aux].r = Nil /\ y[Aux] = NoNode

LEMMA NarrowNode ==
  ASSUME NEW I, NEW J, NEW B, NEW x,
         x \in [key : Key \cup {0}, val : 0 .. ValMod - 1,
                l : I \cup {Nil}, r : I \cup {Nil}, red : B],
         x.l \in J \cup {Nil}, x.r \in J \cup {Nil}
  PROVE  x \in [key : Key \cup {0}, val : 0 .. ValMod - 1,
                l : J \cup {Nil}, r : J \cup {Nil}, red : B]
OBVIOUS

LEMMA CutTyped ==
  ASSUME NEW I, NEW x, Typed(x, I), NEW J, J \subseteq I, Aux \notin J,
         \A i \in J, e \in Dir : x[i][e] \in J \cup {Nil},
         NEW y, y = Cut(x, J)
  PROVE  CutTo(x, y, J)
<1>1. PICK B : B = BOOLEAN
  OBVIOUS
<1>2. /\ \A i \in J : y[i] = x[i]
      /\ y[Aux] = NoNode
      /\ y = [i \in J \cup {Aux} |-> y[i]]
  BY DEF Cut
<1>3. NoNode \in [key : Key \cup {0}, val : 0 .. ValMod - 1,
                  l : J \cup {Nil}, r : J \cup {Nil}, red : B]
  <2>1. PICK f : f = FALSE /\ f \in B
    BY <1>1, Zenon
  <2>2. NoNode = [key |-> 0, val |-> 0, l |-> Nil, r |-> Nil, red |-> f]
    BY <2>1 DEF NoNode
  <2>3. 0 \in 0 .. ValMod - 1
    BY RBTreeAssumption
  <2>. QED
    BY <2>1, <2>2, <2>3
<1>4. ASSUME NEW i \in J
      PROVE  y[i] \in [key : Key \cup {0}, val : 0 .. ValMod - 1,
                       l : J \cup {Nil}, r : J \cup {Nil}, red : B]
  <2>1. x[i] \in [key : Key \cup {0}, val : 0 .. ValMod - 1,
                  l : I \cup {Nil}, r : I \cup {Nil}, red : B]
    BY <1>1, Zenon DEF Typed
  <2>2. x[i].l \in J \cup {Nil} /\ x[i].r \in J \cup {Nil}
    BY DEF Dir
  <2>3. x[i] \in [key : Key \cup {0}, val : 0 .. ValMod - 1,
                  l : J \cup {Nil}, r : J \cup {Nil}, red : B]
    BY <2>1, <2>2, NarrowNode, Zenon
  <2>. QED
    BY <2>3, <1>2, Zenon
<1>5. y \in [J \cup {Aux} -> [key : Key \cup {0}, val : 0 .. ValMod - 1,
                  l : J \cup {Nil}, r : J \cup {Nil}, red : B]]
  <2>1. PICK T : T = [key : Key \cup {0}, val : 0 .. ValMod - 1,
                  l : J \cup {Nil}, r : J \cup {Nil}, red : B]
    OBVIOUS
  <2>2. \A i \in J \cup {Aux} : y[i] \in T
    BY <1>2, <1>3, <1>4, <2>1, Zenon
  <2>3. y \in [J \cup {Aux} -> T]
    BY <2>2, <1>2, Zenon
  <2>. QED
    BY <2>1, <2>3, Zenon
<1>6. Typed(y, J)
  BY <1>1, <1>5, Zenon DEF Typed
<1>7. y[Aux].l = Nil /\ y[Aux].r = Nil
  BY <1>2 DEF NoNode
<1>. QED
  BY <1>2, <1>6, <1>7 DEF CutTo

\* The links to c are cut.
LinksCut(m, x, I, c) == \A i \in I, e \in Dir : x[i][e] = IF m[i][e] = c THEN Nil ELSE m[i][e]
Unhooked(m, x, I, c) ==
  /\ Typed(x, I) /\ LinksCut(m, x, I, c)
  /\ \A i \in I : x[i].key = m[i].key
\* And the data of c have gone to g.
TakenOut(m, x, I, c, g) ==
  /\ Typed(x, I) /\ LinksCut(m, x, I, c)
  /\ \A i \in I : x[i].key = (IF i = g THEN m[c].key ELSE m[i].key)
                  /\ x[i].val = (IF i = g THEN m[c].val ELSE m[i].val)
  /\ \A i \in I : x[i].red = m[i].red

DataTo(n, m, g, k, v) == m = [n EXCEPT ![g].key = k, ![g].val = v]
DataAt(n, m, I, g, k, v) ==
  \A i \in I : m[i].key = (IF i = g THEN k ELSE n[i].key)
              /\ m[i].val = (IF i = g THEN v ELSE n[i].val)

LEMMA DataMoved ==
  ASSUME NEW I, Room(I), NEW n, Typed(n, I), NEW g \in I,
         NEW k \in Key \cup {0}, NEW v \in 0 .. ValMod - 1,
         NEW m, DataTo(n, m, g, k, v)
  PROVE  /\ Typed(m, I) /\ SameSons(n, m, I) /\ SameReds(n, m, I)
         /\ DataAt(n, m, I, g, k, v)
<1>1. Typed(m, I)
  BY ZenonT(60) DEF Typed, DataTo
<1>2. SameSons(n, m, I)
  BY ZenonT(60) DEF Typed, Dir, SameSons, DataTo
<1>3. SameReds(n, m, I)
  BY DEF Typed, SameReds, DataTo
<1>4. DataAt(n, m, I, g, k, v)
  BY DEF Typed, DataTo, DataAt
<1>. QED
  BY <1>1, <1>2, <1>3, <1>4

\* Nothing is set to the one link to c.
LEMMA LinkCut ==
  ASSUME NEW I, Room(I), NEW n, Typed(n, I), NEW rt, NEW R, NEW P, Shape(n, rt, I, R, P),
         NEW c \in I, c # rt, NEW p, p = P[c],
         NEW n1, Typed(n1, I), SameSons(n, n1, I),
         NEW x, x = SetSon(n1, p, SideOf(n1, p, c), Nil)
  PROVE  /\ Typed(x, I) /\ LinksCut(n, x, I, c) /\ SameData(n1, x, I) /\ SameReds(n1, x, I)
<1>1. p \in I
  BY DEF Shape
<1>2. PICK d \in Dir : n[p][d] = c
  BY DEF Shape
<1>3. c # Nil
  BY DEF Room
<1>4. c = n[p][d]
  BY <1>2
<1>5. /\ n[p][Other(d)] # c
      /\ \A a \in I, e \in Dir : n[a][e] = c => a = p /\ e = d
  BY <1>1, <1>3, <1>4, OneParent, SMTT(60)
<1>6. \A e \in Dir : n1[p][e] = n[p][e]
  BY <1>1 DEF SameSons
<1>7. SideOf(n1, p, c) = d
  BY <1>2, <1>5, <1>6 DEF SideOf, Dir, Other
<1>8. x = SetSon(n1, p, d, Nil)
  BY <1>7
<1>9. Typed(x, I) /\ SonSet(n1, x, I, p, d, Nil) /\ SameData(n1, x, I) /\ SameReds(n1, x, I)
  BY <1>1, <1>8, SetSonEffect
<1>10. LinksCut(n, x, I, c)
  <2>1. \A i \in I, e \in Dir : x[i][e] = IF i = p /\ e = d THEN Nil ELSE n[i][e]
    BY <1>9 DEF SonSet, SameSons
  <2>. QED
    BY <2>1, <1>4, <1>5 DEF LinksCut
<1>. QED
  BY <1>9, <1>10

\* What Spliced makes of a tree m, n1 being m with the data of c in g.
LEMMA Splices ==
  ASSUME NEW I, Room(I), NEW n, Typed(n, I), NEW rt, NEW R, NEW P, Shape(n, rt, I, R, P),
         NEW c \in I, c # rt, \A e \in Dir : n[c][e] = Nil, NEW p, p = P[c], NEW g \in I,
         NEW n1, n1 = [n EXCEPT ![g].key = n[c].key, ![g].val = n[c].val],
         NEW t, t = Unlinked([n |-> n1, root |-> rt], c, p)
  PROVE  t.root = rt /\ TakenOut(n, t.n, I, c, g) /\ \E x : Unhooked(n, x, I, c)
<1>1. n[c].key \in Key \cup {0} /\ n[c].val \in 0 .. ValMod - 1
  BY KeyOf
<1>2. PICK k, v : k = n[c].key /\ v = n[c].val
  OBVIOUS
<1>3. /\ Typed(n1, I) /\ SameSons(n, n1, I) /\ SameReds(n, n1, I)
      /\ DataAt(n, n1, I, g, k, v)
  <2>1. k \in Key \cup {0} /\ v \in 0 .. ValMod - 1
    BY <1>1, <1>2
  <2>2. DataTo(n, n1, g, k, v)
    BY <1>2 DEF DataTo
  <2>. QED
    BY <2>1, <2>2, DataMoved
<1>4. n1[c].l = Nil /\ n1[c].r = Nil
  BY <1>3 DEF SameSons, Dir
<1>5. t.root = rt /\ t.n = SetSon(n1, p, SideOf(n1, p, c), Nil)
  <2>1. n1[c][IF n1[c].l = Nil THEN "r" ELSE "l"] = Nil
    BY <1>3, <1>4 DEF SameSons, Dir
  <2>. QED
    BY <2>1 DEF Unlinked
<1>6. PICK x : x = t.n
  OBVIOUS
<1>7. Typed(x, I) /\ LinksCut(n, x, I, c) /\ SameData(n1, x, I) /\ SameReds(n1, x, I)
  <2>1. x = SetSon(n1, p, SideOf(n1, p, c), Nil)
    BY <1>5, <1>6
  <2>. QED
    BY <2>1, <1>3, LinkCut
<1>8. TakenOut(n, x, I, c, g)
  <2>1. \A i \in I : x[i].key = (IF i = g THEN n[c].key ELSE n[i].key)
                     /\ x[i].val = (IF i = g THEN n[c].val ELSE n[i].val)
    BY <1>2, <1>3, <1>7, ZenonT(60) DEF SameData, DataAt
  <2>2. \A i \in I : x[i].red = n[i].red
    <3>1. \A i \in I : x[i].red = n1[i].red
      BY <1>7, Zenon DEF SameReds
    <3>2. \A i \in I : n1[i].red = n[i].red
      BY <1>3, Zenon DEF SameReds
    <3>. QED
      BY <3>1, <3>2, Zenon
  <2>. QED
    BY <1>7, <2>1, <2>2 DEF TakenOut
<1>9. \E y : Unhooked(n, y, I, c)
  <2>1. PICK y : y = SetSon(n, p, SideOf(n, p, c), Nil)
    OBVIOUS
  <2>2. SameSons(n, n, I)
    BY DEF SameSons
  <2>3. Typed(y, I) /\ LinksCut(n, y, I, c) /\ SameData(n, y, I)
    BY <2>1, <2>2, LinkCut
  <2>4. Unhooked(n, y, I, c)
    BY <2>3 DEF Unhooked, SameData
  <2>. QED
    BY <2>4
<1>. QED
  BY <1>5, <1>6, <1>8, <1>9

LEMMA LeafCut ==
  ASSUME NEW I, Room(I), NEW m, Typed(m, I), NEW x, Typed(x, I), NEW c \in I, LinksCut(m, x, I, c),
         NEW J, J = I \ {c}, NEW y, y = Cut(x, J)
  PROVE  CutTo(x, y, J) /\ Room(J)
<1>1. \A i \in J, e \in Dir : x[i][e] \in J \cup {Nil}
  <2>1. SUFFICES ASSUME NEW i \in J, NEW e \in Dir PROVE x[i][e] \in J \cup {Nil}
    OBVIOUS
  <2>2. m[i][e] \in I \cup {Nil}
    BY SonOf
  <2>. QED
    BY <2>2 DEF LinksCut
<1>2. Aux \notin J /\ J \subseteq I
  BY DEF Room
<1>3. IsFiniteSet(J)
  BY <1>2, FS_Subset DEF Room
<1>4. Room(J)
  BY <1>3 DEF Room
<1>. QED
  BY <1>1, <1>2, <1>4, CutTyped

SameKeys(n, m, I) ==
  /\ \A i \in I : m[i].key = n[i].key
  /\ \A i \in I, e \in Dir : m[i][e] = n[i][e]

LEMMA SameKeysShape ==
  ASSUME NEW I, NEW n, NEW m, SameKeys(n, m, I),
         NEW rt, NEW R, NEW P, Shape(n, rt, I, R, P)
  PROVE  Shape(m, rt, I, R, P)
BY DEF Shape, SameKeys

\* m is n with key q at f.
KeySet(n, m, I, f, q) ==
  /\ \A i \in I : m[i].key = IF i = f THEN q ELSE n[i].key
  /\ \A i \in I, e \in Dir : m[i][e] = n[i][e]

LEMMA KeyGoesDown ==
  ASSUME NEW I, Room(I), NEW n, Typed(n, I), NEW rt, NEW R, NEW P, Shape(n, rt, I, R, P),
         NEW f \in I, NEW K, K = n[f].key, NEW q \in R[f], q < K,
         \A i \in I : n[i].key < q \/ n[i].key > K \/ i = f,
         NEW m, KeySet(n, m, I, f, q)
  PROVE  \E R2 : Shape(m, rt, I, R2, P)
<1>1. PICK R2 : R2 = [i \in I |-> IF K \in R[i] THEN R[i] ELSE {k \in R[i] : k < q \/ K < k}]
  OBVIOUS
<1>2. Shape(m, rt, I, R2, P)
  BY <1>1, KeyDown DEF KeySet
<1>. QED
  BY <1>2

\* The key to delete is at g, next above that of the leaf c, or c itself.
NextAbove(n, I, R, K, c, g) ==
  /\ g \in I /\ n[g].key = K /\ R[c] \subseteq R[g]
  /\ g # c => Lower(R[c], K) /\ n[c].key < K

LEMMA LeafOutShape ==
  ASSUME NEW I, Room(I), NEW n, Typed(n, I), NEW rt, NEW R, NEW P, Shape(n, rt, I, R, P),
         NEW K \in Int, NEW c \in I, c # rt, \A e \in Dir : n[c][e] = Nil,
         NEW g, NextAbove(n, I, R, K, c, g),
         NEW t, TakenOut(n, t, I, c, g), NEW x, Unhooked(n, x, I, c),
         NEW J, J = I \ {c}, NEW y, y = Cut(t, J)
  PROVE  \E R2, P2 : Shape(y, rt, J, R2, P2)
<1>1. CutTo(t, y, J) /\ Room(J)
  BY LeafCut DEF TakenOut
<1>2. PICK z : z = Cut(x, J)
  OBVIOUS
<1>3. CutTo(x, z, J)
  BY <1>2, LeafCut DEF Unhooked
<1>4. PICK R1, P1 : R1 = [i \in J |-> R[i]] /\ P1 = [i \in J |-> P[i]]
  OBVIOUS
<1>5. /\ \A i \in J : z[i].key = n[i].key
      /\ \A i \in J, e \in Dir : z[i][e] = IF n[i][e] = c THEN Nil ELSE n[i][e]
  <2>1. \A i \in J : z[i] = x[i] /\ i \in I
    BY <1>3 DEF CutTo
  <2>. QED
    BY <2>1 DEF Unhooked, LinksCut
<1>6. Shape(z, rt, J, R1, P1)
  BY <1>4, <1>5, DropLeaf
<1>7. KeySet(z, y, J, g, n[c].key)
  <2>1. \A i \in J : y[i] = t[i] /\ i \in I
    BY <1>1 DEF CutTo
  <2>2. \A i \in J : t[i].key = IF i = g THEN n[c].key ELSE n[i].key
    BY DEF TakenOut
  <2>3. \A i \in J, e \in Dir : t[i][e] = IF n[i][e] = c THEN Nil ELSE n[i][e]
    BY DEF TakenOut, LinksCut
  <2>4. \A i \in J : y[i].key = IF i = g THEN n[c].key ELSE z[i].key
    BY <2>1, <2>2, <1>5, ZenonT(60)
  <2>5. \A i \in J, e \in Dir : y[i][e] = z[i][e]
    <3>1. SUFFICES ASSUME NEW i \in J, NEW e \in Dir PROVE y[i][e] = z[i][e]
      OBVIOUS
    <3>2. i \in I /\ y[i][e] = t[i][e]
      BY <2>1
    <3>3. t[i][e] = IF n[i][e] = c THEN Nil ELSE n[i][e]
      BY <2>3, <3>2
    <3>4. z[i][e] = IF n[i][e] = c THEN Nil ELSE n[i][e]
      BY <1>5
    <3>. QED
      BY <3>2, <3>3, <3>4
  <2>. QED
    BY <2>4, <2>5 DEF KeySet
<1>8. CASE g = c
  <2>1. \A i \in J : y[i].key = z[i].key
    BY <1>7, <1>8 DEF KeySet
  <2>2. \A i \in J, e \in Dir : y[i][e] = z[i][e]
    BY <1>7 DEF KeySet
  <2>3. SameKeys(z, y, J)
    BY <2>1, <2>2 DEF SameKeys
  <2>4. Shape(y, rt, J, R1, P1)
    BY <2>3, <1>6, SameKeysShape
  <2>. QED
    BY <2>4
<1>9. CASE g # c
  <2>1. /\ g \in J /\ z[g].key = K
        /\ Lower(R[c], K) /\ n[c].key < K
    BY <1>5, <1>9 DEF NextAbove
  <2>2. PICK q : q = n[c].key
    OBVIOUS
  <2>3. q \in Int /\ q \in R[c] /\ q \in R1[g]
    <3>1. q \in R[c]
      BY <2>2 DEF Shape
    <3>2. q \in Int
      BY <2>2, KeyOf
    <3>. QED
      BY <3>1, <3>2, <2>1, <1>4 DEF NextAbove
  <2>4. ASSUME NEW i \in J PROVE z[i].key < q \/ z[i].key > K \/ i = g
    <3>1. i \in I /\ i # c /\ z[i].key = n[i].key /\ n[i].key \in Int
      BY <1>5, KeyOf
    <3>2. n[i].key = K => i = g
      <4>1. g \in I /\ n[g].key = K
        BY DEF NextAbove
      <4>. QED
        BY <3>1, <4>1, UniqueKeys
    <3>3. n[i].key \notin R[c]
      BY <3>1, LeafOnly
    <3>4. ~(q <= n[i].key /\ n[i].key < K)
      BY <3>1, <3>3, <2>1, <2>3 DEF Lower
    <3>. QED
      BY <3>1, <3>2, <3>4, <2>3
  <2>5. K = z[g].key /\ q < K
    BY <2>1, <2>2
  <2>6. Typed(z, J) /\ Room(J)
    BY <1>1, <1>3 DEF CutTo
  <2>7. KeySet(z, y, J, g, q)
    BY <2>2, <1>7
  <2>8. \E R2 : Shape(y, rt, J, R2, P1)
    <3>1. g \in J /\ q \in R1[g]
      BY <2>1, <2>3
    <3>2. \A i \in J : z[i].key < q \/ z[i].key > K \/ i = g
      BY <2>4
    <3>. QED
      BY <3>1, <3>2, <2>5, <2>6, <2>7, <1>6, KeyGoesDown
  <2>. QED
    BY <2>8
<1>. QED
  BY <1>8, <1>9

LEMMA LeafOutReds ==
  ASSUME NEW I, NEW n, NEW D, RedsAre(n, I, D), NEW c \in I, NEW g,
         NEW t, TakenOut(n, t, I, c, g), NEW J, J = I \ {c}, NEW y, CutTo(t, y, J)
  PROVE  RedsAre(y, J, D \ {c})
<1>1. \A i \in J : i \in I /\ y[i].red = t[i].red
  BY DEF CutTo
<1>2. \A i \in I : t[i].red = n[i].red
  BY DEF TakenOut
<1>3. \A i \in J : y[i].red = n[i].red
  BY <1>1, <1>2, Zenon
<1>4. \A i : i \in J <=> i \in I /\ i # c
  OBVIOUS
<1>5. \A i : i \in RedIn(y, J) <=> i \in RedIn(n, I) /\ i # c
  <2>1. \A i : i \in RedIn(y, J) <=> i \in J /\ y[i].red
    BY Zenon DEF RedIn
  <2>2. \A i : i \in RedIn(n, I) <=> i \in I /\ n[i].red
    BY Zenon DEF RedIn
  <2>. QED
    BY <1>3, <1>4, <2>1, <2>2, Zenon
<1>6. RedIn(y, J) = RedIn(n, I) \ {c}
  BY <1>5
<1>. QED
  BY <1>6 DEF RedsAre

LEMMA LeafOutRules ==
  ASSUME NEW I, Room(I), NEW n, Typed(n, I), NEW D, D \subseteq I, Even(n, D, I), Under(n, D, I, Nil),
         NEW c \in D, \A e \in Dir : n[c][e] = Nil, NEW g,
         NEW t, TakenOut(n, t, I, c, g), NEW J, J = I \ {c}, NEW y, CutTo(t, y, J),
         NEW D2, D2 = D \ {c}
  PROVE  Even(y, D2, J) /\ Under(y, D2, J, Nil)
<1>1. Nil \notin I
  BY DEF Room
<1>2. PICK H : Balanced(n, D, H, I)
  BY DEF Even
<1>3. H \in [I -> Nat] /\ \A i \in I, e \in Dir : H[i] = BH(H, n[i][e]) + IF i \in D THEN 0 ELSE 1
  BY <1>2 DEF Balanced
<1>4. H[c] = 0
  <2>1. PICK e \in Dir : n[c][e] = Nil
    BY DEF Dir
  <2>2. c \in I
    OBVIOUS
  <2>3. H[c] = BH(H, n[c][e]) + IF c \in D THEN 0 ELSE 1
    BY <2>2, <1>3
  <2>4. BH(H, n[c][e]) = 0
    BY <2>1 DEF BH
  <2>. QED
    BY <2>3, <2>4
<1>5. ASSUME NEW i \in J, NEW e \in Dir
      PROVE  /\ i \in I /\ n[i][e] \in I \cup {Nil}
             /\ y[i][e] = IF n[i][e] = c THEN Nil ELSE n[i][e]
  <2>1. i \in I /\ y[i] = t[i]
    BY DEF CutTo
  <2>2. t[i][e] = IF n[i][e] = c THEN Nil ELSE n[i][e]
    BY <2>1 DEF TakenOut, LinksCut
  <2>3. n[i][e] \in I \cup {Nil}
    BY <2>1, SonOf
  <2>. QED
    BY <2>1, <2>2, <2>3
<1>6. Under(y, D2, J, Nil)
  BY <1>1, <1>5 DEF Under
<1>7. PICK H2 : H2 = [i \in J |-> H[i]]
  OBVIOUS
<1>8. H2 \in [J -> Nat] /\ \A i \in J : H2[i] = H[i]
  BY <1>3, <1>7
<1>9. ASSUME NEW i \in J, NEW e \in Dir
      PROVE  H2[i] = BH(H2, y[i][e]) + IF i \in D2 THEN 0 ELSE 1
  <2>1. H[i] = BH(H, n[i][e]) + IF i \in D THEN 0 ELSE 1
    BY <1>3, <1>5
  <2>2. i \in D2 <=> i \in D
    BY <1>5
  <2>3. BH(H2, y[i][e]) = BH(H, n[i][e])
    <3>1. CASE n[i][e] = c
      <4>1. y[i][e] = Nil /\ n[i][e] # Nil
        BY <3>1, <1>1, <1>5
      <4>. QED
        BY <4>1, <3>1, <1>4 DEF BH
    <3>2. CASE n[i][e] # c
      <4>1. y[i][e] = n[i][e] /\ (n[i][e] # Nil => n[i][e] \in J)
        BY <3>2, <1>5
      <4>. QED
        BY <4>1, <1>8 DEF BH
    <3>. QED
      BY <3>1, <3>2
  <2>. QED
    BY <2>1, <2>2, <2>3, <1>8
<1>10. Balanced(y, D2, H2, J)
  BY <1>8, <1>9 DEF Balanced
<1>. QED
  BY <1>6, <1>10 DEF Even

\* A red leaf c is taken out of the tree.
LEMMA LeafOut ==
  ASSUME NEW I, Room(I), NEW n, NEW rt, NEW R, NEW P, NEW D, Fine(n, rt, I, R, P, D),
         NEW K \in Int, NEW c \in D, c # rt, \A e \in Dir : n[c][e] = Nil,
         NEW g, NextAbove(n, I, R, K, c, g),
         NEW t, TakenOut(n, t, I, c, g), NEW x, Unhooked(n, x, I, c),
         NEW J, J = I \ {c}, NEW y, y = Cut(t, J)
  PROVE  Room(J) /\ CutTo(t, y, J) /\ \E R2, P2, D2 : Fine(y, rt, J, R2, P2, D2)
<1>1. Typed(n, I) /\ Shape(n, rt, I, R, P) /\ RedsAre(n, I, D) /\ Even(n, D, I) /\ Under(n, D, I, Nil)
  BY DEF Fine
<1>2. D \subseteq I /\ c \in I
  BY <1>1 DEF RedsAre, RedIn
<1>3. CutTo(t, y, J) /\ Room(J)
  BY <1>1, <1>2, LeafCut DEF TakenOut
<1>4. PICK R2, P2 : Shape(y, rt, J, R2, P2)
  BY <1>1, <1>2, LeafOutShape
<1>5. PICK D2 : D2 = D \ {c}
  OBVIOUS
<1>6. RedsAre(y, J, D2)
  BY <1>1, <1>2, <1>3, <1>5, LeafOutReds
<1>7. Even(y, D2, J) /\ Under(y, D2, J, Nil)
  BY <1>1, <1>2, <1>3, <1>5, LeafOutRules
<1>8. Typed(y, J)
  BY <1>3 DEF CutTo
<1>9. Fine(y, rt, J, R2, P2, D2)
  BY <1>4, <1>6, <1>7, <1>8 DEF Fine
<1>. QED
  BY <1>3, <1>9

\* What the tree holds, as a map: key k with value v.
Holds(n, I, k, v) == \E i \in I : n[i].key = k /\ n[i].val = v
SameMap(n, I, m, J) == \A k, v : Holds(m, J, k, v) <=> Holds(n, I, k, v)
Without(n, I, m, J, K) == \A k, v : Holds(m, J, k, v) <=> Holds(n, I, k, v) /\ k # K

LEMMA KeyGone ==
  ASSUME NEW I, Room(I), NEW n, Typed(n, I), NEW rt, NEW R, NEW P, Shape(n, rt, I, R, P),
         NEW K, NEW c \in I, NEW g \in I, n[g].key = K,
         NEW t, TakenOut(n, t, I, c, g), NEW J, J = I \ {c}, NEW y, CutTo(t, y, J)
  PROVE  Without(n, I, y, J, K)
<1>1. \A i \in J : /\ y[i].key = IF i = g THEN n[c].key ELSE n[i].key
                   /\ y[i].val = IF i = g THEN n[c].val ELSE n[i].val
  <2>1. SUFFICES ASSUME NEW i \in J
                 PROVE  /\ y[i].key = IF i = g THEN n[c].key ELSE n[i].key
                        /\ y[i].val = IF i = g THEN n[c].val ELSE n[i].val
    OBVIOUS
  <2>2. i \in I /\ y[i] = t[i]
    BY DEF CutTo
  <2>3. /\ t[i].key = IF i = g THEN n[c].key ELSE n[i].key
        /\ t[i].val = IF i = g THEN n[c].val ELSE n[i].val
    BY <2>2 DEF TakenOut
  <2>. QED
    BY <2>2, <2>3
<1>2. \A i \in I : n[i].key = K => i = g
  <2>1. SUFFICES ASSUME NEW i \in I, n[i].key = K PROVE i = g
    OBVIOUS
  <2>2. n[i].key = n[g].key
    BY <2>1
  <2>. QED
    BY <2>2, UniqueKeys
<1>3. ASSUME NEW k, NEW v, Holds(y, J, k, v) PROVE Holds(n, I, k, v) /\ k # K
  <2>1. PICK i \in J : y[i].key = k /\ y[i].val = v
    BY <1>3 DEF Holds
  <2>2. CASE i = g
    <3>1. c \in I /\ n[c].key = k /\ n[c].val = v /\ c # g
      BY <2>1, <2>2, <1>1
    <3>. QED
      BY <3>1, <1>2 DEF Holds
  <2>3. CASE i # g
    <3>1. i \in I /\ n[i].key = k /\ n[i].val = v
      BY <2>1, <2>3, <1>1
    <3>. QED
      BY <3>1, <2>3, <1>2 DEF Holds
  <2>. QED
    BY <2>2, <2>3
<1>4. ASSUME NEW k, NEW v, Holds(n, I, k, v), k # K PROVE Holds(y, J, k, v)
  <2>1. PICK i \in I : n[i].key = k /\ n[i].val = v
    BY <1>4 DEF Holds
  <2>2. i # g
    BY <2>1, <1>4
  <2>3. CASE i = c
    <3>1. g \in J /\ y[g].key = k /\ y[g].val = v
      BY <2>1, <2>2, <2>3, <1>1
    <3>. QED
      BY <3>1 DEF Holds
  <2>4. CASE i # c
    <3>1. i \in J /\ y[i].key = k /\ y[i].val = v
      BY <2>1, <2>2, <2>4, <1>1
    <3>. QED
      BY <3>1 DEF Holds
  <2>. QED
    BY <2>3, <2>4
<1>. QED
  BY <1>3, <1>4 DEF Without

\* m is n after the node at l has moved to c.
MovedTo(n, m, I, l, c) ==
  /\ \A i \in I : i # l => m[i].key = n[i].key /\ m[i].val = n[i].val
  /\ m[c].key = n[l].key /\ m[c].val = n[l].val
  /\ \A i \in I, e \in Dir : i # l => m[i][e] = IF n[i][e] = l THEN c ELSE n[i][e]
  /\ \A e \in Dir : m[c][e] = n[l][e]
  /\ \A i \in I : i # l => m[i].red = n[i].red
  /\ m[c].red = n[l].red
RedsMoved(D2, D, J, l, c) ==
  D2 \subseteq J /\ \A i \in J : i \in D2 <=> (i = c /\ l \in D) \/ (i # c /\ i \in D)
LinksMoved(n, m, J, I, l, c) ==
  \A i \in J, e \in Dir : \A b \in I : b = (IF i = c THEN l ELSE i) =>
     n[b][e] \in I \cup {Nil} /\ m[i][e] = (IF n[b][e] = l THEN c ELSE n[b][e])

LEMMA MoveLinks ==
  ASSUME NEW I, Room(I), NEW n, Typed(n, I), NEW rt, NEW R, NEW P, Shape(n, rt, I, R, P),
         NEW l \in I, NEW c, c \notin I, NEW J, J = (I \ {l}) \cup {c},
         NEW m, MovedTo(n, m, I, l, c)
  PROVE  LinksMoved(n, m, J, I, l, c)
<1>1. ASSUME NEW i \in J, NEW e \in Dir, NEW b \in I, b = IF i = c THEN l ELSE i
      PROVE  n[b][e] \in I \cup {Nil} /\ m[i][e] = IF n[b][e] = l THEN c ELSE n[b][e]
  <2>1. n[b][e] \in I \cup {Nil}
    BY SonOf
  <2>2. CASE i = c
    <3>1. n[l][e] # l
      <4>1. PICK j : j = n[l][e]
        OBVIOUS
      <4>2. CASE j = Nil
        BY <4>1, <4>2 DEF Room
      <4>3. CASE j # Nil
        BY <4>1, <4>3, OneParent
      <4>. QED
        BY <4>2, <4>3
    <3>2. m[c][e] = n[l][e]
      BY DEF MovedTo
    <3>. QED
      BY <2>1, <2>2, <3>1, <3>2, <1>1
  <2>3. CASE i # c
    <3>1. i \in I /\ i # l /\ b = i
      BY <2>3, <1>1
    <3>. QED
      BY <3>1, <2>1 DEF MovedTo
  <2>. QED
    BY <2>2, <2>3
<1>. QED
  BY <1>1 DEF LinksMoved

LEMMA MoveReds ==
  ASSUME NEW I, NEW n, NEW D, RedsAre(n, I, D),
         NEW l \in I, NEW c, c \notin I, NEW J, J = (I \ {l}) \cup {c},
         NEW m, MovedTo(n, m, I, l, c), NEW D2, D2 = RedIn(m, J)
  PROVE  RedsMoved(D2, D, J, l, c)
<1>1. D2 \subseteq J /\ \A i \in J : i \in D2 <=> m[i].red
  BY Zenon DEF RedIn
<1>2. \A i \in I : i \in D <=> n[i].red
  BY Zenon DEF RedIn, RedsAre
<1>3. (\A i \in I : i # l => m[i].red = n[i].red) /\ m[c].red = n[l].red
  BY DEF MovedTo
<1>4. \A i \in J : i = c \/ (i \in I /\ i # l)
  OBVIOUS
<1>5. ASSUME NEW i \in J
      PROVE  i \in D2 <=> (i = c /\ l \in D) \/ (i # c /\ i \in D)
  <2>1. CASE i = c
    BY <2>1, <1>1, <1>2, <1>3, Zenon
  <2>2. CASE i # c
    BY <2>2, <1>1, <1>2, <1>3, <1>4, Zenon
  <2>. QED
    BY <2>1, <2>2
<1>. QED
  BY <1>1, <1>5 DEF RedsMoved

LEMMA MoveRules ==
  ASSUME NEW I, Nil \notin I, NEW n, NEW m, NEW D, D \subseteq I, Even(n, D, I), Under(n, D, I, Nil),
         NEW l \in I, NEW c, c \notin I, c # Nil, NEW J, J = (I \ {l}) \cup {c},
         LinksMoved(n, m, J, I, l, c), NEW D2, RedsMoved(D2, D, J, l, c)
  PROVE  Even(m, D2, J) /\ Under(m, D2, J, Nil)
<1>1. ASSUME NEW i \in J, NEW e \in Dir
      PROVE  \E b \in I : /\ b = (IF i = c THEN l ELSE i)
                          /\ n[b][e] \in I \cup {Nil}
                          /\ m[i][e] = (IF n[b][e] = l THEN c ELSE n[b][e])
                          /\ i \in D2 <=> b \in D
                          /\ m[i][e] \in D2 <=> n[b][e] \in D
                          /\ n[b][e] # Nil => m[i][e] \in J /\ m[i][e] # Nil
  <2>1. PICK b \in I : b = (IF i = c THEN l ELSE i)
    OBVIOUS
  <2>2. n[b][e] \in I \cup {Nil} /\ m[i][e] = (IF n[b][e] = l THEN c ELSE n[b][e])
    BY <2>1 DEF LinksMoved
  <2>3. i \in D2 <=> b \in D
    BY <2>1 DEF RedsMoved
  <2>4. n[b][e] # Nil => m[i][e] \in J /\ m[i][e] # Nil
    BY <2>2
  <2>5. m[i][e] \in D2 <=> n[b][e] \in D
    <3>1. CASE n[b][e] = Nil
      BY <3>1, <2>2 DEF RedsMoved
    <3>2. CASE n[b][e] = l
      BY <3>2, <2>2 DEF RedsMoved
    <3>3. CASE n[b][e] # l /\ n[b][e] # Nil
      BY <3>3, <2>2 DEF RedsMoved
    <3>. QED
      BY <3>1, <3>2, <3>3
  <2>. QED
    BY <2>1, <2>2, <2>3, <2>4, <2>5
<1>2. Under(m, D2, J, Nil)
  <2>1. SUFFICES ASSUME NEW i \in J, NEW e \in Dir, i \in D2, m[i][e] \in D2 PROVE FALSE
    BY DEF Under
  <2>2. PICK b \in I : b \in D /\ n[b][e] \in D
    BY <2>1, <1>1
  <2>. QED
    BY <2>2 DEF Under
<1>3. PICK H : Balanced(n, D, H, I)
  BY DEF Even
<1>4. H \in [I -> Nat] /\ \A i \in I, e \in Dir : H[i] = BH(H, n[i][e]) + IF i \in D THEN 0 ELSE 1
  BY <1>3 DEF Balanced
<1>5. PICK H2 : H2 = [i \in J |-> IF i = c THEN H[l] ELSE H[i]]
  OBVIOUS
<1>6. H2 \in [J -> Nat] /\ \A i \in J : H2[i] = IF i = c THEN H[l] ELSE H[i]
  BY <1>4, <1>5
<1>7. ASSUME NEW i \in J, NEW e \in Dir
      PROVE  H2[i] = BH(H2, m[i][e]) + IF i \in D2 THEN 0 ELSE 1
  <2>1. PICK b \in I : /\ b = (IF i = c THEN l ELSE i)
                       /\ n[b][e] \in I \cup {Nil}
                       /\ m[i][e] = (IF n[b][e] = l THEN c ELSE n[b][e])
                       /\ i \in D2 <=> b \in D
                       /\ n[b][e] # Nil => m[i][e] \in J /\ m[i][e] # Nil
    BY <1>1
  <2>2. H2[i] = H[b]
    BY <2>1, <1>6
  <2>3. BH(H2, m[i][e]) = BH(H, n[b][e])
    BY <2>1, <1>6 DEF BH
  <2>4. H[b] = BH(H, n[b][e]) + IF b \in D THEN 0 ELSE 1
    BY <1>4
  <2>. QED
    BY <2>1, <2>2, <2>3, <2>4
<1>8. Balanced(m, D2, H2, J)
  BY <1>6, <1>7 DEF Balanced
<1>. QED
  BY <1>2, <1>8 DEF Even

LEMMA MoveShape ==
  ASSUME NEW I, Room(I), NEW n, Typed(n, I), NEW rt, NEW R, NEW P, Shape(n, rt, I, R, P),
         NEW l \in I, NEW c, c \notin I, c # Nil, NEW J, J = (I \ {l}) \cup {c},
         NEW m, MovedTo(n, m, I, l, c), NEW rt2, rt2 = IF rt = l THEN c ELSE rt
  PROVE  \E R2, P2 : Shape(m, rt2, J, R2, P2)
<1>1. NodeMoved(n, m, I, l, c)
  BY DEF MovedTo, NodeMoved
<1>. QED
  BY <1>1, MoveNode

LEMMA MoveFine ==
  ASSUME NEW I, Room(I), NEW n, NEW rt, NEW R, NEW P, NEW D, Fine(n, rt, I, R, P, D),
         NEW l \in I, NEW c, c \notin I, c # Nil, NEW J, J = (I \ {l}) \cup {c},
         NEW m, Typed(m, J), MovedTo(n, m, I, l, c), NEW rt2, rt2 = IF rt = l THEN c ELSE rt
  PROVE  (\E R2, P2, D2 : Fine(m, rt2, J, R2, P2, D2)) /\ SameMap(n, I, m, J)
<1>1. Typed(n, I) /\ Shape(n, rt, I, R, P) /\ RedsAre(n, I, D) /\ Even(n, D, I) /\ Under(n, D, I, Nil)
  BY DEF Fine
<1>2. D \subseteq I /\ Nil \notin I
  BY <1>1 DEF RedsAre, RedIn, Room
<1>3. PICK R2, P2 : Shape(m, rt2, J, R2, P2)
  BY <1>1, MoveShape
<1>4. PICK D2 : D2 = RedIn(m, J)
  OBVIOUS
<1>5. RedsMoved(D2, D, J, l, c)
  BY <1>1, <1>4, MoveReds
<1>6. LinksMoved(n, m, J, I, l, c)
  BY <1>1, MoveLinks
<1>7. Even(m, D2, J) /\ Under(m, D2, J, Nil)
  BY <1>1, <1>2, <1>5, <1>6, MoveRules
<1>8. RedsAre(m, J, D2)
  BY <1>4 DEF RedsAre
<1>9. Fine(m, rt2, J, R2, P2, D2)
  BY <1>3, <1>7, <1>8 DEF Fine
<1>10. SameMap(n, I, m, J)
  <2>0. /\ \A i \in I : i # l => m[i].key = n[i].key /\ m[i].val = n[i].val
        /\ m[c].key = n[l].key /\ m[c].val = n[l].val
    BY DEF MovedTo
  <2>1. ASSUME NEW k, NEW v, Holds(m, J, k, v) PROVE Holds(n, I, k, v)
    <3>1. PICK i \in J : m[i].key = k /\ m[i].val = v
      BY <2>1 DEF Holds
    <3>2. PICK b \in I : b = IF i = c THEN l ELSE i
      OBVIOUS
    <3>3. n[b].key = k /\ n[b].val = v
      BY <3>1, <3>2, <2>0
    <3>. QED
      BY <3>3 DEF Holds
  <2>2. ASSUME NEW k, NEW v, Holds(n, I, k, v) PROVE Holds(m, J, k, v)
    <3>1. PICK i \in I : n[i].key = k /\ n[i].val = v
      BY <2>2 DEF Holds
    <3>2. PICK b \in J : b = IF i = l THEN c ELSE i
      OBVIOUS
    <3>3. m[b].key = k /\ m[b].val = v
      BY <3>1, <3>2, <2>0
    <3>. QED
      BY <3>3 DEF Holds
  <2>. QED
    BY <2>1, <2>2 DEF SameMap
<1>. QED
  BY <1>9, <1>10

----------------------------------------------------------------------------
(* The parent of the last node, found by key.                              *)

\* The nodes over s; a search of the whole array for key K that stops there.
Over(x, I, s) == {i \in I : x[i].l = s \/ x[i].r = s}

\* A search for K goes down, in V.
StepsDown(x, K, I, V) ==
  \A i \in I : LET j == NextFor(x, K, i)
              IN  j \in I \cup {Nil} /\ (j # Nil => V[j] < V[i])

LEMMA SearchDown ==
  ASSUME NEW I, Nil \notin I, NEW N \in Nat, NEW V, V \in [I -> 0 .. N],
         NEW x, NEW K, StepsDown(x, K, I, V), NEW S
  PROVE  \E g : Seeks(g, x, I, S, K)
<1>1. PICK nx : nx = [i \in I |-> NextFor(x, K, i)]
  OBVIOUS
<1>2. ASSUME NEW i \in I PROVE nx[i] \in I \cup {Nil} /\ (nx[i] # Nil => V[nx[i]] < V[i])
  BY <1>1 DEF StepsDown
<1>3. nx \in [I -> I \cup {Nil}]
  BY <1>1, <1>2
<1>4. GoesDown(nx, I, V)
  BY <1>2, <1>3 DEF GoesDown
<1>5. PICK f : Searches(f, nx, I, S)
  BY <1>4, SearchExists
<1>6. Seeks(f, x, I, S, K)
  BY <1>1, <1>5 DEF Seeks, Searches
<1>. QED
  BY <1>6

LEMMA WholeSearch ==
  ASSUME NEW I, Room(I), NEW x, Typed(x, I), NEW c \in I, \A e \in Dir : x[c][e] = Nil,
         NEW J, J = I \ {c}, NEW y, CutTo(x, y, J), Room(J),
         NEW rt, NEW R, NEW P, Shape(y, rt, J, R, P), NEW K, NEW S
  PROVE  \E g : Seeks(g, x, I, S, K)
<1>1. PICK N, W : N \in Nat /\ W \in [J -> 0 .. N] /\ \A i \in J, d \in Dir :
           y[i][d] # Nil => W[y[i][d]] < W[i]
  <2>1. Typed(y, J)
    BY DEF CutTo
  <2>. QED
    BY <2>1, Ranked
<1>2. PICK V : V = [i \in I |-> IF i = c THEN 0 ELSE W[i]]
  OBVIOUS
<1>3. V \in [I -> 0 .. N] /\ \A i \in J : V[i] = W[i]
  BY <1>1, <1>2
<1>4. StepsDown(x, K, I, V)
  <2>1. SUFFICES ASSUME NEW i \in I
                 PROVE  LET j == NextFor(x, K, i)
                        IN  j \in I \cup {Nil} /\ (j # Nil => V[j] < V[i])
    BY DEF StepsDown
  <2>2. PICK d \in Dir : d = IF x[i].key < K THEN "r" ELSE "l"
    BY DEF Dir
  <2>3. NextFor(x, K, i) = x[i][d]
    BY <2>2 DEF NextFor
  <2>4. CASE i = c
    BY <2>3, <2>4
  <2>5. CASE i # c
    <3>1. i \in J /\ y[i] = x[i] /\ Typed(y, J)
      BY <2>5 DEF CutTo
    <3>2. y[i][d] \in J \cup {Nil}
      BY <3>1, SonOf
    <3>3. y[i][d] # Nil => W[y[i][d]] < W[i]
      BY <3>1, <1>1
    <3>. QED
      BY <3>1, <3>2, <3>3, <2>3, <1>3
  <2>. QED
    BY <2>4, <2>5
<1>5. Nil \notin I /\ V \in [I -> 0 .. N]
  BY <1>3 DEF Room
<1>. QED
  BY <1>1, <1>4, <1>5, SearchDown

LEMMA ParentLocated ==
  ASSUME NEW I, I = Index, Room(I), NEW x, Typed(x, I), NEW c \in I, \A e \in Dir : x[c][e] = Nil,
         NEW J, J = I \ {c}, NEW y, CutTo(x, y, J), Room(J),
         NEW rt, NEW R, NEW P, Shape(y, rt, J, R, P), NEW s \in J,
         NEW t, t = [n |-> x, root |-> rt]
  PROVE  LocateParent(t, s) = IF rt = s THEN s ELSE P[s]
<1>. DEFINE nx(i) == t.n[i][IF t.n[i].key < t.n[s].key THEN "r" ELSE "l"]
            from[i \in Link] == IF i = Nil \/ t.n[i].l = s \/ t.n[i].r = s THEN i ELSE from[nx(i)]
<1>0. t.n = x /\ t.root = rt
  OBVIOUS
<1>1. LocateParent(t, s) = IF rt = s THEN s ELSE from[rt]
  <2>1. LocateParent(t, s) = IF t.root = s THEN s ELSE from[t.root]
    BY Zenon DEF LocateParent
  <2>. HIDE DEF from
  <2>. QED
    BY <1>0, <2>1
<1>2. PICK K, S : K = x[s].key /\ S = Over(x, I, s)
  OBVIOUS
<1>3. PICK g : Seeks(g, x, I, S, K)
  BY WholeSearch
<1>4. Link = I \cup {Nil}
  BY DEF Link
<1>5. PICK f : f = [i \in Link |-> g[i]]
  OBVIOUS
<1>6. \A i \in Link : f[i] = g[i]
  BY <1>5
<1>7. ASSUME NEW i \in Link PROVE g[i] = IF i = Nil \/ t.n[i].l = s \/ t.n[i].r = s THEN i ELSE f[nx(i)]
  <2>1. g[i] = IF i = Nil \/ i \in S THEN i ELSE g[NextFor(x, K, i)]
    BY <1>3, <1>4 DEF Seeks
  <2>2. CASE i = Nil
    BY <2>1, <2>2
  <2>3. CASE i # Nil
    <3>1. i \in I /\ (i \in S <=> t.n[i].l = s \/ t.n[i].r = s)
      BY <2>3, <1>0, <1>2, <1>4 DEF Over
    <3>2. NextFor(x, K, i) = nx(i)
      BY <1>0, <1>2 DEF NextFor
    <3>3. nx(i) \in Link
      <4>1. PICK d \in Dir : d = IF x[i].key < x[s].key THEN "r" ELSE "l"
        BY DEF Dir
      <4>2. x[i][d] \in I \cup {Nil}
        BY <3>1, SonOf
      <4>. QED
        BY <4>1, <4>2, <1>0, <1>4
    <3>. QED
      BY <2>1, <2>3, <3>1, <3>2, <3>3, <1>6
  <2>. QED
    BY <2>2, <2>3
<1>. HIDE DEF nx
<1>8. f = [i \in Link |-> IF i = Nil \/ t.n[i].l = s \/ t.n[i].r = s THEN i ELSE f[nx(i)]]
  BY <1>5, <1>7
<1>9. from = [i \in Link |-> IF i = Nil \/ t.n[i].l = s \/ t.n[i].r = s THEN i ELSE from[nx(i)]]
  BY <1>8, Zenon
<1>. HIDE DEF from
<1>10. \A i \in Link : from[i] = IF i = Nil \/ t.n[i].l = s \/ t.n[i].r = s THEN i ELSE from[nx(i)]
  BY <1>9, Zenon
<1>11. Seeks(from, y, J, S, K)
  <2>1. SUFFICES ASSUME NEW i \in J \cup {Nil}
                 PROVE  from[i] = IF i = Nil \/ i \in S THEN i ELSE from[NextFor(y, K, i)]
    BY DEF Seeks
  <2>2. CASE i = Nil
    BY <2>2, <1>4, <1>10
  <2>3. CASE i # Nil
    <3>1. i \in I /\ i \in Link /\ y[i] = x[i]
      BY <2>3, <1>4 DEF CutTo
    <3>2. NextFor(y, K, i) = nx(i)
      BY <3>1, <1>0, <1>2 DEF NextFor, nx
    <3>3. i \in S <=> x[i].l = s \/ x[i].r = s
      BY <3>1, <1>2 DEF Over
    <3>. QED
      BY <2>3, <3>1, <3>2, <3>3, <1>0, <1>10
  <2>. QED
    BY <2>2, <2>3
<1>12. \A i \in J : i \in S <=> \E e \in Dir : y[i][e] = s
  <2>1. SUFFICES ASSUME NEW i \in J PROVE i \in S <=> \E e \in Dir : y[i][e] = s
    OBVIOUS
  <2>2. i \in I /\ y[i] = x[i]
    BY DEF CutTo
  <2>3. i \in S <=> x[i].l = s \/ x[i].r = s
    BY <2>2, <1>2 DEF Over
  <2>. QED
    BY <2>2, <2>3 DEF Dir
<1>13. rt # s => from[rt] = P[s]
  <2>1. Typed(y, J) /\ K = y[s].key
    BY <1>2 DEF CutTo
  <2>2. PICK h : h = from
    OBVIOUS
  <2>3. Seeks(h, y, J, S, K)
    BY <2>2, <1>11
  <2>4. ASSUME rt # s PROVE h[rt] = P[s]
    BY <2>1, <2>3, <2>4, <1>12, ParentFound
  <2>. QED
    BY <2>2, <2>4
<1>. QED
  BY <1>1, <1>13

----------------------------------------------------------------------------
(* The hole that is filled.                                                *)

\* The node at l is copied to c.
NodeCopy(x, z, c, l) == z = [x EXCEPT ![c] = x[l]]
Copied(x, z, I, c, l) ==
  /\ Typed(z, I) /\ \A i \in I : i # c => z[i] = x[i]
  /\ z[c] = x[l]

LEMMA NodeCopied ==
  ASSUME NEW I, NEW x, Typed(x, I), NEW c \in I, NEW l \in I, NEW z, NodeCopy(x, z, c, l)
  PROVE  Copied(x, z, I, c, l)
<1>1. PICK T : T = [key : Key \cup {0}, val : 0 .. ValMod - 1,
                    l : I \cup {Nil}, r : I \cup {Nil}, red : BOOLEAN]
  OBVIOUS
<1>2. x \in [I \cup {Aux} -> T]
  BY <1>1, Zenon DEF Typed
<1>3. z \in [I \cup {Aux} -> T] /\ (\A i \in I : i # c => z[i] = x[i]) /\ z[c] = x[l]
  BY <1>2 DEF NodeCopy
<1>4. Typed(z, I)
  BY <1>1, <1>3, Zenon DEF Typed
<1>. QED
  BY <1>3, <1>4 DEF Copied

\* The links to l lead to c now.
LinksLed(y, z, J, l, c) ==
  /\ \A i \in J, e \in Dir : i # l => z[i][e] = IF y[i][e] = l THEN c ELSE y[i][e]
  /\ \A e \in Dir : z[c][e] = y[l][e]

LEMMA RootLed ==
  ASSUME NEW I, Room(I), NEW x, NEW c \in I, NEW J, J = I \ {c},
         NEW y, CutTo(x, y, J), Room(J), NEW rt, NEW R, NEW P, Shape(y, rt, J, R, P),
         NEW l, l = rt, NEW x1, Copied(x, x1, I, c, l), NEW side,
         NEW z, SonSet(x1, z, I, l, side, c)
  PROVE  LinksLed(y, z, J, l, c)
<1>1. Typed(y, J) /\ l \in J /\ l # Nil
  BY DEF CutTo, Shape, Room
<1>2. ASSUME NEW i \in J, NEW e \in Dir, i # l PROVE z[i][e] = IF y[i][e] = l THEN c ELSE y[i][e]
  <2>1. i \in I /\ i # c /\ y[i] = x[i]
    BY DEF CutTo
  <2>2. z[i][e] = x1[i][e] /\ x1[i] = x[i]
    BY <1>2, <2>1 DEF SonSet, Copied
  <2>3. y[i][e] # l
    <3>1. PICK j : j = y[i][e]
      OBVIOUS
    <3>2. j # Nil => j # rt
      BY <1>1, <3>1, OneParent
    <3>. QED
      BY <1>1, <3>1, <3>2
  <2>. QED
    BY <2>1, <2>2, <2>3
<1>3. ASSUME NEW e \in Dir PROVE z[c][e] = y[l][e]
  <2>1. z[c][e] = x1[c][e]
    BY <1>1 DEF SonSet
  <2>2. x1[c] = x[l] /\ y[l] = x[l]
    BY <1>1 DEF Copied, CutTo
  <2>. QED
    BY <2>1, <2>2
<1>. QED
  BY <1>2, <1>3 DEF LinksLed

LEMMA OtherLed ==
  ASSUME NEW I, Room(I), NEW x, NEW c \in I, NEW J, J = I \ {c},
         NEW y, CutTo(x, y, J), Room(J), NEW rt, NEW R, NEW P, Shape(y, rt, J, R, P),
         NEW l \in J, l # rt, NEW x1, Copied(x, x1, I, c, l),
         NEW fp, fp = P[l], NEW side, side = IF x[fp].l = l THEN "l" ELSE "r",
         NEW z, SonSet(x1, z, I, fp, side, c)
  PROVE  LinksLed(y, z, J, l, c)
<1>1. Typed(y, J) /\ l # Nil /\ fp \in J
  BY DEF CutTo, Shape, Room
<1>2. PICK d \in Dir : y[fp][d] = l
  BY DEF Shape
<1>3. l = y[fp][d]
  BY <1>2
<1>4. /\ \A a \in J, e \in Dir : y[a][e] = l => a = fp /\ e = d
      /\ y[fp][Other(d)] # l
  BY <1>1, <1>3, OneParent, SMTT(60)
<1>5. side = d
  <2>1. y[fp] = x[fp]
    BY <1>1 DEF CutTo
  <2>. QED
    BY <2>1, <1>2, <1>4 DEF Dir, Other
<1>6. \A i \in J : i \in I /\ i # c /\ y[i] = x[i] /\ x1[i] = x[i]
  BY DEF CutTo, Copied
<1>7. \A i \in I, e \in Dir : z[i][e] = IF i = fp /\ e = d THEN c ELSE x1[i][e]
  BY <1>5 DEF SonSet
<1>8. ASSUME NEW i \in J, NEW e \in Dir, i # l PROVE z[i][e] = IF y[i][e] = l THEN c ELSE y[i][e]
  <2>1. i \in I /\ y[i][e] = x1[i][e]
    BY <1>6
  <2>. QED
    BY <2>1, <1>3, <1>4, <1>7
<1>9. ASSUME NEW e \in Dir PROVE z[c][e] = y[l][e]
  <2>1. fp # c
    BY <1>1
  <2>2. z[c][e] = x1[c][e]
    BY <2>1, <1>7
  <2>3. x1[c] = x[l] /\ y[l] = x[l]
    BY <1>6 DEF Copied
  <2>. QED
    BY <2>2, <2>3
<1>. QED
  BY <1>8, <1>9 DEF LinksLed

LEMMA AllMoved ==
  ASSUME NEW I, NEW x, NEW c \in I, NEW J, J = I \ {c}, NEW y, CutTo(x, y, J),
         NEW l \in J, NEW x1, Copied(x, x1, I, c, l),
         NEW z, SameData(x1, z, I), SameReds(x1, z, I), LinksLed(y, z, J, l, c)
  PROVE  MovedTo(y, z, J, l, c)
<1>1. \A i \in J : i \in I /\ y[i] = x[i] /\ x1[i] = x[i]
  BY DEF CutTo, Copied
<1>2. x1[c] = y[l]
  BY <1>1 DEF Copied
<1>3. \A i \in J : i # l => z[i].key = y[i].key /\ z[i].val = y[i].val
  BY <1>1 DEF SameData
<1>4. z[c].key = y[l].key /\ z[c].val = y[l].val
  BY <1>2 DEF SameData
<1>5. \A i \in J : z[i].red = y[i].red
  <2>1. \A i \in I : z[i].red = x1[i].red
    BY Zenon DEF SameReds
  <2>. QED
    BY <2>1, <1>1, Zenon
<1>6. z[c].red = y[l].red
  <2>1. z[c].red = x1[c].red
    BY Zenon DEF SameReds
  <2>. QED
    BY <2>1, <1>2, Zenon
<1>. QED
  BY <1>3, <1>4, <1>5, <1>6 DEF MovedTo, LinksLed

\* HoleFilled, when the hole is not the last slot.
LEMMA Fills ==
  ASSUME NEW I, I = Index, Room(I), NEW x, Typed(x, I), NEW c \in I, \A e \in Dir : x[c][e] = Nil,
         NEW J, J = I \ {c}, NEW y, CutTo(x, y, J), Room(J),
         NEW rt, NEW R, NEW P, Shape(y, rt, J, R, P), NEW l \in J, l = size - 1,
         NEW t, t = [n |-> x, root |-> rt], NEW h, h = HoleFilled(t, c)
  PROVE  /\ LocateParent(t, l) # Nil
         /\ h.root = (IF rt = l THEN c ELSE rt)
         /\ Typed(h.n, I) /\ MovedTo(y, h.n, J, l, c)
<1>1. PICK fp : fp = LocateParent(t, l)
  OBVIOUS
<1>2. fp = IF rt = l THEN l ELSE P[l]
  BY <1>1, ParentLocated
<1>3. fp \in J /\ fp # Nil /\ fp \in I
  <2>1. rt # l => P[l] \in J
    BY DEF Shape
  <2>. QED
    BY <2>1, <1>2 DEF Room
<1>4. PICK side \in Dir : side = IF rt = l \/ x[fp].l = l THEN "l" ELSE "r"
  BY DEF Dir
<1>5. PICK x1 : x1 = [x EXCEPT ![c] = x[l]]
  OBVIOUS
<1>6. Copied(x, x1, I, c, l)
  <2>1. NodeCopy(x, x1, c, l) /\ l \in I
    BY <1>5 DEF NodeCopy
  <2>. QED
    BY <2>1, NodeCopied
<1>7. PICK z : z = SetSon(x1, fp, side, c)
  OBVIOUS
<1>8. Typed(z, I) /\ SonSet(x1, z, I, fp, side, c) /\ SameData(x1, z, I) /\ SameReds(x1, z, I)
  <2>1. Typed(x1, I)
    BY <1>6 DEF Copied
  <2>. QED
    BY <2>1, <1>3, <1>7, SetSonEffect
<1>9. h = [n |-> z, root |-> IF rt = l THEN c ELSE rt]
  <2>1. t.n = x /\ t.root = rt /\ c # l
    OBVIOUS
  <2>2. h = [n |-> SetSon([t.n EXCEPT ![c] = t.n[l]], LocateParent(t, l),
                          IF t.root = l \/ t.n[LocateParent(t, l)].l = l THEN "l" ELSE "r", c),
             root |-> IF t.root = l THEN c ELSE t.root]
    <3>1. LocateParent(t, l) # Nil
      BY <1>1, <1>3
    <3>. QED
      BY <2>1, <3>1 DEF HoleFilled
  <2>. QED
    BY <2>1, <2>2, <1>1, <1>4, <1>5, <1>7
<1>10. LinksLed(y, z, J, l, c)
  <2>1. CASE rt = l
    <3>1. SonSet(x1, z, I, l, side, c) /\ l = rt
      BY <2>1, <1>2, <1>8
    <3>. QED
      BY <3>1, <1>6, RootLed
  <2>2. CASE rt # l
    <3>1. fp = P[l] /\ side = IF x[fp].l = l THEN "l" ELSE "r"
      BY <2>2, <1>2, <1>4
    <3>. QED
      BY <3>1, <2>2, <1>6, <1>8, OtherLed
  <2>. QED
    BY <2>1, <2>2
<1>11. MovedTo(y, z, J, l, c)
  BY <1>6, <1>8, <1>10, AllMoved
<1>12. h.n = z /\ h.root = IF rt = l THEN c ELSE rt
  BY <1>9
<1>. QED
  BY <1>1, <1>3, <1>8, <1>11, <1>12

\* An array cut to the indexes of a tree, with the root made black first.
BlackCut(x, rt, J) == Cut(SetRed(x, rt, FALSE), J)
Emptied(z) == z[Aux] = NoNode

SameNodes(x, w, J) == \A i \in J : w[i] = x[i]

LEMMA BlackTwice ==
  ASSUME NEW I, NEW J, J \subseteq I, NEW rt, NEW x, NEW w, SameNodes(x, w, J),
         NEW b, NEW x2, RedSet(x, x2, I, rt, b), NEW w2, RedSet(w, w2, J, rt, b),
         NEW z, SameNodes(x2, z, J)
  PROVE  \A i \in J : z[i].red = w2[i].red
<1>1. SUFFICES ASSUME NEW i \in J PROVE z[i].red = w2[i].red
  OBVIOUS
<1>2. i \in I \cup {Aux} /\ i \in J \cup {Aux} /\ w[i] = x[i] /\ z[i] = x2[i]
  BY DEF SameNodes
<1>3. x2[i].red = IF i = rt THEN b ELSE x[i].red
  BY <1>2, Zenon DEF RedSet
<1>4. w2[i].red = IF i = rt THEN b ELSE w[i].red
  BY <1>2, Zenon DEF RedSet
<1>. QED
  BY <1>2, <1>3, <1>4, Zenon

LEMMA BlackCutTree ==
  ASSUME NEW I, Room(I), NEW x, Typed(x, I), NEW J, J \subseteq I, Room(J),
         NEW w, CutTo(x, w, J), NEW rt, NEW R, NEW P, NEW D, Fine(w, rt, J, R, P, D),
         NEW z, z = BlackCut(x, rt, J)
  PROVE  IsTree(z, rt, J) /\ Emptied(z) /\ SameMap(w, J, z, J)
<1>1. Typed(w, J) /\ \A i \in J : w[i] = x[i] /\ i \in I
  BY DEF CutTo
<1>2. rt \in J /\ rt \in I
  BY DEF Fine, Shape
<1>3. PICK b \in BOOLEAN : b = FALSE
  OBVIOUS
<1>4. PICK w2 : w2 = SetRed(w, rt, FALSE)
  OBVIOUS
<1>5. PICK x2 : x2 = SetRed(x, rt, FALSE)
  OBVIOUS
<1>6. IsTree(w2, rt, J) /\ SameData(w, w2, J) /\ Typed(w2, J)
  BY <1>4, RootBlackened
<1>7. RedSet(w, w2, J, rt, b) /\ SameSons(w, w2, J)
  <2>1. rt \in J \cup {Aux, Nil}
    BY <1>2
  <2>2. w2 = SetRed(w, rt, b)
    BY <1>3, <1>4, Zenon
  <2>3. RedSet(w, w2, J, rt, b) /\ SameSons(w, w2, J)
    BY <1>1, <2>1, <2>2, SetRedEffect
  <2>. QED
    BY <2>3
<1>8. RedSet(x, x2, I, rt, b) /\ SameSons(x, x2, I) /\ SameData(x, x2, I) /\ Typed(x2, I)
  <2>1. rt \in I \cup {Aux, Nil}
    BY <1>2
  <2>2. x2 = SetRed(x, rt, b)
    BY <1>3, <1>5, Zenon
  <2>3. RedSet(x, x2, I, rt, b) /\ SameSons(x, x2, I) /\ SameData(x, x2, I) /\ Typed(x2, I)
    BY <2>1, <2>2, SetRedEffect
  <2>. QED
    BY <2>3
<1>9. CutTo(x2, z, J)
  <2>1. \A i \in J, e \in Dir : x2[i][e] \in J \cup {Nil}
    <3>1. SUFFICES ASSUME NEW i \in J, NEW e \in Dir PROVE x2[i][e] \in J \cup {Nil}
      OBVIOUS
    <3>2. w[i][e] \in J \cup {Nil}
      BY <1>1, SonOf
    <3>3. x2[i][e] = x[i][e] /\ w[i] = x[i]
      BY <1>1, <1>8 DEF SameSons
    <3>. QED
      BY <3>2, <3>3
  <2>2. z = Cut(x2, J)
    BY <1>5 DEF BlackCut
  <2>3. Aux \notin J
    BY DEF Room
  <2>. QED
    BY <1>8, <2>1, <2>2, <2>3, CutTyped
<1>10. Typed(z, J) /\ Emptied(z) /\ \A i \in J : z[i] = x2[i]
  BY <1>9 DEF CutTo, Emptied
<1>11. \A i \in J : z[i].red = w2[i].red
  <2>1. SameNodes(x, w, J) /\ SameNodes(x2, z, J)
    BY <1>1, <1>10 DEF SameNodes
  <2>2. RedSet(x, x2, I, rt, b) /\ RedSet(w, w2, J, rt, b)
    BY <1>7, <1>8
  <2>. QED
    BY <2>1, <2>2, BlackTwice
<1>12. \A i \in J : z[i].key = w[i].key /\ z[i].val = w[i].val
  <2>1. SUFFICES ASSUME NEW i \in J PROVE z[i].key = w[i].key /\ z[i].val = w[i].val
    OBVIOUS
  <2>2. w[i] = x[i] /\ i \in I /\ z[i] = x2[i]
    BY <1>1, <1>10
  <2>3. x2[i].key = x[i].key /\ x2[i].val = x[i].val
    BY <2>2, <1>8 DEF SameData
  <2>. QED
    BY <2>2, <2>3
<1>13. \A i \in J : z[i].key = w2[i].key
  BY <1>6, <1>12 DEF SameData
<1>14. \A i \in J, e \in Dir : z[i][e] = w2[i][e]
  <2>1. SUFFICES ASSUME NEW i \in J, NEW e \in Dir PROVE z[i][e] = w2[i][e]
    OBVIOUS
  <2>2. z[i][e] = x[i][e]
    BY <1>1, <1>8, <1>10 DEF SameSons
  <2>3. w2[i][e] = w[i][e]
    BY <1>7 DEF SameSons
  <2>. QED
    BY <2>2, <2>3, <1>1
<1>15. SameTree(w2, z, J)
  BY <1>11, <1>13, <1>14, Zenon DEF SameTree
<1>16. IsTree(z, rt, J)
  BY <1>6, <1>10, <1>15, SameIsTree
<1>17. SameMap(w, J, z, J)
  BY <1>12 DEF SameMap, Holds
<1>. QED
  BY <1>10, <1>16, <1>17

LEMMA MovedCut ==
  ASSUME NEW y, NEW x, NEW w, NEW J, NEW l, NEW c, c \notin J, MovedTo(y, x, J, l, c),
         NEW J2, J2 = (J \ {l}) \cup {c}, CutTo(x, w, J2)
  PROVE  MovedTo(y, w, J, l, c)
<1>1. \A i \in J : i # l => w[i] = x[i]
  BY DEF CutTo
<1>2. w[c] = x[c]
  BY DEF CutTo
<1>3. /\ \A i \in J : i # l => w[i].key = y[i].key /\ w[i].val = y[i].val
      /\ w[c].key = y[l].key /\ w[c].val = y[l].val
      /\ \A i \in J, e \in Dir : i # l => w[i][e] = IF y[i][e] = l THEN c ELSE y[i][e]
      /\ \A e \in Dir : w[c][e] = y[l][e]
  BY <1>1, <1>2 DEF MovedTo
<1>4. \A i \in J : i # l => w[i].red = y[i].red
  <2>1. \A i \in J : i # l => x[i].red = y[i].red
    BY DEF MovedTo
  <2>. QED
    BY <2>1, <1>1, Zenon
<1>5. w[c].red = y[l].red
  <2>1. x[c].red = y[l].red
    BY DEF MovedTo
  <2>. QED
    BY <2>1, <1>2, Zenon
<1>. QED
  BY <1>3, <1>4, <1>5 DEF MovedTo

\* The hole is filled, the root made black, and the array cut.
Ended(z, rt, J) == IsTree(z, rt, J) /\ Emptied(z)
Less(J, I, c) == J = I \ {c}

LEMMA FilledTree ==
  ASSUME NEW I, Room(I), NEW c \in I, NEW J, Less(J, I, c), Room(J),
         NEW y, NEW rt, NEW R, NEW P, NEW D, Fine(y, rt, J, R, P, D), NEW l \in J,
         NEW x, Typed(x, I), MovedTo(y, x, J, l, c),
         NEW rt2, rt2 = IF rt = l THEN c ELSE rt,
         NEW J2, Less(J2, I, l), NEW z, z = BlackCut(x, rt2, J2)
  PROVE  Ended(z, rt2, J2) /\ SameMap(y, J, z, J2)
<1>1. Typed(y, J) /\ Shape(y, rt, J, R, P)
  BY DEF Fine
<1>2. J2 = (J \ {l}) \cup {c} /\ c \notin J /\ c # Nil /\ J2 \subseteq I
  BY DEF Room, Less
<1>3. Room(J2)
  <2>1. IsFiniteSet(J2)
    BY <1>2, FS_Subset DEF Room
  <2>. QED
    BY <2>1, <1>2 DEF Room
<1>4. LinksMoved(y, x, J2, J, l, c)
  BY <1>1, <1>2, MoveLinks
<1>5. PICK w : w = Cut(x, J2)
  OBVIOUS
<1>6. CutTo(x, w, J2)
  <2>1. \A i \in J2, e \in Dir : x[i][e] \in J2 \cup {Nil}
    <3>1. SUFFICES ASSUME NEW i \in J2, NEW e \in Dir PROVE x[i][e] \in J2 \cup {Nil}
      OBVIOUS
    <3>2. PICK b \in J : b = IF i = c THEN l ELSE i
      BY <1>2
    <3>3. y[b][e] \in J \cup {Nil} /\ x[i][e] = IF y[b][e] = l THEN c ELSE y[b][e]
      BY <3>2, <1>4 DEF LinksMoved
    <3>. QED
      BY <3>3, <1>2
  <2>2. Aux \notin J2
    BY <1>3 DEF Room
  <2>. QED
    BY <2>1, <2>2, <1>2, <1>5, CutTyped
<1>7. MovedTo(y, w, J, l, c)
  BY <1>2, <1>6, MovedCut
<1>8. Typed(w, J2)
  BY <1>6 DEF CutTo
<1>9. (\E R2, P2, D2 : Fine(w, rt2, J2, R2, P2, D2)) /\ SameMap(y, J, w, J2)
  BY <1>2, <1>7, <1>8, MoveFine
<1>10. PICK R2, P2, D2 : Fine(w, rt2, J2, R2, P2, D2)
  BY <1>9
<1>11. IsTree(z, rt2, J2) /\ Emptied(z) /\ SameMap(w, J2, z, J2)
  BY <1>2, <1>3, <1>6, <1>10, BlackCutTree
<1>. QED
  BY <1>9, <1>11 DEF SameMap, Ended

----------------------------------------------------------------------------
(* A deletion, from the walk's end.                                        *)

\* The leaf that ends the walk of a deletion, and the node that holds the key.
LEMMA AboveLeaf ==
  ASSUME NEW I, Room(I), NEW n, NEW rt, NEW R, NEW P, NEW D, Fine(n, rt, I, R, P, D),
         NEW K \in Int, NEW c, NEW f, DelPath(n, I, R, K, c, f),
         NEW g, g = (IF n[c].key = K THEN c ELSE f), g # Nil
  PROVE  NextAbove(n, I, R, K, c, g)
<1>1. /\ c \in I /\ Lower(R[c], K)
      /\ f # Nil => f \in I /\ n[f].key = K /\ R[c] \subseteq R[f] /\ \A k \in R[c] : k < K
  BY DEF DelPath
<1>2. n[c].key \in R[c]
  BY <1>1 DEF Fine, Shape
<1>3. CASE n[c].key = K
  BY <1>1, <1>3 DEF NextAbove
<1>4. CASE n[c].key # K
  BY <1>1, <1>2, <1>4 DEF NextAbove
<1>. QED
  BY <1>3, <1>4

\* The leaf c is in the last slot: nothing moves.
LEMMA LastOut ==
  ASSUME NEW I, Room(I), NEW c \in I, NEW J, J = I \ {c}, Room(J),
         NEW x, Typed(x, I), NEW y, CutTo(x, y, J), NEW rt, NEW R, NEW P, NEW D, Fine(y, rt, J, R, P, D),
         NEW z, z = BlackCut(x, rt, J)
  PROVE  Ended(z, rt, J) /\ SameMap(y, J, z, J)
<1>1. J \subseteq I
  OBVIOUS
<1>2. IsTree(z, rt, J) /\ Emptied(z) /\ SameMap(y, J, z, J)
  BY <1>1, BlackCutTree
<1>. QED
  BY <1>2 DEF Ended

LEMMA WithoutToo ==
  ASSUME NEW n, NEW I, NEW y, NEW J, NEW z, NEW J2, NEW K, Without(n, I, y, J, K), SameMap(y, J, z, J2)
  PROVE  Without(n, I, z, J2, K)
BY DEF Without, SameMap

LEMMA WithoutData ==
  ASSUME NEW n, NEW m, NEW I, SameData(n, m, I), NEW z, NEW J, NEW K, Without(m, I, z, J, K)
  PROVE  Without(n, I, z, J, K)
<1>1. \A k, v : Holds(m, I, k, v) <=> Holds(n, I, k, v)
  <2>1. \A i \in I : m[i].key = n[i].key /\ m[i].val = n[i].val
    BY DEF SameData
  <2>. QED
    BY <2>1 DEF Holds
<1>. QED
  BY <1>1 DEF Without

\* The end of a deletion: what is done to the tree [m, rt].
Excised(m, rt, c, p, g) ==
  Unlinked([n |-> [m EXCEPT ![g].key = m[c].key, ![g].val = m[c].val], root |-> rt], c, p)
LastKept(u, c) == c # size - 1 => LocateParent(u, size - 1) # Nil

LEMMA LeafExcised ==
  ASSUME NEW I, I = Index, size \in Nat, Room(I),
         NEW m, NEW rt, NEW R, NEW P, NEW D, Fine(m, rt, I, R, P, D),
         NEW K \in Int, NEW c \in D, c # rt, \A e \in Dir : m[c][e] = Nil,
         NEW g, NextAbove(m, I, R, K, c, g),
         NEW u, u = Excised(m, rt, c, P[c], g), NEW h, h = HoleFilled(u, c),
         NEW J2, J2 = I \ {size - 1}, NEW z, z = BlackCut(h.n, h.root, J2)
  PROVE  Ended(z, h.root, J2) /\ Without(m, I, z, J2, K) /\ LastKept(u, c)
<1>1. Typed(m, I) /\ Shape(m, rt, I, R, P) /\ c \in I /\ g \in I /\ m[g].key = K
  BY DEF Fine, RedsAre, RedIn, NextAbove
<1>2. PICK n1, p : n1 = [m EXCEPT ![g].key = m[c].key, ![g].val = m[c].val] /\ p = P[c]
  OBVIOUS
<1>3. u = Unlinked([n |-> n1, root |-> rt], c, p)
  BY <1>2 DEF Excised
<1>4. u.root = rt /\ TakenOut(m, u.n, I, c, g) /\ \E x : Unhooked(m, x, I, c)
  BY <1>1, <1>2, <1>3, Splices
<1>5. PICK x, v : x = u.n /\ Unhooked(m, v, I, c)
  BY <1>4
<1>6. TakenOut(m, x, I, c, g)
  BY <1>4, <1>5
<1>7. PICK J : J = I \ {c}
  OBVIOUS
<1>8. PICK y : y = Cut(x, J)
  OBVIOUS
<1>9. Room(J) /\ CutTo(x, y, J) /\ \E R2, P2, D2 : Fine(y, rt, J, R2, P2, D2)
  BY <1>5, <1>6, <1>7, <1>8, LeafOut
<1>10. PICK R2, P2, D2 : Fine(y, rt, J, R2, P2, D2)
  BY <1>9
<1>11. Without(m, I, y, J, K)
  BY <1>1, <1>6, <1>7, <1>9, KeyGone
<1>12. Typed(x, I) /\ \A e \in Dir : x[c][e] = Nil
  <2>1. c # Nil
    BY <1>1 DEF Room
  <2>. QED
    BY <2>1, <1>1, <1>6 DEF TakenOut, LinksCut
<1>13. u = [n |-> x, root |-> rt]
  <2>1. u = [n |-> u.n, root |-> u.root]
    BY <1>3 DEF Unlinked
  <2>. QED
    BY <2>1, <1>4, <1>5
<1>14. CASE c = size - 1
  <2>1. h = u
    BY <1>14 DEF HoleFilled
  <2>2. z = BlackCut(x, rt, J) /\ J2 = J /\ h.root = rt
    BY <2>1, <1>4, <1>5, <1>7, <1>14
  <2>3. Ended(z, rt, J) /\ SameMap(y, J, z, J)
    BY <2>2, <1>1, <1>7, <1>9, <1>10, <1>12, LastOut
  <2>4. Without(m, I, z, J2, K)
    BY <2>2, <2>3, <1>11, WithoutToo
  <2>. QED
    BY <2>2, <2>3, <2>4, <1>14 DEF LastKept
<1>15. CASE c # size - 1
  <2>1. PICK l : l = size - 1
    OBVIOUS
  <2>2. l \in J /\ J2 = I \ {l} /\ l \in I
    BY <2>1, <1>1, <1>7, <1>15 DEF Index
  <2>3. Shape(y, rt, J, R2, P2)
    BY <1>10 DEF Fine
  <2>4. /\ LocateParent(u, l) # Nil
        /\ h.root = (IF rt = l THEN c ELSE rt)
        /\ Typed(h.n, I) /\ MovedTo(y, h.n, J, l, c)
    BY <2>1, <2>2, <2>3, <1>1, <1>7, <1>9, <1>12, <1>13, Fills
  <2>5. PICK w, rt2 : w = h.n /\ rt2 = h.root
    OBVIOUS
  <2>6. Typed(w, I) /\ MovedTo(y, w, J, l, c) /\ rt2 = IF rt = l THEN c ELSE rt
    BY <2>4, <2>5
  <2>7. z = BlackCut(w, rt2, J2)
    BY <2>5
  <2>8. Ended(z, rt2, J2) /\ SameMap(y, J, z, J2)
    <3>1. Room(J) /\ c \in I /\ Less(J, I, c) /\ l \in J /\ Less(J2, I, l)
      BY <2>2, <1>1, <1>7, <1>9 DEF Less
    <3>2. Fine(y, rt, J, R2, P2, D2)
      BY <1>10
    <3>3. Typed(w, I) /\ MovedTo(y, w, J, l, c)
      BY <2>6
    <3>4. rt2 = IF rt = l THEN c ELSE rt
      BY <2>6
    <3>. QED
      BY <3>1, <3>2, <3>3, <3>4, <2>7, FilledTree
  <2>9. Without(m, I, z, J2, K)
    BY <2>8, <1>11, WithoutToo
  <2>. QED
    BY <2>1, <2>4, <2>5, <2>8, <2>9 DEF LastKept
<1>. QED
  BY <1>14, <1>15

\* The end of a deletion of a key that is there.
Ending(n, t, I, K, c, d, f, g) ==
  /\ c \in I /\ d \in Dir /\ DeleteDone(n, t, I, K, c, d, f) /\ t.n[c][d] = Nil
  /\ g = (IF n[c].key = K THEN c ELSE f) /\ g # Nil
TakingOut(t, I, c, g, u, h, J2, z) ==
  /\ u = Excised(t.n, t.root, c, t.p, g) /\ h = HoleFilled(u, c)
  /\ J2 = I \ {size - 1} /\ z = BlackCut(h.n, h.root, J2)

LEMMA EndsWith ==
  ASSUME NEW I, I = Index, size \in Nat, size # 1, Room(I), NEW K \in Int, NEW n, NEW t, NEW c, NEW d, NEW f,
         NEW g, Ending(n, t, I, K, c, d, f, g), NEW u, NEW h, NEW J2, NEW z, TakingOut(t, I, c, g, u, h, J2, z)
  PROVE  Ended(z, h.root, J2) /\ Without(n, I, z, J2, K) /\ LastKept(u, c)
<1>0. /\ c \in I /\ d \in Dir /\ DeleteDone(n, t, I, K, c, d, f) /\ t.n[c][d] = Nil
      /\ g = (IF n[c].key = K THEN c ELSE f) /\ g # Nil
      /\ u = Excised(t.n, t.root, c, t.p, g) /\ h = HoleFilled(u, c)
      /\ J2 = I \ {size - 1} /\ z = BlackCut(h.n, h.root, J2)
  BY DEF Ending, TakingOut
<1>1. PICK R, P, D :
        /\ SameData(n, t.n, I) /\ Fine(t.n, t.root, I, R, P, D)
        /\ t.p = (IF c = t.root THEN Aux ELSE P[c])
        /\ c \in D \/ t.n[c][d] \in D \/ (c = t.root /\ t.n[c][Other(d)] \notin D)
        /\ DelPath(t.n, I, R, K, c, f)
  BY <1>0 DEF DeleteDone
<1>2. PICK m, rt, p : m = t.n /\ rt = t.root /\ p = t.p
  OBVIOUS
<1>3. Fine(m, rt, I, R, P, D) /\ DelPath(m, I, R, K, c, f) /\ SameData(n, m, I)
  BY <1>1, <1>2
<1>4. Typed(m, I) /\ Shape(m, rt, I, R, P) /\ Nil \notin D
  BY <1>3 DEF Fine, RedsAre, RedIn, Room
<1>5. c \in D \/ (c = rt /\ m[c][Other(d)] \notin D)
  BY <1>0, <1>1, <1>2, <1>4
<1>6. m[c][d] = Nil
  BY <1>0, <1>2
<1>7. \A e \in Dir : m[c][e] = Nil
  BY <1>0, <1>3, <1>5, <1>6, LeafAtEnd
<1>8. c # rt
  <2>1. SUFFICES ASSUME c = rt PROVE FALSE
    OBVIOUS
  <2>2. \A e \in Dir : m[rt][e] = Nil
    BY <2>1, <1>7
  <2>3. I = {rt}
    BY <2>2, <1>4, RootAlone
  <2>4. 0 \in Index /\ size - 1 \in Index /\ 0 # size - 1
    BY <2>3 DEF Index
  <2>. QED
    BY <2>3, <2>4
<1>9. g = IF m[c].key = K THEN c ELSE f
  BY <1>0, <1>3 DEF SameData
<1>10. NextAbove(m, I, R, K, c, g)
  BY <1>0, <1>3, <1>9, AboveLeaf
<1>11. u = Excised(m, rt, c, P[c], g) /\ c \in D
  BY <1>0, <1>1, <1>2, <1>5, <1>8
<1>12. Ended(z, h.root, J2) /\ Without(m, I, z, J2, K) /\ LastKept(u, c)
  BY <1>0, <1>3, <1>7, <1>8, <1>10, <1>11, LeafExcised
<1>13. Without(n, I, z, J2, K)
  BY <1>3, <1>12, WithoutData
<1>. QED
  BY <1>12, <1>13

----------------------------------------------------------------------------
(* Values written.                                                         *)

\* The walk of an insertion goes on in a copy of the tree.
LEMMA WalkCopied ==
  ASSUME NEW I, Room(I), NEW n, NEW rt, NEW K, NEW c, NEW p, NEW pp, NEW ppp,
         NEW d \in Dir, NEW ld \in Dir, InsertWalk(n, rt, I, K, c, p, pp, ppp, d, ld),
         NEW m, Typed(m, I), SameTree(n, m, I)
  PROVE  InsertWalk(m, rt, I, K, c, p, pp, ppp, d, ld)
<1>1. PICK R, P, D : /\ Fine(n, rt, I, R, P, D)
                     /\ OnPath(n, rt, I, R, K, c, p, d)
                     /\ Win(n, P, D, K, c, p, pp, ppp, ld)
  BY DEF InsertWalk
<1>2. Fine(m, rt, I, R, P, D)
  BY <1>1, SameFine
<1>3. /\ \A i \in I : m[i].key = n[i].key
      /\ \A i \in I, e \in Dir : m[i][e] = n[i][e]
  BY DEF SameTree
<1>4. /\ Typed(n, I) /\ P \in [I -> I \cup {Nil}] /\ D \subseteq I /\ Nil \notin I
      /\ (p # Nil => p \in I) /\ (c # Nil => c \in I) /\ Other(ld) \in Dir
  BY <1>1, Sides DEF Fine, Shape, RedsAre, RedIn, Room, OnPath
<1>5. OnPath(m, rt, I, R, K, c, p, d)
  <2>1. OnPath(n, rt, I, R, K, c, p, d)
    BY <1>1
  <2>. QED
    BY <2>1, <1>3 DEF OnPath
<1>6. \A x \in I : Calm(n, D, x) => Calm(m, D, x)
  BY <1>3 DEF Calm
<1>7. CASE WinA(n, P, D, c, p, pp, ppp, ld)
  <2>1. WinA(m, P, D, c, p, pp, ppp, ld)
    <3>1. p = Nil => pp = Nil /\ c \notin D
      BY <1>7 DEF WinA
    <3>2. ASSUME p # Nil
          PROVE  /\ P[p] = pp
                 /\ pp # Nil => m[pp][ld] = p /\ P[pp] = ppp
                 /\ \E e \in Dir : m[p][e] \notin D
                 /\ p \in D => Calm(m, D, c) \/ (pp # Nil /\ m[pp][Other(ld)] \notin D)
      <4>1. /\ P[p] = pp
            /\ pp # Nil => n[pp][ld] = p /\ P[pp] = ppp
            /\ \E e \in Dir : n[p][e] \notin D
            /\ p \in D => Calm(n, D, c) \/ (pp # Nil /\ n[pp][Other(ld)] \notin D)
        BY <1>7, <3>2 DEF WinA
      <4>2. p \in I /\ (pp # Nil => pp \in I)
        BY <4>1, <3>2, <1>4
      <4>3. Calm(n, D, c) => Calm(m, D, c)
        BY <1>4, <1>6 DEF Calm
      <4>4. pp # Nil => m[pp][ld] = n[pp][ld] /\ m[pp][Other(ld)] = n[pp][Other(ld)]
        BY <4>2, <1>3, <1>4
      <4>5. \A e \in Dir : m[p][e] = n[p][e]
        BY <4>2, <1>3
      <4>. QED
        BY <4>1, <4>3, <4>4, <4>5
    <3>. QED
      BY <3>1, <3>2 DEF WinA
  <2>. QED
    BY <2>1, <1>2, <1>5 DEF InsertWalk, Win
<1>8. CASE WinB(n, P, D, c, p, pp)
  <2>1. WinB(m, P, D, c, p, pp)
    <3>1. Calm(n, D, c) => Calm(m, D, c)
      BY <1>4, <1>6 DEF Calm
    <3>. QED
      BY <3>1, <1>8 DEF WinB
  <2>. QED
    BY <2>1, <1>2, <1>5 DEF InsertWalk, Win
<1>9. CASE WinC(n, D, K, c, p)
  <2>1. WinC(m, D, K, c, p)
    <3>1. p # Nil /\ p \notin D /\ c \in D
      BY <1>9 DEF WinC
    <3>2. PICK e \in Dir : Before(e, K, n[c].key) /\ Calm(n, D, n[c][e])
      BY <1>9 DEF WinC
    <3>3. c \in I
      BY <3>1, <1>4
    <3>4. n[c][e] \in I
      <4>1. n[c][e] \in I \cup {Nil}
        BY <3>3, <1>4, SonOf
      <4>. QED
        BY <4>1, <3>2 DEF Calm
    <3>5. Calm(m, D, m[c][e]) /\ m[c].key = n[c].key
      BY <3>2, <3>3, <3>4, <1>3, <1>6
    <3>. QED
      BY <3>1, <3>2, <3>5 DEF WinC
  <2>. QED
    BY <2>1, <1>2, <1>5 DEF InsertWalk, Win
<1>. QED
  BY <1>1, <1>7, <1>8, <1>9 DEF Win

\* A cut that takes nothing away but what Aux holds.
LEMMA CutSame ==
  ASSUME NEW I, Room(I), NEW x, Typed(x, I), NEW y, y = Cut(x, I)
  PROVE  Typed(y, I) /\ SameTree(x, y, I) /\ Emptied(y) /\ SameMap(x, I, y, I)
<1>1. \A i \in I, e \in Dir : x[i][e] \in I \cup {Nil}
  BY SonOf
<1>2. CutTo(x, y, I)
  <2>1. Aux \notin I
    BY DEF Room
  <2>. QED
    BY <1>1, <2>1, CutTyped
<1>3. \A i \in I : y[i] = x[i]
  BY <1>2 DEF CutTo
<1>4. SameTree(x, y, I)
  BY <1>3, Zenon DEF SameTree
<1>5. SameMap(x, I, y, I)
  BY <1>3 DEF SameMap, Holds
<1>. QED
  BY <1>2, <1>4, <1>5 DEF CutTo, Emptied

ValueTo(n, m, c, v) == m = [n EXCEPT ![c].val = v]
ValueAt(n, m, I, c, v) == \A i \in I : m[i].val = IF i = c THEN v ELSE n[i].val

LEMMA ValueSet ==
  ASSUME NEW I, Room(I), NEW n, Typed(n, I), NEW c \in I, NEW v \in 0 .. ValMod - 1,
         NEW m, ValueTo(n, m, c, v)
  PROVE  Typed(m, I) /\ SameTree(n, m, I) /\ ValueAt(n, m, I, c, v)
<1>1. Typed(m, I)
  BY DEF Typed, ValueTo
<1>2. \A i \in I : m[i].key = n[i].key /\ \A e \in Dir : m[i][e] = n[i][e]
  BY DEF Typed, ValueTo, Dir
<1>3. \A i \in I : m[i].red = n[i].red
  BY DEF Typed, ValueTo
<1>4. SameTree(n, m, I)
  BY <1>2, <1>3, Zenon DEF SameTree
<1>5. ValueAt(n, m, I, c, v)
  BY DEF Typed, ValueTo, ValueAt
<1>. QED
  BY <1>1, <1>4, <1>5

\* The map gets value v at key K, and is otherwise the same.
Binds(n, I, m, J, K, v) ==
  \A a, b : Holds(m, J, a, b) <=> (a # K /\ Holds(n, I, a, b)) \/ (a = K /\ b = v)

\* Key K is in the tree, at c, and gets value v.
LEMMA BindsOld ==
  ASSUME NEW I, Room(I), NEW n, Typed(n, I), NEW rt, NEW R, NEW P, Shape(n, rt, I, R, P),
         NEW K, NEW c \in I, n[c].key = K,
         NEW m, SameTree(n, m, I), NEW v, ValueAt(n, m, I, c, v)
  PROVE  Binds(n, I, m, I, K, v)
<1>1. \A i \in I : n[i].key = K => i = c
  <2>1. SUFFICES ASSUME NEW i \in I, n[i].key = K PROVE i = c
    OBVIOUS
  <2>2. n[i].key = n[c].key
    BY <2>1
  <2>. QED
    BY <2>2, UniqueKeys
<1>2. \A i \in I : m[i].key = n[i].key /\ m[i].val = IF i = c THEN v ELSE n[i].val
  BY DEF SameTree, ValueAt
<1>3. ASSUME NEW a, NEW b, Holds(m, I, a, b) PROVE (a # K /\ Holds(n, I, a, b)) \/ (a = K /\ b = v)
  <2>1. PICK i \in I : m[i].key = a /\ m[i].val = b
    BY <1>3 DEF Holds
  <2>2. CASE i = c
    BY <2>1, <2>2, <1>2
  <2>3. CASE i # c
    BY <2>1, <2>3, <1>1, <1>2 DEF Holds
  <2>. QED
    BY <2>2, <2>3
<1>4. ASSUME NEW a, NEW b, a # K, Holds(n, I, a, b) PROVE Holds(m, I, a, b)
  <2>1. PICK i \in I : n[i].key = a /\ n[i].val = b
    BY <1>4 DEF Holds
  <2>2. i # c
    BY <2>1, <1>4
  <2>. QED
    BY <2>1, <2>2, <1>2 DEF Holds
<1>5. Holds(m, I, K, v)
  BY <1>2 DEF Holds
<1>. QED
  BY <1>3, <1>4, <1>5 DEF Binds

\* Key K is not in the tree, and gets a node of its own.
LEMMA BindsNew ==
  ASSUME NEW I, NEW n, NEW m, NEW s, NEW J, J = I \cup {s}, NEW K, NEW v, NodeAdded(n, m, I, s, K, v)
  PROVE  Binds(n, I, m, J, K, v)
<1>1. /\ \A i \in I : n[i].key # K /\ m[i].key = n[i].key /\ m[i].val = n[i].val
      /\ m[s].key = K /\ m[s].val = v
  BY DEF NodeAdded
<1>2. ASSUME NEW a, NEW b, Holds(m, J, a, b) PROVE (a # K /\ Holds(n, I, a, b)) \/ (a = K /\ b = v)
  <2>1. PICK i \in J : m[i].key = a /\ m[i].val = b
    BY <1>2 DEF Holds
  <2>2. CASE i = s
    BY <2>1, <2>2, <1>1
  <2>3. CASE i # s
    <3>1. i \in I
      BY <2>3
    <3>. QED
      BY <3>1, <2>1, <1>1 DEF Holds
  <2>. QED
    BY <2>2, <2>3
<1>3. ASSUME NEW a, NEW b, Holds(n, I, a, b) PROVE Holds(m, J, a, b)
  <2>1. PICK i \in I : n[i].key = a /\ n[i].val = b
    BY <1>3 DEF Holds
  <2>. QED
    BY <2>1, <1>1 DEF Holds
<1>4. Holds(m, J, K, v)
  BY <1>1 DEF Holds
<1>. QED
  BY <1>2, <1>3, <1>4 DEF Binds

----------------------------------------------------------------------------
(* Trees as dictionaries.                                                  *)

\* The dictionary that a tree stands for, and what makes it one.
ContentsOf(n, I) ==
  [k \in {n[i].key : i \in I} |-> n[CHOOSE i \in I : n[i].key = k].val]
OneEach(n, I) == \A i, j \in I : n[i].key = n[j].key => i = j
DictOf(F, n, I) ==
  /\ F = [k \in DOMAIN F |-> F[k]]
  /\ \A a, b : (a \in DOMAIN F /\ F[a] = b) <=> Holds(n, I, a, b)

LEMMA TreeOneEach ==
  ASSUME NEW I, Room(I), NEW n, NEW rt, IsTree(n, rt, I)
  PROVE  OneEach(n, I)
<1>1. PICK R, P, D : Fine(n, rt, I, R, P, D)
  BY DEF IsTree
<1>2. Typed(n, I) /\ Shape(n, rt, I, R, P)
  BY <1>1 DEF Fine
<1>. QED
  BY <1>2, UniqueKeys DEF OneEach

LEMMA ContentsDict ==
  ASSUME NEW I, NEW n, OneEach(n, I), NEW F, F = ContentsOf(n, I)
  PROVE  DictOf(F, n, I)
<1>1. DOMAIN F = {n[i].key : i \in I} /\ F = [k \in DOMAIN F |-> F[k]]
  BY DEF ContentsOf
<1>2. ASSUME NEW i \in I PROVE n[i].key \in DOMAIN F /\ F[n[i].key] = n[i].val
  <2>1. n[i].key \in DOMAIN F
    BY <1>1
  <2>2. F[n[i].key] = n[CHOOSE j \in I : n[j].key = n[i].key].val
    BY <2>1, <1>1 DEF ContentsOf
  <2>3. (CHOOSE j \in I : n[j].key = n[i].key) = i
    BY DEF OneEach
  <2>. QED
    BY <2>1, <2>2, <2>3
<1>3. ASSUME NEW a, NEW b, a \in DOMAIN F, F[a] = b PROVE Holds(n, I, a, b)
  <2>1. PICK i \in I : a = n[i].key
    BY <1>1, <1>3
  <2>. QED
    BY <2>1, <1>2, <1>3 DEF Holds
<1>4. ASSUME NEW a, NEW b, Holds(n, I, a, b) PROVE a \in DOMAIN F /\ F[a] = b
  <2>1. PICK i \in I : n[i].key = a /\ n[i].val = b
    BY <1>4 DEF Holds
  <2>. QED
    BY <2>1, <1>2
<1>. QED
  BY <1>1, <1>3, <1>4 DEF DictOf

LEMMA SameGraph ==
  ASSUME NEW F, F = [k \in DOMAIN F |-> F[k]], NEW G, G = [k \in DOMAIN G |-> G[k]],
         \A a, b : (a \in DOMAIN F /\ F[a] = b) <=> (a \in DOMAIN G /\ G[a] = b)
  PROVE  F = G
<1>1. DOMAIN F = DOMAIN G
  OBVIOUS
<1>2. \A a \in DOMAIN F : F[a] = G[a]
  OBVIOUS
<1>. QED
  BY <1>1, <1>2

\* The same bindings make the same dictionary.
LEMMA SameDict ==
  ASSUME NEW I, NEW n, NEW F, DictOf(F, n, I), NEW J, NEW m, NEW G, DictOf(G, m, J), SameMap(n, I, m, J)
  PROVE  G = F
<1>1. \A a, b : (a \in DOMAIN F /\ F[a] = b) <=> (a \in DOMAIN G /\ G[a] = b)
  BY DEF DictOf, SameMap
<1>2. F = [k \in DOMAIN F |-> F[k]] /\ G = [k \in DOMAIN G |-> G[k]]
  BY DEF DictOf
<1>. QED
  BY <1>1, <1>2, SameGraph

BoundIn(F, K, v) == [x \in DOMAIN F \cup {K} |-> IF x = K THEN v ELSE F[x]]
LEMMA BoundDict ==
  ASSUME NEW I, NEW n, NEW F, DictOf(F, n, I), NEW J, NEW m, NEW G, DictOf(G, m, J),
         NEW K, NEW v, Binds(n, I, m, J, K, v)
  PROVE  G = BoundIn(F, K, v)
<1>1. PICK H : H = BoundIn(F, K, v)
  OBVIOUS
<1>2. DOMAIN H = DOMAIN F \cup {K} /\ \A x \in DOMAIN H : H[x] = IF x = K THEN v ELSE F[x]
  BY <1>1 DEF BoundIn
<1>3. H = [k \in DOMAIN H |-> H[k]]
  BY <1>1, <1>2 DEF BoundIn
<1>4. ASSUME NEW a, NEW b PROVE (a \in DOMAIN G /\ G[a] = b) <=> (a \in DOMAIN H /\ H[a] = b)
  <2>1. (a \in DOMAIN G /\ G[a] = b) <=> Holds(m, J, a, b)
    BY DEF DictOf
  <2>2. (a \in DOMAIN F /\ F[a] = b) <=> Holds(n, I, a, b)
    BY DEF DictOf
  <2>3. Holds(m, J, a, b) <=> (a # K /\ Holds(n, I, a, b)) \/ (a = K /\ b = v)
    BY DEF Binds
  <2>4. CASE a = K
    BY <2>1, <2>3, <2>4, <1>2
  <2>5. CASE a # K
    BY <2>1, <2>2, <2>3, <2>5, <1>2
  <2>. QED
    BY <2>4, <2>5
<1>5. G = [k \in DOMAIN G |-> G[k]]
  BY DEF DictOf
<1>. QED
  BY <1>1, <1>3, <1>4, <1>5, SameGraph

CutFrom(F, K) == [x \in DOMAIN F \ {K} |-> F[x]]
LEMMA WithoutDict ==
  ASSUME NEW I, NEW n, NEW F, DictOf(F, n, I), NEW J, NEW m, NEW G, DictOf(G, m, J),
         NEW K, Without(n, I, m, J, K)
  PROVE  G = CutFrom(F, K)
<1>1. PICK H : H = CutFrom(F, K)
  OBVIOUS
<1>2. DOMAIN H = DOMAIN F \ {K} /\ \A x \in DOMAIN H : H[x] = F[x]
  BY <1>1 DEF CutFrom
<1>3. H = [k \in DOMAIN H |-> H[k]]
  BY <1>1, <1>2 DEF CutFrom
<1>4. ASSUME NEW a, NEW b PROVE (a \in DOMAIN G /\ G[a] = b) <=> (a \in DOMAIN H /\ H[a] = b)
  <2>1. (a \in DOMAIN G /\ G[a] = b) <=> Holds(m, J, a, b)
    BY DEF DictOf
  <2>2. (a \in DOMAIN F /\ F[a] = b) <=> Holds(n, I, a, b)
    BY DEF DictOf
  <2>3. Holds(m, J, a, b) <=> Holds(n, I, a, b) /\ a # K
    BY DEF Without
  <2>. QED
    BY <2>1, <2>2, <2>3, <1>2
<1>5. G = [k \in DOMAIN G |-> G[k]]
  BY DEF DictOf
<1>. QED
  BY <1>1, <1>3, <1>4, <1>5, SameGraph

\* A deletion of a key that is not there changes nothing.
LEMMA NothingCut ==
  ASSUME NEW F, F = [k \in DOMAIN F |-> F[k]], NEW K, K \notin DOMAIN F
  PROVE  CutFrom(F, K) = F
<1>1. DOMAIN F \ {K} = DOMAIN F
  OBVIOUS
<1>. QED
  BY <1>1 DEF CutFrom

LEMMA DictHas ==
  ASSUME NEW I, NEW n, NEW F, DictOf(F, n, I), NEW i \in I, NEW K, K = n[i].key
  PROVE  K \in DOMAIN F /\ F[K] = n[i].val
<1>1. PICK b : b = n[i].val
  OBVIOUS
<1>2. Holds(n, I, K, b)
  BY <1>1 DEF Holds
<1>3. K \in DOMAIN F /\ F[K] = b
  BY <1>2 DEF DictOf
<1>. QED
  BY <1>1, <1>3

LEMMA DictHasNot ==
  ASSUME NEW I, NEW n, NEW F, DictOf(F, n, I), NEW K, \A i \in I : n[i].key # K
  PROVE  K \notin DOMAIN F
BY DEF DictOf, Holds

LEMMA EmptyDict ==
  ASSUME NEW n, NEW I, I = {}
  PROVE  ContentsOf(n, I) = << >> /\ OneEach(n, I)
<1>1. {n[i].key : i \in I} = {}
  OBVIOUS
<1>2. PICK f : f = [k \in {} |-> n[CHOOSE i \in I : n[i].key = k].val]
  OBVIOUS
<1>3. ContentsOf(n, I) = f
  BY <1>1, <1>2 DEF ContentsOf
<1>4. f = << >>
  BY <1>2
<1>. QED
  BY <1>3, <1>4 DEF OneEach

\* As many keys as nodes.
LEMMA DictCount ==
  ASSUME NEW I, IsFiniteSet(I), NEW n, OneEach(n, I), NEW F, F = ContentsOf(n, I)
  PROVE  Cardinality(DOMAIN F) = Cardinality(I)
<1>1. PICK S : S = DOMAIN F
  OBVIOUS
<1>2. S = {n[i].key : i \in I}
  BY <1>1 DEF ContentsOf
<1>3. PICK g : g = [i \in I |-> n[i].key]
  OBVIOUS
<1>4. g \in [I -> S] /\ \A i \in I : g[i] = n[i].key
  BY <1>2, <1>3
<1>5. \A i, j \in I : g[i] = g[j] => i = j
  BY <1>4 DEF OneEach
<1>6. \A s \in S : \E i \in I : g[i] = s
  BY <1>2, <1>4
<1>7. g \in Bijection(I, S)
  BY <1>4, <1>5, <1>6 DEF Bijection, Injection, Surjection, IsInjective
<1>8. ExistsBijection(I, S)
  BY <1>7 DEF ExistsBijection
<1>9. Cardinality(I) = Cardinality(S)
  BY <1>8, FS_Bijection
<1>. QED
  BY <1>1, <1>9

----------------------------------------------------------------------------
(* The inductive invariant.                                                *)

Slots(s) == 0 .. s - 1

\* TypeOK, of given values of the variables.
Ranges(n, rt, s, p, c, w, r) ==
  /\ s \in 0 .. Cap
  /\ Typed(n, Slots(s))
  /\ rt \in Slots(s) \cup {Nil}
  /\ p \in {"idle", "insert", "delete"}
  /\ c \in [op : {"none", "insert", "inc", "delete", "at", "clear"},
            key : Key \cup {0}, val : Val \cup {0}]
  /\ w \in [c : Slots(s) \cup {Nil}, p : Slots(s) \cup {Nil, Aux}, pp : Slots(s) \cup {Nil, Aux},
            ppp : Slots(s) \cup {Nil, Aux}, d : Dir, ld : Dir, found : Slots(s) \cup {Nil}]
  /\ r \in 0 .. ValMod

\* Between calls the tree is red and black under a black root; during one the
\* window is where the walk of that call can be.
Resting(n, rt, s) ==
  /\ Emptied(n)
  /\ s = 0 => rt = Nil
  /\ s # 0 => IsTree(n, rt, Slots(s))
Inserting(n, rt, s, c, w) ==
  /\ s # 0 /\ s # Cap /\ Emptied(n)
  /\ c.op \in {"insert", "inc"} /\ c.key \in Key /\ c.val \in Val
  /\ InsertWalk(n, rt, Slots(s), c.key, w.c, w.p, w.pp, w.ppp, w.d, w.ld)
Deleting(n, rt, s, c, w) ==
  /\ s # 0
  /\ c.op = "delete" /\ c.key \in Key /\ c.val = 0
  /\ DelWalk(n, rt, Slots(s), c.key, w.c, w.p, w.pp, w.d, w.found)

Good(n, rt, s, p, c, w, r) ==
  /\ Ranges(n, rt, s, p, c, w, r)
  /\ p = "idle" => Resting(n, rt, s) /\ w = AtRest
  /\ p = "insert" => Inserting(n, rt, s, c, w)
  /\ p = "delete" => Deleting(n, rt, s, c, w)

TreeInv == Good(node, root, size, pc, call, walk, res)

LEMMA SlotsRoom ==
  ASSUME NEW s \in 0 .. Cap
  PROVE  Room(Slots(s)) /\ s \in Nat /\ Cap \in Nat /\ Nil = Cap /\ Aux = Cap + 1
<1>1. Cap \in Nat
  BY RBTreeAssumption
<1>2. s \in Nat /\ s - 1 \in Int
  BY <1>1
<1>3. IsFiniteSet(0 .. s - 1)
  BY <1>2, FS_Interval
<1>4. \A i \in 0 .. s - 1 : i \in Int /\ i # Cap /\ i # Cap + 1
  BY <1>1
<1>5. Cap + 1 # Cap
  BY <1>1
<1>. QED
  BY <1>1, <1>2, <1>3, <1>4, <1>5 DEF Room, Slots, Nil, Aux

LEMMA SlotsMore ==
  ASSUME NEW s \in 0 .. Cap, s # Cap
  PROVE  Joined(Slots(s + 1), Slots(s), s) /\ s + 1 \in 0 .. Cap
<1>1. Cap \in Nat
  BY RBTreeAssumption
<1>2. s + 1 \in 0 .. Cap
  BY <1>1
<1>3. Slots(s + 1) = Slots(s) \cup {s} /\ s \notin Slots(s)
  BY <1>1 DEF Slots
<1>4. Room(Slots(s + 1))
  BY <1>2, SlotsRoom
<1>. QED
  BY <1>2, <1>3, <1>4 DEF Joined

LEMMA SlotsLess ==
  ASSUME NEW s \in 0 .. Cap, s # 0
  PROVE  /\ Slots(s - 1) = Slots(s) \ {s - 1} /\ s - 1 \in 0 .. Cap /\ s - 1 \in Slots(s)
<1>1. Cap \in Nat
  BY RBTreeAssumption
<1>. QED
  BY <1>1 DEF Slots

LEMMA InvRanges ==
  ASSUME TreeInv
  PROVE  /\ size \in 0 .. Cap /\ Index = Slots(size) /\ Room(Slots(size)) /\ Typed(node, Slots(size))
         /\ size \in Nat /\ Cap \in Nat /\ Nil = Cap /\ Aux = Cap + 1 /\ Nil # Aux
         /\ Contents = ContentsOf(node, Slots(size))
<1>1. size \in 0 .. Cap /\ Typed(node, Slots(size))
  BY DEF TreeInv, Good, Ranges
<1>2. Room(Slots(size)) /\ size \in Nat /\ Cap \in Nat /\ Nil = Cap /\ Aux = Cap + 1
  BY <1>1, SlotsRoom
<1>3. Index = Slots(size)
  BY DEF Index, Slots
<1>4. Contents = ContentsOf(node, Slots(size))
  BY <1>3 DEF Contents, ContentsOf
<1>. QED
  BY <1>1, <1>2, <1>3, <1>4

LEMMA NextContents == Contents' = ContentsOf(node', Slots(size'))
BY DEF Contents, ContentsOf, Index, Slots

LEMMA NextInvIs == TreeInv' = Good(node', root', size', pc', call', walk', res')
BY DEF TreeInv

\* What TreeInv says, in the words of TypeOK.
LEMMA InvTypeOK == TreeInv => TypeOK
<1>1. SUFFICES ASSUME TreeInv PROVE TypeOK
  OBVIOUS
<1>2. Ranges(node, root, size, pc, call, walk, res)
  BY <1>1 DEF TreeInv, Good
<1>3. Index = Slots(size)
  BY DEF Index, Slots
<1>4. node \in [Index \cup {Aux} -> Node]
  BY <1>2, <1>3 DEF Ranges, Typed, Node, Link
<1>5. walk \in [c : Link, p : Window, pp : Window, ppp : Window, d : Dir, ld : Dir, found : Link]
  <2>1. Link = Slots(size) \cup {Nil} /\ Window = Slots(size) \cup {Nil, Aux}
    BY <1>3 DEF Link, Window
  <2>. QED
    BY <2>1, <1>2 DEF Ranges
<1>. QED
  BY <1>2, <1>3, <1>4, <1>5 DEF Ranges, TypeOK, Link

LEMMA ValuesIn ==
  /\ ValMod \in Nat \ {0} /\ Val \subseteq 0 .. ValMod - 1 /\ Key \subseteq Int
  /\ 0 \in 0 .. ValMod /\ 1 \in 0 .. ValMod /\ 0 \in 0 .. ValMod - 1
  /\ \A x \in 0 .. ValMod - 1 : x \in 0 .. ValMod
BY RBTreeAssumption

\* A black node without sons.
Lone(x, K, v, b) == x = [key |-> K, val |-> v, l |-> Nil, r |-> Nil, red |-> b]

LoneBlack(x, K, v) == Lone(x, K, v, FALSE)

LEMMA FirstNode ==
  ASSUME NEW K, NEW v, NEW first, first = [NoNode EXCEPT !.key = K, !.val = v]
  PROVE  LoneBlack(first, K, v)
BY DEF NoNode, LoneBlack, Lone

LEMMA LoneFields ==
  ASSUME NEW K, NEW v, NEW b, NEW x, Lone(x, K, v, b)
  PROVE  x.key = K /\ x.val = v /\ x.red = b /\ \A e \in Dir : x[e] = Nil
<1>1. x.key = K /\ x.val = v
  BY DEF Lone
<1>2. x.red = b
  BY DEF Lone
<1>3. x["l"] = Nil /\ x["r"] = Nil
  BY DEF Lone
<1>4. \A e \in Dir : x[e] = Nil
  BY <1>3 DEF Dir
<1>. QED
  BY <1>1, <1>2, <1>4

\* One node is a tree.
LEMMA OneNode ==
  ASSUME NEW K \in Key, NEW v \in Val, NEW s, s = 1,
         NEW first, LoneBlack(first, K, v),
         NEW x, x = [i \in {0} |-> first], NEW I, I = Slots(s), NEW y, y = Cut(x, I)
  PROVE  Typed(y, I) /\ Emptied(y) /\ y[0].key = K /\ y[0].val = v /\ I = {0} /\ IsTree(y, 0, I)
<1>1. I = {0} /\ 0 \in Int
  BY DEF Slots
<1>2. Cap \in Nat \ {0} /\ Nil # 0 /\ Aux # 0 /\ Aux # Nil
  BY RBTreeAssumption DEF Nil, Aux
<1>0. PICK b \in BOOLEAN : b = FALSE
  OBVIOUS
<1>b. Lone(first, K, v, b)
  <2>1. FALSE = b
    BY <1>0, Zenon
  <2>. QED
    BY <2>1, Zenon DEF LoneBlack
<1>3. first.key = K /\ first.val = v /\ first.red = b /\ \A e \in Dir : first[e] = Nil
  <2>1. first.key = K /\ first.val = v
    BY <1>b, LoneFields
  <2>2. first.red = b
    BY <1>b, LoneFields
  <2>3. \A e \in Dir : first[e] = Nil
    BY <1>b, LoneFields
  <2>. QED
    BY <2>1, <2>2, <2>3
<1>4. y = [i \in {0} \cup {Aux} |-> IF i = Aux THEN NoNode ELSE x[i]]
  BY <1>1 DEF Cut
<1>5. y[0] = first /\ y[Aux] = NoNode
  BY <1>2, <1>4
<1>6. K \in Int /\ v \in 0 .. ValMod - 1 /\ 0 \in 0 .. ValMod - 1
  BY ValuesIn
<1>7. PICK T : T = [key : Key \cup {0}, val : 0 .. ValMod - 1,
                    l : I \cup {Nil}, r : I \cup {Nil}, red : BOOLEAN]
  OBVIOUS
<1>8. first \in T /\ NoNode \in T
  <2>1. first \in T
    BY <1>6, <1>7, <1>b DEF Lone
  <2>2. NoNode \in T
    BY <1>6, <1>7 DEF NoNode
  <2>. QED
    BY <2>1, <2>2
<1>9. Typed(y, I)
  <2>1. y \in [I \cup {Aux} -> T]
    <3>1. \A i \in {0} \cup {Aux} : y[i] \in T
      BY <1>5, <1>8
    <3>2. y = [i \in {0} \cup {Aux} |-> y[i]]
      BY <1>4
    <3>. QED
      BY <3>1, <3>2, <1>1
  <2>. QED
    BY <2>1, <1>7 DEF Typed
<1>10. y[0].key = K /\ y[0].val = v /\ ~y[0].red
  <2>1. y[0].red = b
    BY <1>3, <1>5
  <2>. QED
    BY <1>0, <1>3, <1>5, <2>1, Zenon
<1>11. \A e \in Dir : y[0][e] = Nil
  BY <1>3, <1>5
<1>12. PICK R, P, D, H : R = [i \in I |-> Int] /\ P = [i \in I |-> Nil] /\ D = {} /\ H = [i \in I |-> 1]
  OBVIOUS
<1>13. Shape(y, 0, I, R, P)
  <2>1. R \in [I -> SUBSET Int] /\ P \in [I -> I \cup {Nil}] /\ P[0] = Nil /\ 0 \in I
    BY <1>1, <1>12
  <2>2. \A i \in I : y[i].key \in R[i]
    BY <1>1, <1>6, <1>10, <1>12
  <2>3. \A i \in I, d \in Dir : y[i][d] = Nil
    BY <1>1, <1>11
  <2>. QED
    BY <1>1, <2>1, <2>2, <2>3 DEF Shape
<1>14. RedsAre(y, I, D)
  <2>1. \A i \in I : ~y[i].red
    BY <1>1, <1>10, Zenon
  <2>. QED
    BY <2>1, <1>12, Zenon DEF RedsAre, RedIn
<1>15. Even(y, D, I)
  <2>1. H \in [I -> Nat] /\ \A i \in I : H[i] = 1
    BY <1>12
  <2>2. \A i \in I, e \in Dir : BH(H, y[i][e]) = 0
    BY <1>1, <1>11 DEF BH
  <2>3. \A i \in I, e \in Dir : H[i] = BH(H, y[i][e]) + IF i \in D THEN 0 ELSE 1
    BY <2>1, <2>2, <1>12
  <2>4. Balanced(y, D, H, I)
    BY <2>1, <2>3 DEF Balanced
  <2>. QED
    BY <2>4 DEF Even
<1>16. Under(y, D, I, Nil)
  BY <1>12 DEF Under
<1>17. IsTree(y, 0, I)
  BY <1>9, <1>12, <1>13, <1>14, <1>15, <1>16 DEF IsTree, Fine
<1>. QED
  BY <1>1, <1>5, <1>9, <1>10, <1>17 DEF Emptied

----------------------------------------------------------------------------
(* What the abstract map sees.                                             *)

\* What `call' may be.
CallSet == [op : {"none", "insert", "inc", "delete", "at", "clear"},
            key : Key \cup {0}, val : Val \cup {0}]

LEMMA CallMade ==
  ASSUME NEW op \in {"insert", "inc", "delete", "at", "clear"},
         NEW k \in Key \cup {0}, NEW v \in Val \cup {0}
  PROVE  [op |-> op, key |-> k, val |-> v] \in CallSet
BY DEF CallSet

LEMMA AtRestTyped ==
  ASSUME NEW I
  PROVE  AtRest \in [c : I \cup {Nil}, p : I \cup {Nil, Aux}, pp : I \cup {Nil, Aux},
                     ppp : I \cup {Nil, Aux}, d : Dir, ld : Dir, found : I \cup {Nil}]
BY DEF AtRest, Dir

LEMMA TreeFacts ==
  ASSUME NEW I, NEW n, NEW rt, IsTree(n, rt, I)
  PROVE  Typed(n, I) /\ rt \in I
BY DEF IsTree, Fine, Shape

\* Between calls.
LEMMA RestGood ==
  ASSUME NEW s \in 0 .. Cap, NEW n, Typed(n, Slots(s)), NEW rt, Resting(n, rt, s),
         NEW c \in CallSet, NEW r \in 0 .. ValMod
  PROVE  Good(n, rt, s, "idle", c, AtRest, r)
<1>1. rt \in Slots(s) \cup {Nil}
  <2>1. CASE s = 0
    BY <2>1 DEF Resting
  <2>2. CASE s # 0
    BY <2>2, TreeFacts DEF Resting
  <2>. QED
    BY <2>1, <2>2
<1>2. AtRest \in [c : Slots(s) \cup {Nil}, p : Slots(s) \cup {Nil, Aux}, pp : Slots(s) \cup {Nil, Aux},
                  ppp : Slots(s) \cup {Nil, Aux}, d : Dir, ld : Dir, found : Slots(s) \cup {Nil}]
  BY AtRestTyped
<1>3. Ranges(n, rt, s, "idle", c, AtRest, r)
  BY <1>1, <1>2 DEF Ranges, CallSet
<1>. QED
  BY <1>3 DEF Good

LEMMA AtRestNow ==
  ASSUME TreeInv, pc = "idle"
  PROVE  Resting(node, root, size) /\ walk = AtRest /\ call \in CallSet /\ res \in 0 .. ValMod
BY DEF TreeInv, Good, Ranges, CallSet

\* The dictionary of a tree between calls.
LEMMA DictNow ==
  ASSUME NEW s \in 0 .. Cap, NEW n, NEW rt, Resting(n, rt, s), NEW F, F = ContentsOf(n, Slots(s))
  PROVE  OneEach(n, Slots(s)) /\ DictOf(F, n, Slots(s)) /\ Cardinality(DOMAIN F) = s
<1>1. Room(Slots(s)) /\ s \in Nat
  BY SlotsRoom
<1>2. OneEach(n, Slots(s))
  <2>1. CASE s = 0
    <3>1. Slots(s) = {}
      BY <2>1 DEF Slots
    <3>. QED
      BY <3>1 DEF OneEach
  <2>2. CASE s # 0
    BY <1>1, <2>2, TreeOneEach DEF Resting
  <2>. QED
    BY <2>1, <2>2
<1>3. DictOf(F, n, Slots(s))
  BY <1>2, ContentsDict
<1>4. IsFiniteSet(Slots(s))
  BY <1>1 DEF Room
<1>5. Cardinality(DOMAIN F) = Cardinality(Slots(s))
  BY <1>2, <1>4, DictCount
<1>6. Cardinality(0 .. s - 1) = IF 0 > s - 1 THEN 0 ELSE s - 1 - 0 + 1
  <2>1. 0 \in Int /\ s - 1 \in Int
    BY <1>1
  <2>. QED
    BY <2>1, FS_Interval
<1>7. Cardinality(Slots(s)) = s
  BY <1>1, <1>6 DEF Slots
<1>. QED
  BY <1>2, <1>3, <1>5, <1>7

LEMMA CardinalityIs == \A S : Abstract!Cardinality(S) = Cardinality(S)
BY DEF Cardinality, Abstract!Cardinality

\* The answers, as the abstract map gives them.
LEMMA AnswersWrite ==
  ASSUME NEW k \in Key, NEW v \in Val, NEW op \in {"insert", "inc"},
         pc' = "idle", call' = [op |-> op, key |-> k, val |-> v], res' = 1,
         NEW w, w = IF op = "inc" /\ k \in DOMAIN Contents THEN (Contents[k] + v) % ValMod ELSE v,
         Contents' = BoundIn(Contents, k, w)
  PROVE  Abstract!Calls
<1>1. Abstract!Answer(op, k, v, 1)
  BY DEF Abstract!Answer
<1>2. Abstract!Bind(k, w)
  BY DEF Abstract!Bind, BoundIn
<1>3. CASE op = "insert"
  <2>1. w = v
    BY <1>3
  <2>2. Abstract!Insert(k, v)
    BY <1>1, <1>2, <1>3, <2>1 DEF Abstract!Insert
  <2>. QED
    BY <2>2 DEF Abstract!Calls
<1>4. CASE op = "inc"
  <2>1. w = IF k \in DOMAIN Contents THEN (Contents[k] + v) % ValMod ELSE v
    BY <1>4
  <2>2. Abstract!Inc(k, v)
    BY <1>1, <1>2, <1>4, <2>1 DEF Abstract!Inc
  <2>. QED
    BY <2>2 DEF Abstract!Calls
<1>. QED
  BY <1>3, <1>4

LEMMA AnswersDelete ==
  ASSUME NEW k \in Key, pc' = "idle", call' = [op |-> "delete", key |-> k, val |-> 0],
         res' = (IF k \in DOMAIN Contents THEN 1 ELSE 0), Contents' = CutFrom(Contents, k)
  PROVE  Abstract!Calls
<1>1. Abstract!Answer("delete", k, 0, IF k \in DOMAIN Contents THEN 1 ELSE 0)
  BY DEF Abstract!Answer
<1>2. Contents' = Abstract!Restrict(Contents, DOMAIN Contents \ {k})
  BY DEF CutFrom, Abstract!Restrict
<1>3. Abstract!Delete(k)
  BY <1>1, <1>2 DEF Abstract!Delete
<1>. QED
  BY <1>3 DEF Abstract!Calls

LEMMA Asks ==
  ASSUME pc' # "idle", res' = 0, Contents' = Contents
  PROVE  Abstract!Calls
<1>1. (IF pc' = "idle" THEN call' ELSE NoCall) = Abstract!NoCall
  BY DEF NoCall, Abstract!NoCall
<1>2. Abstract!Ask
  BY <1>1 DEF Abstract!Ask, NoCall
<1>. QED
  BY <1>2 DEF Abstract!Calls

LEMMA GoesUnseen ==
  ASSUME pc # "idle", pc' = pc, res' = res, Contents' = Contents
  PROVE  UNCHANGED Abstract!vars
BY DEF Abstract!vars, NoCall

----------------------------------------------------------------------------
(* Insertions keep the invariant.                                          *)

\* A container without room refuses.
LEMMA RefuseStep ==
  ASSUME TreeInv, NEW k \in Key, NEW v \in Val, NEW op \in {"insert", "inc"},
         pc = "idle", size = Cap, call' = [op |-> op, key |-> k, val |-> v], Reply(0),
         node' = node, root' = root, size' = size
  PROVE  TreeInv' /\ Abstract!Calls
<1>1. pc' = "idle" /\ walk' = AtRest /\ res' = 0
  BY DEF Reply
<1>2. size \in 0 .. Cap /\ Typed(node, Slots(size)) /\ Contents = ContentsOf(node, Slots(size)) /\ Cap \in Nat
  BY InvRanges
<1>3. Resting(node, root, size)
  BY AtRestNow
<1>4. TreeInv'
  <2>1. call' \in CallSet
    BY CallMade
  <2>2. 0 \in 0 .. ValMod
    BY ValuesIn
  <2>3. Good(node, root, size, "idle", call', AtRest, 0)
    BY <1>2, <1>3, <2>1, <2>2, RestGood
  <2>. QED
    BY <1>1, <2>3, NextInvIs
<1>5. Contents' = Contents
  BY <1>2, NextContents
<1>6. Abstract!Cardinality(DOMAIN Contents) >= Cap
  <2>1. PICK F : F = Contents
    OBVIOUS
  <2>2. Cardinality(DOMAIN F) = size
    BY <1>2, <1>3, <2>1, DictNow
  <2>3. Abstract!Cardinality(DOMAIN F) = size
    BY <2>2, CardinalityIs
  <2>. QED
    BY <2>1, <2>3, <1>2
<1>7. Abstract!Answer(op, k, v, 0)
  BY <1>1 DEF Abstract!Answer
<1>8. Abstract!Refuse(op, k, v)
  BY <1>5, <1>6, <1>7 DEF Abstract!Refuse
<1>. QED
  BY <1>4, <1>8 DEF Abstract!Calls

\* The first node.
LEMMA FirstStep ==
  ASSUME TreeInv, NEW k \in Key, NEW v \in Val, NEW op \in {"insert", "inc"},
         pc = "idle", size = 0, call' = [op |-> op, key |-> k, val |-> v], Reply(1),
         NEW first, first = [NoNode EXCEPT !.key = k, !.val = v],
         NEW t, t = [n |-> [i \in {0} |-> first], root |-> 0], Become(t, 1)
  PROVE  TreeInv' /\ Abstract!Calls
<1>1. pc' = "idle" /\ walk' = AtRest /\ res' = 1
  BY DEF Reply
<1>2. PICK x, I, y : x = [i \in {0} |-> first] /\ I = Slots(1) /\ y = Cut(x, I)
  OBVIOUS
<1>3. node' = y /\ root' = 0 /\ size' = 1
  <2>1. t.n = x /\ t.root = 0
    BY <1>2
  <2>. QED
    BY <1>2, <2>1 DEF Become, Cut, Slots
<1>5. LoneBlack(first, k, v)
  BY FirstNode
<1>6. Typed(y, I) /\ Emptied(y) /\ y[0].key = k /\ y[0].val = v /\ I = {0} /\ IsTree(y, 0, I)
  BY <1>2, <1>5, OneNode
<1>7. Resting(y, 0, 1)
  BY <1>2, <1>6 DEF Resting
<1>8. 1 \in 0 .. Cap
  BY RBTreeAssumption
<1>9. TreeInv'
  <2>1. call' \in CallSet
    BY CallMade
  <2>2. 1 \in 0 .. ValMod
    BY ValuesIn
  <2>3. Typed(y, Slots(1))
    BY <1>2, <1>6
  <2>4. Good(y, 0, 1, "idle", call', AtRest, 1)
    BY <1>7, <1>8, <2>1, <2>2, <2>3, RestGood
  <2>. QED
    BY <1>1, <1>3, <2>4, NextInvIs
<1>10. PICK F, G, n, E : F = Contents /\ G = Contents' /\ n = node /\ E = Slots(0)
  OBVIOUS
<1>11. DictOf(F, n, E) /\ DOMAIN F = {}
  <2>1. size \in 0 .. Cap /\ Contents = ContentsOf(node, Slots(size)) /\ Resting(node, root, size)
    BY InvRanges, AtRestNow
  <2>2. DictOf(F, n, E)
    BY <2>1, <1>10, DictNow
  <2>3. E = {}
    BY <1>10 DEF Slots
  <2>4. F = ContentsOf(n, E)
    BY <2>1, <1>10
  <2>. QED
    BY <2>2, <2>3, <2>4 DEF ContentsOf
<1>12. DictOf(G, y, I)
  <2>1. G = ContentsOf(y, Slots(1))
    BY <1>3, <1>10, NextContents
  <2>. QED
    BY <2>1, <1>2, <1>7, <1>8, DictNow
<1>13. Binds(n, E, y, I, k, v)
  <2>1. E = {}
    BY <1>10 DEF Slots
  <2>. QED
    BY <2>1, <1>6 DEF Binds, Holds
<1>14. G = BoundIn(F, k, v)
  BY <1>11, <1>12, <1>13, BoundDict
<1>15. Contents' = BoundIn(Contents, k, v) /\ k \notin DOMAIN Contents
  BY <1>10, <1>11, <1>14
<1>16. Abstract!Calls
  <2>1. PICK w : w = IF op = "inc" /\ k \in DOMAIN Contents THEN (Contents[k] + v) % ValMod ELSE v
    OBVIOUS
  <2>2. w = v
    BY <2>1, <1>15
  <2>3. Contents' = BoundIn(Contents, k, w)
    BY <2>2, <1>15
  <2>. QED
    BY <1>1, <2>1, <2>3, AnswersWrite
<1>. QED
  BY <1>9, <1>16

\* A walk starts.
LEMMA WalkStep ==
  ASSUME TreeInv, NEW k \in Key, NEW v \in Val, NEW op \in {"insert", "inc"},
         pc = "idle", size # 0, size # Cap, call' = [op |-> op, key |-> k, val |-> v],
         pc' = "insert", walk' = [AtRest EXCEPT !.c = root], res' = 0,
         node' = node, root' = root, size' = size
  PROVE  TreeInv' /\ Abstract!Calls
<1>1. PICK n, rt, s, I, w, c2 : n = node /\ rt = root /\ s = size /\ I = Slots(size) /\ w = walk' /\ c2 = call'
  OBVIOUS
<1>2. s \in 0 .. Cap /\ Room(I) /\ Typed(n, I) /\ Contents = ContentsOf(n, I)
  BY <1>1, InvRanges
<1>3. Emptied(n) /\ IsTree(n, rt, I)
  BY <1>1, AtRestNow DEF Resting
<1>4. k \in Int
  BY ValuesIn
<1>5. w.c = rt /\ w.p = Nil /\ w.pp = Nil /\ w.ppp = Nil /\ w.d = "l" /\ w.ld = "l"
  BY <1>1 DEF AtRest
<1>6. InsertWalk(n, rt, I, k, rt, Nil, Nil, Nil, w.d, w.ld)
  BY <1>2, <1>3, <1>4, InsertStarts
<1>7. c2.op \in {"insert", "inc"} /\ c2.key = k /\ c2.val = v /\ c2 \in CallSet
  BY <1>1, CallMade
<1>8. Inserting(n, rt, s, c2, w)
  BY <1>1, <1>3, <1>5, <1>6, <1>7 DEF Inserting
<1>9. rt \in I
  BY <1>3, TreeFacts
<1>10. w \in [c : I \cup {Nil}, p : I \cup {Nil, Aux}, pp : I \cup {Nil, Aux},
              ppp : I \cup {Nil, Aux}, d : Dir, ld : Dir, found : I \cup {Nil}]
  BY <1>1, <1>9 DEF AtRest, Dir
<1>11. 0 \in 0 .. ValMod
  BY ValuesIn
<1>12. Ranges(n, rt, s, "insert", c2, w, 0)
  BY <1>1, <1>2, <1>7, <1>9, <1>10, <1>11 DEF Ranges, CallSet
<1>13. Good(n, rt, s, "insert", c2, w, 0)
  BY <1>8, <1>12 DEF Good
<1>14. TreeInv'
  BY <1>1, <1>13, NextInvIs
<1>15. Contents' = Contents
  BY <1>1, <1>2, NextContents
<1>16. Abstract!Calls
  BY <1>15, Asks
<1>. QED
  BY <1>14, <1>16

LEMMA StartInsertStep ==
  ASSUME TreeInv, NEW k \in Key, NEW v \in Val, NEW op \in {"insert", "inc"}, StartInsert(op, k, v)
  PROVE  TreeInv' /\ Abstract!Calls
<1>1. pc = "idle" /\ call' = [op |-> op, key |-> k, val |-> v] /\ size \in Nat /\ Cap \in Nat
  BY InvRanges DEF StartInsert
<1>2. CASE size = Cap /\ Reply(0) /\ UNCHANGED <<node, root, size>>
  BY <1>1, <1>2, RefuseStep
<1>3. CASE /\ size = 0 /\ size < Cap
           /\ Become([n |-> [i \in {0} |-> [NoNode EXCEPT !.key = k, !.val = v]], root |-> 0], 1)
           /\ Reply(1)
  BY <1>1, <1>3, FirstStep
<1>4. CASE /\ size > 0 /\ size < Cap
           /\ pc' = "insert" /\ walk' = [AtRest EXCEPT !.c = root] /\ res' = 0
           /\ UNCHANGED <<node, root, size>>
  <2>1. size # 0 /\ size # Cap
    BY <1>1, <1>4
  <2>. QED
    BY <1>1, <1>4, <2>1, WalkStep
<1>. QED
  BY <1>2, <1>3, <1>4 DEF StartInsert

\* The walk of an insertion ends past a leaf.
Hanging(n, n3, s, rt, K, v, p, d) ==
  LET leaf == [key |-> K, val |-> v, l |-> Nil, r |-> Nil, red |-> TRUE]
      n1   == [i \in DOMAIN n \cup {s} |-> IF i = s THEN leaf ELSE n[i]]
  IN  n3 = SetRed(SetSon(n1, p, d, s), rt, FALSE)

LEMMA HangingGrows ==
  ASSUME NEW I, Room(I), NEW n, Typed(n, I), NEW rt \in I, NEW s, NEW J, Joined(J, I, s),
         NEW K \in Key, NEW v \in 0 .. ValMod - 1, NEW p \in I, NEW d \in Dir,
         NEW n3, Hanging(n, n3, s, rt, K, v, p, d)
  PROVE  Grown(n, n3, rt, I, J, s, p, d, K, v)
<1>1. PICK leaf : leaf = [key |-> K, val |-> v, l |-> Nil, r |-> Nil, red |-> TRUE]
  OBVIOUS
<1>2. PICK n1 : n1 = [i \in DOMAIN n \cup {s} |-> IF i = s THEN leaf ELSE n[i]]
  OBVIOUS
<1>3. NewNode(n, n1, I, J, s, K, v)
  BY <1>1, <1>2, LeafMade
<1>4. PICK n2 : n2 = SetSon(n1, p, d, s)
  OBVIOUS
<1>5. n3 = SetRed(n2, rt, FALSE)
  BY <1>1, <1>2, <1>4 DEF Hanging
<1>. QED
  BY <1>3, <1>4, <1>5, Grows

LeafPlaced(n, I, y, J, t, K, v) ==
  /\ Typed(y, J) /\ Emptied(y) /\ IsTree(y, t, J)
  /\ Binds(n, I, y, J, K, v) /\ \A i \in I : n[i].key # K

LEMMA LeafHung ==
  ASSUME NEW I, Room(I), NEW n, NEW rt, NEW K \in Key, NEW v \in Val,
         NEW p, NEW pp, NEW ppp, NEW d \in Dir, NEW ld \in Dir,
         InsertWalk(n, rt, I, K, Nil, p, pp, ppp, d, ld), NEW s, NEW J, Joined(J, I, s),
         NEW n3, Hanging(n, n3, s, rt, K, v, p, d), NEW h, h = Fixed(n3, rt, p, pp, ppp, ld, s),
         NEW y, y = Cut(h.n, J)
  PROVE  LeafPlaced(n, I, y, J, h.root, K, v)
<1>1. K \in Int /\ v \in 0 .. ValMod - 1
  BY ValuesIn
<1>2. Typed(n, I) /\ rt \in I
  BY DEF InsertWalk, Fine, Shape
<1>3. MayGrow(n, n3, rt, I, J, s, p, d, K, v)
  <2>1. SUFFICES ASSUME p \in I PROVE Grown(n, n3, rt, I, J, s, p, d, K, v)
    BY DEF MayGrow
  <2>. QED
    BY <1>1, <1>2, <2>1, HangingGrows
<1>4. IsTree(h.n, h.root, J) /\ NodeAdded(n, h.n, I, s, K, v)
  <2>1. K \in Int
    BY <1>1
  <2>. QED
    BY <2>1, <1>3, InsertEnds
<1>5. Room(J) /\ J = I \cup {s}
  BY DEF Joined
<1>6. PICK x : x = h.n
  OBVIOUS
<1>7. Typed(x, J)
  BY <1>4, <1>6, TreeFacts
<1>8. Typed(y, J) /\ SameTree(x, y, J) /\ Emptied(y) /\ SameMap(x, J, y, J)
  <2>1. y = Cut(x, J)
    BY <1>6
  <2>. QED
    BY <1>5, <1>7, <2>1, CutSame
<1>9. IsTree(y, h.root, J)
  BY <1>4, <1>6, <1>8, SameIsTree
<1>10. NodeAdded(n, x, I, s, K, v)
  BY <1>4, <1>6
<1>11. Binds(n, I, x, J, K, v)
  BY <1>5, <1>10, BindsNew
<1>12. Binds(n, I, y, J, K, v)
  BY <1>8, <1>11 DEF Binds, SameMap
<1>13. \A i \in I : n[i].key # K
  BY <1>10 DEF NodeAdded
<1>. QED
  BY <1>8, <1>9, <1>12, <1>13 DEF LeafPlaced

\* What TreeInv says during an insertion.
LEMMA InsertNow ==
  ASSUME TreeInv, pc = "insert"
  PROVE  /\ size # 0 /\ size # Cap /\ Emptied(node)
         /\ call.op \in {"insert", "inc"} /\ call.key \in Key /\ call.val \in Val /\ call.key \in Int
         /\ InsertWalk(node, root, Slots(size), call.key, walk.c, walk.p, walk.pp, walk.ppp, walk.d, walk.ld)
         /\ walk.d \in Dir /\ walk.ld \in Dir /\ walk.c \in Slots(size) \cup {Nil}
         /\ walk.p \in Slots(size) \cup {Nil, Aux} /\ walk.pp \in Slots(size) \cup {Nil, Aux}
         /\ call \in CallSet /\ res \in 0 .. ValMod
         /\ call = [op |-> call.op, key |-> call.key, val |-> call.val]
<1>1. Inserting(node, root, size, call, walk) /\ Ranges(node, root, size, pc, call, walk, res)
  BY DEF TreeInv, Good
<1>2. /\ size # 0 /\ size # Cap /\ Emptied(node)
      /\ call.op \in {"insert", "inc"} /\ call.key \in Key /\ call.val \in Val
      /\ InsertWalk(node, root, Slots(size), call.key, walk.c, walk.p, walk.pp, walk.ppp, walk.d, walk.ld)
  BY <1>1 DEF Inserting
<1>3. /\ walk.d \in Dir /\ walk.ld \in Dir /\ walk.c \in Slots(size) \cup {Nil}
      /\ walk.p \in Slots(size) \cup {Nil, Aux} /\ walk.pp \in Slots(size) \cup {Nil, Aux}
      /\ call \in CallSet /\ res \in 0 .. ValMod
  BY <1>1 DEF Ranges, CallSet
<1>4. call = [op |-> call.op, key |-> call.key, val |-> call.val]
  BY <1>3 DEF CallSet
<1>5. call.key \in Int
  BY <1>2, ValuesIn
<1>. QED
  BY <1>2, <1>3, <1>4, <1>5

\* The dictionary during a call, before it is changed.
LEMMA DictDuring ==
  ASSUME NEW I, Room(I), NEW n, NEW rt, NEW R, NEW P, NEW D, Fine(n, rt, I, R, P, D), NEW F, F = ContentsOf(n, I)
  PROVE  DictOf(F, n, I) /\ OneEach(n, I)
<1>1. Typed(n, I) /\ Shape(n, rt, I, R, P)
  BY DEF Fine
<1>2. OneEach(n, I)
  BY <1>1, UniqueKeys DEF OneEach
<1>. QED
  BY <1>2, ContentsDict

LEMMA InsertLeafStep ==
  ASSUME TreeInv, InsertLeaf
  PROVE  TreeInv' /\ Abstract!Calls
<1>1. /\ pc = "insert" /\ walk.c = Nil /\ call' = call
      /\ pc' = "idle" /\ walk' = AtRest /\ res' = 1
      /\ Become(DoubleRedFixed(WithLeaf, size), size + 1)
  BY DEF InsertLeaf, Reply
<1>2. PICK n, rt, s, I, J, K, v, p, pp, ppp, d, ld :
        /\ n = node /\ rt = root /\ s = size /\ I = Slots(size) /\ J = Slots(size + 1)
        /\ K = call.key /\ v = call.val
        /\ p = walk.p /\ pp = walk.pp /\ ppp = walk.ppp /\ d = walk.d /\ ld = walk.ld
  OBVIOUS
<1>3. s \in 0 .. Cap /\ Room(I) /\ Contents = ContentsOf(n, I)
  BY <1>2, InvRanges
<1>4. /\ s # Cap /\ call.op \in {"insert", "inc"} /\ K \in Key /\ v \in Val /\ d \in Dir /\ ld \in Dir
      /\ InsertWalk(n, rt, I, K, Nil, p, pp, ppp, d, ld)
      /\ call \in CallSet /\ call = [op |-> call.op, key |-> K, val |-> v]
  BY <1>1, <1>2, InsertNow
<1>5. Joined(J, I, s) /\ s + 1 \in 0 .. Cap
  BY <1>2, <1>3, <1>4, SlotsMore
<1>6. PICK n3, h, y : n3 = WithLeaf /\ h = Fixed(n3, rt, p, pp, ppp, ld, s) /\ y = Cut(h.n, J)
  OBVIOUS
<1>7. Hanging(n, n3, s, rt, K, v, p, d)
  <2>1. Rewritten(0, call.val, FALSE) = v
    BY <1>2 DEF Rewritten
  <2>. QED
    BY <1>2, <1>6, <2>1 DEF WithLeaf, Hanging
<1>8. node' = y /\ root' = h.root /\ size' = s + 1
  <2>1. DoubleRedFixed(WithLeaf, size) = h
    BY <1>2, <1>6 DEF DoubleRedFixed, Fixed
  <2>2. Become(h, s + 1)
    BY <1>1, <1>2, <2>1
  <2>3. s + 1 - 1 = s
    BY <1>3
  <2>. QED
    BY <1>2, <1>6, <2>2 DEF Become, Cut, Slots
<1>9. /\ Typed(y, J) /\ Emptied(y) /\ IsTree(y, h.root, J)
      /\ Binds(n, I, y, J, K, v) /\ \A i \in I : n[i].key # K
  <2>1. h = Fixed(n3, rt, p, pp, ppp, ld, s) /\ y = Cut(h.n, J)
    BY <1>6
  <2>2. Room(I)
    BY <1>3
  <2>3. K \in Key /\ v \in Val /\ d \in Dir /\ ld \in Dir /\ InsertWalk(n, rt, I, K, Nil, p, pp, ppp, d, ld)
    BY <1>4
  <2>4. Joined(J, I, s)
    BY <1>5
  <2>5. LeafPlaced(n, I, y, J, h.root, K, v)
    BY <2>1, <2>2, <2>3, <2>4, <1>7, LeafHung
  <2>. QED
    BY <2>5 DEF LeafPlaced
<1>10. PICK s1 : s1 = s + 1
  OBVIOUS
<1>11. s1 \in 0 .. Cap /\ s1 # 0 /\ J = Slots(s1)
  BY <1>2, <1>3, <1>5, <1>10
<1>12. Resting(y, h.root, s1)
  BY <1>9, <1>11 DEF Resting
<1>13. TreeInv'
  <2>1. 1 \in 0 .. ValMod
    BY ValuesIn
  <2>2. Good(y, h.root, s1, "idle", call, AtRest, 1)
    BY <1>4, <1>9, <1>11, <1>12, <2>1, RestGood
  <2>. QED
    BY <1>1, <1>8, <1>10, <2>2, NextInvIs
<1>14. PICK F, G : F = Contents /\ G = Contents'
  OBVIOUS
<1>15. DictOf(F, n, I)
  <2>1. PICK R, P, D : Fine(n, rt, I, R, P, D)
    BY <1>4 DEF InsertWalk
  <2>. QED
    BY <1>3, <1>14, <2>1, DictDuring
<1>16. DictOf(G, y, J)
  <2>1. G = ContentsOf(y, Slots(s1))
    BY <1>8, <1>10, <1>14, NextContents
  <2>. QED
    BY <2>1, <1>11, <1>12, DictNow
<1>17. G = BoundIn(F, K, v) /\ K \notin DOMAIN F
  BY <1>9, <1>15, <1>16, BoundDict, DictHasNot
<1>18. PICK op, w : op = call.op /\ w = IF op = "inc" /\ K \in DOMAIN Contents THEN (Contents[K] + v) % ValMod ELSE v
  OBVIOUS
<1>19. Contents' = BoundIn(Contents, K, w)
  <2>1. w = v
    BY <1>14, <1>17, <1>18
  <2>. QED
    BY <1>14, <1>17, <2>1
<1>20. call' = [op |-> op, key |-> K, val |-> v] /\ op \in {"insert", "inc"}
  BY <1>1, <1>4, <1>18
<1>21. Abstract!Calls
  BY <1>1, <1>4, <1>18, <1>19, <1>20, AnswersWrite
<1>. QED
  BY <1>13, <1>21

LEMMA SameDataMap ==
  ASSUME NEW I, NEW n, NEW m, SameData(n, m, I)
  PROVE  SameMap(n, I, m, I)
<1>1. \A i \in I : m[i].key = n[i].key /\ m[i].val = n[i].val
  BY DEF SameData
<1>. QED
  BY <1>1 DEF SameMap, Holds

LEMMA BindsSame ==
  ASSUME NEW I, NEW n, NEW x, SameMap(n, I, x, I), NEW m, NEW K, NEW v, Binds(x, I, m, I, K, v),
         NEW y, SameMap(m, I, y, I)
  PROVE  Binds(n, I, y, I, K, v)
BY DEF SameMap, Binds

\* A turn of the loop, as a whole.
TurnOf(h, n, rt, c, p, pp, ppp, ld) == h = Fixed(PushedUp(n, c), rt, p, pp, ppp, ld, c)
Turned2(n, h, I) == SameData(n, h.n, I) /\ \E R, P, D : Fine(h.n, h.root, I, R, P, D)

LEMMA TurnGoesOn ==
  ASSUME NEW I, Room(I), NEW n, NEW rt, NEW K \in Int, NEW c \in I, NEW p, NEW pp, NEW ppp,
         NEW d \in Dir, NEW ld \in Dir, InsertWalk(n, rt, I, K, c, p, pp, ppp, d, ld),
         NEW h, TurnOf(h, n, rt, c, p, pp, ppp, ld)
  PROVE  Turned2(n, h, I)
<1>1. h = Fixed(PushedUp(n, c), rt, p, pp, ppp, ld, c)
  BY DEF TurnOf
<1>2. SameData(n, h.n, I) /\ \E R, P, D : Fine(h.n, h.root, I, R, P, D)
  BY <1>1, InsertGoesOn
<1>. QED
  BY <1>2 DEF Turned2

LEMMA TurnWalksOn ==
  ASSUME NEW I, Room(I), NEW n, NEW rt, NEW K \in Int, NEW c \in I, NEW p, NEW pp, NEW ppp,
         NEW d \in Dir, NEW ld \in Dir, InsertWalk(n, rt, I, K, c, p, pp, ppp, d, ld),
         NEW h, TurnOf(h, n, rt, c, p, pp, ppp, ld), NEW e \in Dir, Before(e, K, n[c].key)
  PROVE  InsertWalk(h.n, h.root, I, K, h.n[c][e], c, p, pp, e, d)
<1>1. h = Fixed(PushedUp(n, c), rt, p, pp, ppp, ld, c)
  BY DEF TurnOf
<1>2. \A f \in Dir : Before(f, K, n[c].key) => InsertWalk(h.n, h.root, I, K, h.n[c][f], c, p, pp, f, d)
  BY <1>1, InsertGoesOn
<1>. QED
  BY <1>2

LEMMA RewriteEnds ==
  ASSUME NEW I, Room(I), NEW n, NEW h, Turned2(n, h, I), NEW c \in I, NEW K, n[c].key = K,
         NEW v \in 0 .. ValMod - 1, NEW x, x = h.n, NEW m, ValueTo(x, m, c, v),
         NEW y, y = Cut(m, I), NEW r, r = h.root, ~y[r].red
  PROVE  Typed(y, I) /\ Emptied(y) /\ IsTree(y, r, I) /\ Binds(n, I, y, I, K, v)
<1>1. PICK R, P, D : Fine(x, r, I, R, P, D)
  BY DEF Turned2
<1>2. Typed(x, I) /\ Shape(x, r, I, R, P) /\ r \in I
  BY <1>1 DEF Fine, Shape
<1>3. Typed(m, I) /\ SameTree(x, m, I) /\ ValueAt(x, m, I, c, v)
  BY <1>2, ValueSet
<1>4. Typed(y, I) /\ SameTree(m, y, I) /\ Emptied(y) /\ SameMap(m, I, y, I)
  BY <1>3, CutSame
<1>5. SameData(n, x, I)
  BY DEF Turned2
<1>6. x[c].key = K
  BY <1>5 DEF SameData
<1>7. Binds(x, I, m, I, K, v)
  BY <1>2, <1>3, <1>6, BindsOld
<1>8. Binds(n, I, y, I, K, v)
  BY <1>4, <1>5, <1>7, SameDataMap, BindsSame
<1>9. Fine(m, r, I, R, P, D)
  BY <1>1, <1>3, SameFine
<1>10. Fine(y, r, I, R, P, D)
  BY <1>4, <1>9, SameFine
<1>11. r \notin D
  <2>1. D = {i \in I : y[i].red}
    BY <1>10 DEF Fine, RedsAre, RedIn
  <2>. QED
    BY <2>1, Zenon
<1>12. IsTree(y, r, I)
  BY <1>10, <1>11 DEF IsTree
<1>. QED
  BY <1>4, <1>8, <1>12

\* The next node of a walk.
LEMMA DescendEnds ==
  ASSUME NEW I, Room(I), NEW n, NEW rt, NEW K \in Int, NEW c \in I, NEW p, NEW pp, NEW ppp,
         NEW d \in Dir, NEW ld \in Dir, InsertWalk(n, rt, I, K, c, p, pp, ppp, d, ld),
         NEW h, TurnOf(h, n, rt, c, p, pp, ppp, ld), NEW e \in Dir, Before(e, K, n[c].key),
         NEW x, x = h.n, NEW y, y = Cut(x, I), NEW r, r = h.root, NEW j, j = x[c][e]
  PROVE  /\ Typed(y, I) /\ Emptied(y) /\ SameMap(n, I, y, I)
         /\ InsertWalk(y, r, I, K, j, c, p, pp, e, d)
         /\ r \in I /\ j \in I \cup {Nil}
<1>1. InsertWalk(x, r, I, K, j, c, p, pp, e, d)
  <2>1. InsertWalk(h.n, h.root, I, K, h.n[c][e], c, p, pp, e, d)
    BY TurnWalksOn
  <2>. QED
    BY <2>1
<1>2. Turned2(n, h, I)
  BY TurnGoesOn
<1>3. SameData(n, x, I)
  BY <1>2 DEF Turned2
<1>4. PICK R, P, D : Fine(x, r, I, R, P, D)
  BY <1>2 DEF Turned2
<1>5. Typed(x, I) /\ r \in I
  BY <1>4 DEF Fine, Shape
<1>6. Typed(y, I) /\ SameTree(x, y, I) /\ Emptied(y) /\ SameMap(x, I, y, I)
  BY <1>5, CutSame
<1>7. SameMap(n, I, y, I)
  <2>1. SameMap(n, I, x, I)
    BY <1>3, SameDataMap
  <2>. QED
    BY <2>1, <1>6 DEF SameMap
<1>8. InsertWalk(y, r, I, K, j, c, p, pp, e, d)
  BY <1>1, <1>6, WalkCopied
<1>9. j \in I \cup {Nil}
  BY <1>5, SonOf
<1>. QED
  BY <1>5, <1>6, <1>7, <1>8, <1>9

LEMMA WroteIn ==
  ASSUME NEW op, NEW old \in 0 .. ValMod - 1, NEW v \in Val, NEW w,
         w = IF op = "inc" THEN (old + v) % ValMod ELSE v
  PROVE  w \in 0 .. ValMod - 1
<1>1. ValMod \in Nat \ {0} /\ v \in 0 .. ValMod - 1
  BY ValuesIn
<1>2. (old + v) % ValMod \in 0 .. ValMod - 1
  BY <1>1
<1>. QED
  BY <1>1, <1>2

\* The step of the loop, as a turn of it.
LEMMA StepIsTurn == TurnOf(InsertStep, node, root, walk.c, walk.p, walk.pp, walk.ppp, walk.ld)
BY DEF TurnOf, InsertStep, DoubleRedFixed, ColoursPushedUp, Fixed, PushedUp

LEMMA TurnRecord ==
  ASSUME NEW h, NEW n, NEW rt, NEW c, NEW p, NEW pp, NEW ppp, NEW ld, TurnOf(h, n, rt, c, p, pp, ppp, ld)
  PROVE  h = [n |-> h.n, root |-> h.root]
<1>1. PICK m, rot : m = PushedUp(n, c) /\ rot = IF c = m[p][ld] THEN Rot1(m, pp, Other(ld), ld) ELSE Rot2(m, pp, Other(ld), ld)
  OBVIOUS
<1>2. h = IF pp # Nil /\ m[c].red /\ m[p].red
            THEN Rehang([n |-> rot.n, root |-> rt], ppp, pp, rot.top)
            ELSE [n |-> m, root |-> rt]
  BY <1>1 DEF TurnOf, Fixed
<1>3. PICK a, b : h = [n |-> a, root |-> b]
  BY <1>2 DEF Rehang
<1>. QED
  BY <1>3

\* The value of the node at c is set, in a tree.
TreeValueTo(t, h, c, w) == t = [h EXCEPT !.n[c].val = w]
StepWritten(t) == t = [InsertStep EXCEPT !.n[walk.c].val = Rewritten(@, call.val, TRUE)]
Written(t, m, r) == t.n = m /\ t.root = r

LEMMA TreeValueSet ==
  ASSUME NEW h, NEW a, NEW b, h = [n |-> a, root |-> b], NEW c, NEW w, NEW t,
         TreeValueTo(t, h, c, w), NEW m, ValueTo(a, m, c, w)
  PROVE  Written(t, m, b)
BY DEF ValueTo, TreeValueTo, Written

LEMMA StepIsWritten ==
  ASSUME NEW h, h = InsertStep, NEW w, w = Rewritten(h.n[walk.c].val, call.val, TRUE),
         NEW t, StepWritten(t)
  PROVE  TreeValueTo(t, h, walk.c, w)
BY DEF StepWritten, TreeValueTo

LEMMA StepRewritten ==
  ASSUME NEW h, h = InsertStep, NEW w, w = Rewritten(h.n[walk.c].val, call.val, TRUE),
         NEW x, x = h.n, NEW c, c = walk.c, NEW m, ValueTo(x, m, c, w), NEW t, StepWritten(t), NEW r, r = h.root
  PROVE  Written(t, m, r)
<1>1. TurnOf(h, node, root, walk.c, walk.p, walk.pp, walk.ppp, walk.ld)
  BY StepIsTurn
<1>2. h = [n |-> h.n, root |-> h.root]
  BY <1>1, TurnRecord
<1>3. h = [n |-> x, root |-> r]
  BY <1>2
<1>4. TreeValueTo(t, h, c, w)
  BY StepIsWritten
<1>. QED
  BY <1>3, <1>4, TreeValueSet

LEMMA InsertExistingStep ==
  ASSUME TreeInv, InsertExisting, ~IsRed(node, root)'
  PROVE  TreeInv' /\ Abstract!Calls
<1>1. /\ pc = "insert" /\ walk.c # Nil /\ call' = call /\ node[walk.c].key = call.key
      /\ pc' = "idle" /\ walk' = AtRest /\ res' = 1
  BY DEF InsertExisting, Reply
<1>2. PICK n, rt, s, I, K, v, c, p, pp, ppp, d, ld :
        /\ n = node /\ rt = root /\ s = size /\ I = Slots(size)
        /\ K = call.key /\ v = call.val /\ c = walk.c
        /\ p = walk.p /\ pp = walk.pp /\ ppp = walk.ppp /\ d = walk.d /\ ld = walk.ld
  OBVIOUS
<1>3. s \in 0 .. Cap /\ Room(I) /\ Contents = ContentsOf(n, I) /\ Typed(n, I)
  BY <1>2, InvRanges
<1>4. /\ call.op \in {"insert", "inc"} /\ K \in Key /\ K \in Int /\ v \in Val /\ d \in Dir /\ ld \in Dir
      /\ InsertWalk(n, rt, I, K, c, p, pp, ppp, d, ld) /\ c \in I /\ s # 0
      /\ call \in CallSet /\ call = [op |-> call.op, key |-> K, val |-> v]
  BY <1>1, <1>2, InsertNow
<1>5. PICK h : h = InsertStep
  OBVIOUS
<1>6. TurnOf(h, n, rt, c, p, pp, ppp, ld)
  BY <1>2, <1>5, StepIsTurn
<1>7. Turned2(n, h, I)
  BY <1>3, <1>4, <1>6, TurnGoesOn
<1>8. PICK w, x, r : w = Rewritten(h.n[c].val, call.val, TRUE) /\ x = h.n /\ r = h.root
  OBVIOUS
<1>9. PICK m : ValueTo(x, m, c, w)
  BY DEF ValueTo
<1>10. PICK y : y = Cut(m, I)
  OBVIOUS
<1>11. node' = y /\ root' = r /\ size' = s
  <2>1. PICK t : StepWritten(t)
    BY DEF StepWritten
  <2>2. Written(t, m, r)
    <3>1. w = Rewritten(h.n[walk.c].val, call.val, TRUE)
      BY <1>2, <1>8
    <3>2. c = walk.c /\ x = h.n /\ r = h.root
      BY <1>2, <1>8
    <3>. QED
      BY <1>5, <1>9, <2>1, <3>1, <3>2, StepRewritten
  <2>3. Become(t, size)
    BY <2>1 DEF InsertExisting, StepWritten
  <2>. QED
    BY <2>2, <2>3, <1>2, <1>10 DEF Become, Cut, Slots, Written
<1>12. n[c].key = K /\ n[c].val \in 0 .. ValMod - 1 /\ h.n[c].val = n[c].val
  <2>1. n[c].val \in 0 .. ValMod - 1
    BY <1>3, <1>4, KeyOf
  <2>2. h.n[c].val = n[c].val
    BY <1>4, <1>7 DEF Turned2, SameData
  <2>. QED
    BY <2>1, <2>2, <1>1, <1>2
<1>13. PICK op, old : op = call.op /\ old = n[c].val
  OBVIOUS
<1>14. w = IF op = "inc" THEN (old + v) % ValMod ELSE v
  BY <1>2, <1>8, <1>12, <1>13 DEF Rewritten
<1>15. w \in 0 .. ValMod - 1
  BY <1>4, <1>12, <1>13, <1>14, WroteIn
<1>16. ~y[r].red
  <2>1. PICK R, P, D : Fine(x, r, I, R, P, D)
    BY <1>7, <1>8 DEF Turned2
  <2>2. r \in I
    BY <2>1 DEF Fine, Shape
  <2>3. r # Nil
    BY <2>2, <1>3 DEF Room
  <2>4. ~IsRed(node', root')
    OBVIOUS
  <2>5. ~IsRed(y, r)
    BY <2>4, <1>11, Zenon
  <2>. QED
    BY <2>3, <2>5, Zenon DEF IsRed
<1>17. Typed(y, I) /\ Emptied(y) /\ IsTree(y, r, I) /\ Binds(n, I, y, I, K, w)
  <2>1. n[c].key = K /\ c \in I /\ Room(I)
    BY <1>3, <1>4, <1>12
  <2>2. x = h.n /\ r = h.root
    BY <1>8
  <2>. QED
    BY <2>1, <2>2, <1>7, <1>9, <1>10, <1>15, <1>16, RewriteEnds
<1>18. I = Slots(s)
  BY <1>2
<1>19. Resting(y, r, s)
  BY <1>4, <1>17, <1>18 DEF Resting
<1>20. TreeInv'
  <2>1. 1 \in 0 .. ValMod
    BY ValuesIn
  <2>2. Good(y, r, s, "idle", call, AtRest, 1)
    BY <1>3, <1>4, <1>17, <1>18, <1>19, <2>1, RestGood
  <2>. QED
    BY <1>1, <1>11, <2>2, NextInvIs
<1>21. PICK F, G : F = Contents /\ G = Contents'
  OBVIOUS
<1>22. DictOf(F, n, I)
  <2>1. PICK R, P, D : Fine(n, rt, I, R, P, D)
    BY <1>4 DEF InsertWalk
  <2>. QED
    BY <1>3, <1>21, <2>1, DictDuring
<1>23. DictOf(G, y, I)
  <2>1. G = ContentsOf(y, Slots(s))
    BY <1>11, <1>21, NextContents
  <2>. QED
    BY <2>1, <1>3, <1>18, <1>19, DictNow
<1>24. G = BoundIn(F, K, w)
  BY <1>17, <1>22, <1>23, BoundDict
<1>25. K \in DOMAIN F /\ F[K] = old
  <2>1. K = n[c].key /\ c \in I
    BY <1>4, <1>12
  <2>. QED
    BY <2>1, <1>13, <1>22, DictHas
<1>26. w = (IF op = "inc" /\ K \in DOMAIN Contents THEN (Contents[K] + v) % ValMod ELSE v)
       /\ Contents' = BoundIn(Contents, K, w)
  BY <1>14, <1>21, <1>24, <1>25
<1>27. call' = [op |-> op, key |-> K, val |-> v] /\ op \in {"insert", "inc"}
  BY <1>1, <1>4, <1>13
<1>28. Abstract!Calls
  BY <1>1, <1>4, <1>26, <1>27, AnswersWrite
<1>. QED
  BY <1>20, <1>28

LEMMA InsertDescendStep ==
  ASSUME TreeInv, InsertDescend
  PROVE  TreeInv' /\ UNCHANGED Abstract!vars
<1>1. /\ pc = "insert" /\ walk.c # Nil /\ call' = call /\ pc' = pc /\ res' = res
      /\ node[walk.c].key # call.key
  BY DEF InsertDescend
<1>2. PICK n, rt, s, I, K, c, p, pp, ppp, d, ld :
        /\ n = node /\ rt = root /\ s = size /\ I = Slots(size)
        /\ K = call.key /\ c = walk.c
        /\ p = walk.p /\ pp = walk.pp /\ ppp = walk.ppp /\ d = walk.d /\ ld = walk.ld
  OBVIOUS
<1>3. s \in 0 .. Cap /\ Room(I) /\ Contents = ContentsOf(n, I) /\ Typed(n, I)
  BY <1>2, InvRanges
<1>4. /\ call.op \in {"insert", "inc"} /\ K \in Key /\ K \in Int /\ d \in Dir /\ ld \in Dir
      /\ InsertWalk(n, rt, I, K, c, p, pp, ppp, d, ld) /\ c \in I /\ s # 0 /\ s # Cap
      /\ call \in CallSet /\ call.val \in Val /\ res \in 0 .. ValMod
      /\ p \in I \cup {Nil, Aux} /\ pp \in I \cup {Nil, Aux}
  BY <1>1, <1>2, InsertNow
<1>5. PICK h : h = InsertStep
  OBVIOUS
<1>6. TurnOf(h, n, rt, c, p, pp, ppp, ld)
  BY <1>2, <1>5, StepIsTurn
<1>7. PICK e \in Dir : e = IF n[c].key < K THEN "r" ELSE "l"
  BY DEF Dir
<1>8. Before(e, K, n[c].key)
  <2>1. n[c].key \in Int
    BY <1>3, <1>4, KeyOf
  <2>. QED
    BY <2>1, <1>1, <1>2, <1>4, <1>7 DEF Before
<1>9. PICK x, y, r, j, w : x = h.n /\ y = Cut(x, I) /\ r = h.root /\ j = x[c][e] /\ w = walk'
  OBVIOUS
<1>10. node' = y /\ root' = r /\ size' = s
  <2>1. Become(h, size)
    BY <1>5 DEF InsertDescend
  <2>. QED
    BY <2>1, <1>2, <1>9 DEF Become, Cut, Slots
<1>11. w = [c |-> j, p |-> c, pp |-> p, ppp |-> pp, d |-> e, ld |-> d, found |-> Nil]
  BY <1>2, <1>5, <1>7, <1>9 DEF InsertDescend
<1>12. /\ Typed(y, I) /\ Emptied(y) /\ SameMap(n, I, y, I)
       /\ InsertWalk(y, r, I, K, j, c, p, pp, e, d)
       /\ r \in I /\ j \in I \cup {Nil}
  BY <1>3, <1>4, <1>6, <1>8, <1>9, DescendEnds
<1>13. w \in [c : I \cup {Nil}, p : I \cup {Nil, Aux}, pp : I \cup {Nil, Aux},
              ppp : I \cup {Nil, Aux}, d : Dir, ld : Dir, found : I \cup {Nil}]
  BY <1>4, <1>11, <1>12
<1>14. I = Slots(s) /\ K = call.key
  BY <1>2
<1>15. Ranges(y, r, s, "insert", call, w, res)
  BY <1>3, <1>4, <1>12, <1>13, <1>14 DEF Ranges, CallSet
<1>16. Inserting(y, r, s, call, w)
  <2>1. w.c = j /\ w.p = c /\ w.pp = p /\ w.ppp = pp /\ w.d = e /\ w.ld = d
    BY <1>11
  <2>2. InsertWalk(y, r, Slots(s), call.key, w.c, w.p, w.pp, w.ppp, w.d, w.ld)
    BY <2>1, <1>12, <1>14
  <2>. QED
    BY <2>2, <1>4, <1>12, <1>14 DEF Inserting
<1>17. TreeInv'
  <2>1. Good(y, r, s, "insert", call, w, res)
    BY <1>15, <1>16 DEF Good
  <2>. QED
    BY <2>1, <1>1, <1>9, <1>10, NextInvIs
<1>18. PICK F, G : F = Contents /\ G = Contents'
  OBVIOUS
<1>19. DictOf(F, n, I)
  <2>1. PICK R, P, D : Fine(n, rt, I, R, P, D)
    BY <1>4 DEF InsertWalk
  <2>. QED
    BY <1>3, <1>18, <2>1, DictDuring
<1>20. DictOf(G, y, I)
  <2>1. PICK R, P, D : Fine(y, r, I, R, P, D)
    BY <1>12 DEF InsertWalk
  <2>2. G = ContentsOf(y, I)
    BY <1>10, <1>14, <1>18, NextContents
  <2>. QED
    BY <1>3, <2>1, <2>2, DictDuring
<1>21. Contents' = Contents
  BY <1>12, <1>18, <1>19, <1>20, SameDict
<1>22. UNCHANGED Abstract!vars
  BY <1>1, <1>21, GoesUnseen
<1>. QED
  BY <1>17, <1>22

----------------------------------------------------------------------------
(* Deletions keep the invariant.                                           *)

\* Nothing is left.
LEMMA CutNone ==
  ASSUME NEW I, Room(I), NEW n, Typed(n, I), NEW J, J = Slots(0), NEW y, y = Cut(n, J)
  PROVE  Typed(y, J) /\ Resting(y, Nil, 0) /\ J = {} /\ ContentsOf(y, J) = << >>
<1>1. J = {}
  BY DEF Slots
<1>2. CutTo(n, y, J)
  BY <1>1, CutTyped
<1>3. Typed(y, J) /\ Emptied(y)
  BY <1>2 DEF CutTo, Emptied
<1>4. ContentsOf(y, J) = << >>
  BY <1>1, EmptyDict
<1>. QED
  BY <1>1, <1>3, <1>4 DEF Resting

LEMMA NoTree ==
  ASSUME TreeInv, size = 0
  PROVE  DOMAIN Contents = {} /\ Contents = CutFrom(Contents, call'.key)
<1>1. Contents = ContentsOf(node, Slots(size))
  BY InvRanges
<1>2. Slots(size) = {}
  BY DEF Slots
<1>3. PICK F, n, I, K : F = Contents /\ n = node /\ I = Slots(size) /\ K = call'.key
  OBVIOUS
<1>4. DOMAIN F = {}
  BY <1>1, <1>2, <1>3 DEF ContentsOf
<1>5. F = [k \in DOMAIN F |-> F[k]]
  BY <1>1, <1>3 DEF ContentsOf
<1>6. K \notin DOMAIN F
  BY <1>4
<1>7. CutFrom(F, K) = F
  BY <1>5, <1>6, NothingCut
<1>. QED
  BY <1>3, <1>4, <1>7

\* A deletion from an empty tree.
LEMMA DeleteNone ==
  ASSUME TreeInv, NEW k \in Key, pc = "idle", size = 0,
         call' = [op |-> "delete", key |-> k, val |-> 0], Reply(0),
         node' = node, root' = root, size' = size
  PROVE  TreeInv' /\ Abstract!Calls
<1>1. pc' = "idle" /\ walk' = AtRest /\ res' = 0
  BY DEF Reply
<1>2. size \in 0 .. Cap /\ Typed(node, Slots(size)) /\ Contents = ContentsOf(node, Slots(size))
  BY InvRanges
<1>3. Resting(node, root, size)
  BY AtRestNow
<1>4. TreeInv'
  <2>1. call' \in CallSet
    BY CallMade
  <2>2. 0 \in 0 .. ValMod
    BY ValuesIn
  <2>3. Good(node, root, size, "idle", call', AtRest, 0)
    BY <1>2, <1>3, <2>1, <2>2, RestGood
  <2>. QED
    BY <1>1, <2>3, NextInvIs
<1>5. call'.key = k
  OBVIOUS
<1>6. DOMAIN Contents = {} /\ Contents = CutFrom(Contents, k)
  BY <1>5, NoTree
<1>7. Contents' = Contents
  BY <1>2, NextContents
<1>8. res' = (IF k \in DOMAIN Contents THEN 1 ELSE 0) /\ Contents' = CutFrom(Contents, k)
  BY <1>1, <1>6, <1>7
<1>9. Abstract!Calls
  BY <1>1, <1>8, AnswersDelete
<1>. QED
  BY <1>4, <1>9

\* A walk starts, under Aux.
LEMMA DescentStep ==
  ASSUME TreeInv, NEW k \in Key, pc = "idle", size # 0,
         call' = [op |-> "delete", key |-> k, val |-> 0],
         pc' = "delete", node' = SetSon(node, Aux, "r", root),
         walk' = [AtRest EXCEPT !.c = root, !.p = Aux, !.d = "r"], res' = 0,
         root' = root, size' = size
  PROVE  TreeInv' /\ Abstract!Calls
<1>1. PICK n, rt, s, I, w, c2, m :
        n = node /\ rt = root /\ s = size /\ I = Slots(size) /\ w = walk' /\ c2 = call' /\ m = node'
  OBVIOUS
<1>2. s \in 0 .. Cap /\ Room(I) /\ Typed(n, I) /\ Contents = ContentsOf(n, I)
  BY <1>1, InvRanges
<1>3. Emptied(n) /\ IsTree(n, rt, I)
  BY <1>1, AtRestNow DEF Resting
<1>4. k \in Int /\ rt \in I
  BY <1>3, ValuesIn, TreeFacts
<1>5. m = SetSon(n, Aux, "r", rt)
  BY <1>1
<1>6. AuxSet(n, m, I, rt)
  BY <1>2, <1>4, <1>5, AuxOverRoot
<1>7. n[Aux].l = Nil
  BY <1>3 DEF Emptied, NoNode
<1>8. DelWalk(m, rt, I, k, rt, Aux, Nil, "r", Nil)
  BY <1>2, <1>3, <1>4, <1>6, <1>7, DeleteStarts
<1>9. w.c = rt /\ w.p = Aux /\ w.pp = Nil /\ w.d = "r" /\ w.found = Nil
  BY <1>1 DEF AtRest
<1>10. c2.op = "delete" /\ c2.key = k /\ c2.val = 0 /\ c2 \in CallSet
  BY <1>1, CallMade
<1>11. Deleting(m, rt, s, c2, w)
  BY <1>1, <1>8, <1>9, <1>10 DEF Deleting
<1>12. w \in [c : I \cup {Nil}, p : I \cup {Nil, Aux}, pp : I \cup {Nil, Aux},
              ppp : I \cup {Nil, Aux}, d : Dir, ld : Dir, found : I \cup {Nil}]
  BY <1>1, <1>4 DEF AtRest, Dir
<1>13. Typed(m, I)
  BY <1>6 DEF AuxSet
<1>14. 0 \in 0 .. ValMod
  BY ValuesIn
<1>15. Ranges(m, rt, s, "delete", c2, w, 0)
  BY <1>1, <1>2, <1>4, <1>10, <1>12, <1>13, <1>14 DEF Ranges, CallSet
<1>16. TreeInv'
  <2>1. Good(m, rt, s, "delete", c2, w, 0)
    BY <1>11, <1>15 DEF Good
  <2>. QED
    BY <1>1, <2>1, NextInvIs
<1>17. SameMap(n, I, m, I)
  <2>1. PICK d \in Dir : d = "r"
    BY DEF Dir
  <2>2. m = SetSon(n, Aux, d, rt) /\ rt \in I \cup {Nil} /\ Aux \in I \cup {Aux}
    BY <1>4, <1>5, <2>1
  <2>3. SameData(n, m, I)
    BY <1>2, <2>2, SetSonEffect
  <2>. QED
    BY <2>3, SameDataMap
<1>18. PICK F, G : F = Contents /\ G = Contents'
  OBVIOUS
<1>19. PICK R, P, D : Fine(n, rt, I, R, P, D)
  BY <1>3 DEF IsTree
<1>20. PICK R2, P2, D2 : Fine(m, rt, I, R2, P2, D2)
  BY <1>8 DEF DelWalk
<1>21. DictOf(F, n, I)
  BY <1>2, <1>18, <1>19, DictDuring
<1>22. DictOf(G, m, I)
  <2>1. G = ContentsOf(m, I)
    BY <1>1, <1>18, NextContents
  <2>. QED
    BY <2>1, <1>2, <1>20, DictDuring
<1>23. Contents' = Contents
  BY <1>17, <1>18, <1>21, <1>22, SameDict
<1>24. Abstract!Calls
  BY <1>23, Asks
<1>. QED
  BY <1>16, <1>24

LEMMA StartDeleteStep ==
  ASSUME TreeInv, NEW k \in Key, StartDelete(k)
  PROVE  TreeInv' /\ Abstract!Calls
<1>1. pc = "idle" /\ call' = [op |-> "delete", key |-> k, val |-> 0] /\ size \in Nat
  BY InvRanges DEF StartDelete
<1>2. CASE size = 0 /\ Reply(0) /\ UNCHANGED <<node, root, size>>
  BY <1>1, <1>2, DeleteNone
<1>3. CASE /\ size > 0
           /\ pc' = "delete" /\ node' = SetSon(node, Aux, "r", root)
           /\ walk' = [AtRest EXCEPT !.c = root, !.p = Aux, !.d = "r"] /\ res' = 0
           /\ UNCHANGED <<root, size>>
  <2>1. size # 0
    BY <1>1, <1>3
  <2>. QED
    BY <1>1, <1>3, <2>1, DescentStep
<1>. QED
  BY <1>2, <1>3 DEF StartDelete

\* What TreeInv says during a deletion.
LEMMA DeleteNow ==
  ASSUME TreeInv, pc = "delete"
  PROVE  /\ size # 0 /\ call.op = "delete" /\ call.key \in Key /\ call.val = 0 /\ call.key \in Int
         /\ DelWalk(node, root, Slots(size), call.key, walk.c, walk.p, walk.pp, walk.d, walk.found)
         /\ walk.d \in Dir /\ call \in CallSet /\ res \in 0 .. ValMod
         /\ call = [op |-> "delete", key |-> call.key, val |-> 0]
<1>1. Deleting(node, root, size, call, walk) /\ Ranges(node, root, size, pc, call, walk, res)
  BY DEF TreeInv, Good
<1>2. /\ size # 0 /\ call.op = "delete" /\ call.key \in Key /\ call.val = 0
      /\ DelWalk(node, root, Slots(size), call.key, walk.c, walk.p, walk.pp, walk.d, walk.found)
  BY <1>1 DEF Deleting
<1>3. walk.d \in Dir /\ call \in CallSet /\ res \in 0 .. ValMod
  BY <1>1 DEF Ranges, CallSet
<1>4. call = [op |-> call.op, key |-> call.key, val |-> call.val]
  BY <1>3 DEF CallSet
<1>5. call.key \in Int
  BY <1>2, ValuesIn
<1>. QED
  BY <1>2, <1>3, <1>4, <1>5

LEMMA DelFacts ==
  ASSUME NEW I, NEW n, NEW rt, NEW K, NEW c, NEW p, NEW pp, NEW wd, NEW f,
         DelWalk(n, rt, I, K, c, p, pp, wd, f)
  PROVE  /\ c \in I /\ rt \in I /\ Typed(n, I) /\ (f # Nil => f \in I /\ n[f].key = K /\ n[c].key # K)
         /\ \E R, P, D : Fine(n, rt, I, R, P, D)
<1>1. PICK R, P, D : Fine(n, rt, I, R, P, D) /\ DelPath(n, I, R, K, c, f)
  BY DEF DelWalk
<1>2. c \in I /\ (f # Nil => f \in I /\ n[f].key = K /\ \A k \in R[c] : k < K)
  BY <1>1 DEF DelPath
<1>3. Typed(n, I) /\ Shape(n, rt, I, R, P)
  BY <1>1 DEF Fine
<1>4. n[c].key \in R[c] /\ rt \in I /\ R[c] \subseteq Int
  BY <1>2, <1>3 DEF Shape
<1>5. ASSUME f # Nil PROVE n[c].key # K
  <2>1. n[c].key < K /\ n[c].key \in Int
    BY <1>2, <1>4, <1>5
  <2>. QED
    BY <2>1
<1>. QED
  BY <1>1, <1>2, <1>3, <1>4, <1>5

\* The side a deletion goes to.
Downward(d, n, c, K) == Before(d, K, n[c].key) \/ (K = n[c].key /\ d = "l")

LEMMA DownwardIs ==
  ASSUME NEW n, NEW c, n[c].key \in Int, NEW K \in Int, NEW d, d = IF n[c].key < K THEN "r" ELSE "l"
  PROVE  d \in Dir /\ Downward(d, n, c, K) /\ (n[c].key # K => Before(d, K, n[c].key))
BY DEF Dir, Before, Downward

LEMMA DelTurned ==
  ASSUME NEW I, Room(I), NEW n, NEW rt, NEW K \in Int, NEW c, NEW p, NEW pp, NEW wd \in Dir, NEW f,
         DelWalk(n, rt, I, K, c, p, pp, wd, f), NEW d \in Dir, Downward(d, n, c, K),
         NEW t, t = Pushed(n, rt, c, p, pp, wd, d)
  PROVE  DeleteDone(n, t, I, K, c, d, f)
<1>1. PICK R, P, D : /\ Fine(n, rt, I, R, P, D)
                     /\ DelWin(n, rt, P, D, I, c, p, pp, wd)
                     /\ DelPath(n, I, R, K, c, f)
  BY DEF DelWalk
<1>2. Before(d, K, n[c].key) \/ (K = n[c].key /\ d = "l")
  BY DEF Downward
<1>. QED
  BY <1>1, <1>2, DeleteTurn

LEMMA PushIs ==
  ASSUME NEW d
  PROVE  RedPushedDown(d) = Pushed(node, root, walk.c, walk.p, walk.pp, walk.d, d)
BY DEF RedPushedDown, Pushed, SiblingLends, Lent

LEMMA DoneFacts ==
  ASSUME NEW I, Room(I), NEW n, NEW t, NEW K, NEW c \in I, NEW d \in Dir, NEW f,
         DeleteDone(n, t, I, K, c, d, f), NEW m, m = t.n
  PROVE  /\ SameMap(n, I, m, I) /\ Typed(m, I) /\ t.root \in I
         /\ t.p \in I \cup {Nil, Aux} /\ m[c][d] \in I \cup {Nil} /\ (f # Nil => f \in I)
         /\ m[c].key = n[c].key
<1>1. PICK R2, P2, D2 :
        /\ SameData(n, m, I) /\ Fine(m, t.root, I, R2, P2, D2)
        /\ t.p = (IF c = t.root THEN Aux ELSE P2[c])
        /\ DelPath(m, I, R2, K, c, f)
  BY DEF DeleteDone
<1>2. Typed(m, I) /\ t.root \in I /\ P2 \in [I -> I \cup {Nil}]
  BY <1>1 DEF Fine, Shape
<1>3. SameMap(n, I, m, I)
  BY <1>1, SameDataMap
<1>4. t.p \in I \cup {Nil, Aux}
  BY <1>1, <1>2
<1>5. m[c][d] \in I \cup {Nil}
  BY <1>2, SonOf
<1>6. f # Nil => f \in I
  BY <1>1 DEF DelPath
<1>7. m[c].key = n[c].key
  BY <1>1 DEF SameData
<1>. QED
  BY <1>2, <1>3, <1>4, <1>5, <1>6, <1>7

LEMMA DeleteDescendStep ==
  ASSUME TreeInv, DeleteDescend
  PROVE  TreeInv' /\ UNCHANGED Abstract!vars
<1>1. PICK n, rt, s, I, K, c, p, pp, wd, f, d, t :
        /\ n = node /\ rt = root /\ s = size /\ I = Slots(size) /\ K = call.key
        /\ c = walk.c /\ p = walk.p /\ pp = walk.pp /\ wd = walk.d /\ f = walk.found
        /\ d = NextDir /\ t = RedPushedDown(NextDir)
  OBVIOUS
<1>2. /\ pc = "delete" /\ t.n[c][d] # Nil /\ node' = t.n /\ root' = t.root
      /\ walk' = [c |-> t.n[c][d], p |-> c, pp |-> t.p, ppp |-> Nil, d |-> d, ld |-> "l", found |-> FoundNow]
      /\ size' = size /\ pc' = pc /\ call' = call /\ res' = res
  BY <1>1 DEF DeleteDescend
<1>3. s \in 0 .. Cap /\ Room(I) /\ Contents = ContentsOf(n, I) /\ Typed(n, I)
  BY <1>1, InvRanges
<1>4. /\ s # 0 /\ K \in Key /\ K \in Int /\ wd \in Dir /\ call \in CallSet /\ res \in 0 .. ValMod
      /\ call.op = "delete" /\ call.val = 0
      /\ DelWalk(n, rt, I, K, c, p, pp, wd, f)
  BY <1>1, <1>2, DeleteNow
<1>5. c \in I
  BY <1>4, DelFacts
<1>6. d \in Dir /\ Downward(d, n, c, K)
  <2>1. n[c].key \in Int
    BY <1>3, <1>5, KeyOf
  <2>2. d = IF n[c].key < K THEN "r" ELSE "l"
    BY <1>1 DEF NextDir
  <2>. QED
    BY <2>1, <2>2, <1>4, DownwardIs
<1>7. t = Pushed(n, rt, c, p, pp, wd, d)
  BY <1>1, PushIs
<1>8. DeleteDone(n, t, I, K, c, d, f)
  BY <1>3, <1>4, <1>6, <1>7, DelTurned
<1>9. PICK m, r, j, g, w : m = t.n /\ r = t.root /\ j = t.n[c][d] /\ g = FoundNow /\ w = walk'
  OBVIOUS
<1>10. /\ SameMap(n, I, m, I) /\ Typed(m, I) /\ r \in I
       /\ t.p \in I \cup {Nil, Aux} /\ j \in I \cup {Nil} /\ (f # Nil => f \in I)
  BY <1>3, <1>5, <1>6, <1>8, <1>9, DoneFacts
<1>11. g = (IF n[c].key = K THEN c ELSE f)
  BY <1>1, <1>9 DEF FoundNow, Matches
<1>12. DelWalk(m, r, I, K, j, c, t.p, d, g)
  <2>1. j = t.n[c][d] /\ j # Nil /\ m = t.n /\ r = t.root
    BY <1>2, <1>9
  <2>2. Before(d, K, n[c].key) \/ (K = n[c].key /\ d = "l")
    BY <1>6 DEF Downward
  <2>3. DelWalk(t.n, t.root, I, K, j, c, t.p, d, g)
    BY <2>1, <2>2, <1>3, <1>4, <1>5, <1>6, <1>8, <1>11, DeleteGoesOn
  <2>. QED
    BY <2>1, <2>3
<1>13. w = [c |-> j, p |-> c, pp |-> t.p, ppp |-> Nil, d |-> d, ld |-> "l", found |-> g]
  BY <1>2, <1>9
<1>14. w \in [c : I \cup {Nil}, p : I \cup {Nil, Aux}, pp : I \cup {Nil, Aux},
              ppp : I \cup {Nil, Aux}, d : Dir, ld : Dir, found : I \cup {Nil}]
  <2>1. g \in I \cup {Nil} /\ "l" \in Dir
    BY <1>5, <1>10, <1>11 DEF Dir
  <2>. QED
    BY <2>1, <1>5, <1>6, <1>10, <1>13
<1>15. I = Slots(s) /\ K = call.key
  BY <1>1
<1>16. Ranges(m, r, s, "delete", call, w, res)
  BY <1>3, <1>4, <1>10, <1>14, <1>15 DEF Ranges, CallSet
<1>17. Deleting(m, r, s, call, w)
  <2>1. w.c = j /\ w.p = c /\ w.pp = t.p /\ w.d = d /\ w.found = g
    BY <1>13
  <2>2. DelWalk(m, r, Slots(s), call.key, w.c, w.p, w.pp, w.d, w.found)
    BY <2>1, <1>12, <1>15
  <2>. QED
    BY <2>2, <1>4, <1>15 DEF Deleting
<1>18. TreeInv'
  <2>1. Good(m, r, s, "delete", call, w, res)
    BY <1>16, <1>17 DEF Good
  <2>2. node' = m /\ root' = r /\ size' = s /\ pc' = "delete" /\ call' = call /\ walk' = w /\ res' = res
    BY <1>1, <1>2, <1>9
  <2>. QED
    BY <2>1, <2>2, NextInvIs
<1>19. PICK F, G : F = Contents /\ G = Contents'
  OBVIOUS
<1>20. DictOf(F, n, I)
  <2>1. PICK R, P, D : Fine(n, rt, I, R, P, D)
    BY <1>4, DelFacts
  <2>. QED
    BY <1>3, <1>19, <2>1, DictDuring
<1>21. DictOf(G, m, I)
  <2>1. PICK R, P, D : Fine(m, r, I, R, P, D)
    BY <1>12, DelFacts
  <2>2. G = ContentsOf(m, I)
    BY <1>1, <1>2, <1>9, <1>19, NextContents
  <2>. QED
    BY <1>3, <2>1, <2>2, DictDuring
<1>22. Contents' = Contents
  BY <1>10, <1>19, <1>20, <1>21, SameDict
<1>23. UNCHANGED Abstract!vars
  BY <1>2, <1>22, GoesUnseen
<1>. QED
  BY <1>18, <1>23

\* A deletion returns.
LEMMA DeleteReturns ==
  ASSUME TreeInv, pc = "delete", call' = call,
         NEW s \in 0 .. Cap, NEW y, Typed(y, Slots(s)), NEW r, Resting(y, r, s),
         NEW b \in {0, 1}, node' = y, root' = r, size' = s, Reply(b),
         Contents' = CutFrom(Contents, call.key),
         b = (IF call.key \in DOMAIN Contents THEN 1 ELSE 0)
  PROVE  TreeInv' /\ Abstract!Calls
<1>1. pc' = "idle" /\ walk' = AtRest /\ res' = b
  BY DEF Reply
<1>2. /\ call.key \in Key /\ call \in CallSet
      /\ call = [op |-> "delete", key |-> call.key, val |-> 0]
  BY DeleteNow
<1>3. b \in 0 .. ValMod
  BY ValuesIn
<1>4. TreeInv'
  <2>1. Good(y, r, s, "idle", call, AtRest, b)
    BY <1>2, <1>3, RestGood
  <2>2. TreeInv' = Good(y, r, s, "idle", call, AtRest, b)
    BY <1>1, NextInvIs
  <2>. QED
    BY <2>1, <2>2
<1>5. Abstract!Calls
  <2>1. PICK k : k = call.key
    OBVIOUS
  <2>2. k \in Key /\ call' = [op |-> "delete", key |-> k, val |-> 0]
    BY <1>2, <2>1
  <2>3. res' = (IF k \in DOMAIN Contents THEN 1 ELSE 0) /\ Contents' = CutFrom(Contents, k)
    BY <1>1, <2>1
  <2>. QED
    BY <1>1, <2>2, <2>3, AnswersDelete
<1>. QED
  BY <1>4, <1>5

LEMMA OneSlot ==
  ASSUME NEW n, NEW I, I = {0}, NEW K, n[0].key = K, NEW J, J = {}, NEW y
  PROVE  Without(n, I, y, J, K)
BY DEF Without, Holds

\* The last node goes.
LEMMA DeleteLastStep ==
  ASSUME TreeInv, DeleteLast
  PROVE  TreeInv' /\ Abstract!Calls
<1>1. pc = "delete" /\ size = 1 /\ node[walk.c].key = call.key /\ Reply(1) /\ call' = call
  BY DEF DeleteLast, Matches
<1>2. PICK n, rt, I, K, c, J, y :
        /\ n = node /\ rt = root /\ I = Slots(size) /\ K = call.key /\ c = walk.c
        /\ J = Slots(0) /\ y = Cut(n, J)
  OBVIOUS
<1>3. size \in 0 .. Cap /\ Room(I) /\ Typed(n, I) /\ Contents = ContentsOf(n, I)
  BY <1>2, InvRanges
<1>4. DelWalk(n, rt, I, K, c, walk.p, walk.pp, walk.d, walk.found)
  BY <1>1, <1>2, DeleteNow
<1>5. c \in I /\ \E R, P, D : Fine(n, rt, I, R, P, D)
  BY <1>4, DelFacts
<1>6. I = {0} /\ c = 0 /\ n[c].key = K
  BY <1>1, <1>2, <1>5 DEF Slots
<1>7. node' = y /\ root' = Nil /\ size' = 0
  <2>1. Become([n |-> node, root |-> Nil], 0)
    BY DEF DeleteLast
  <2>. QED
    BY <2>1, <1>2 DEF Become, Cut, Slots
<1>8. Typed(y, J) /\ Resting(y, Nil, 0) /\ J = {} /\ ContentsOf(y, J) = << >>
  BY <1>2, <1>3, CutNone
<1>9. PICK F, G : F = Contents /\ G = ContentsOf(y, J)
  OBVIOUS
<1>10. DictOf(F, n, I)
  <2>1. PICK R, P, D : Fine(n, rt, I, R, P, D)
    BY <1>5
  <2>. QED
    BY <1>3, <1>9, <2>1, DictDuring
<1>11. DictOf(G, y, J)
  BY <1>8, <1>9, EmptyDict, ContentsDict
<1>12. Without(n, I, y, J, K)
  BY <1>6, <1>8, OneSlot
<1>13. G = CutFrom(F, K)
  BY <1>10, <1>11, <1>12, WithoutDict
<1>14. K \in DOMAIN F
  BY <1>5, <1>6, <1>10, DictHas
<1>15. Contents' = CutFrom(Contents, call.key) /\ call.key \in DOMAIN Contents
  <2>1. Contents' = ContentsOf(y, J)
    BY <1>2, <1>7, NextContents
  <2>. QED
    BY <2>1, <1>2, <1>9, <1>13, <1>14
<1>16. Typed(y, Slots(0)) /\ 0 \in 0 .. Cap
  BY <1>2, <1>8, RBTreeAssumption
<1>. QED
  BY <1>1, <1>7, <1>8, <1>15, <1>16, DeleteReturns

\* The end of a walk that has not met the key.
LEMMA BottomWithout ==
  ASSUME TreeInv, pc = "delete", call' = call, NEW d, d = NextDir, NEW t, t = RedPushedDown(d),
         t.n[walk.c][d] = Nil, FoundNow = Nil,
         Become(Blackened([n |-> t.n, root |-> t.root]), size), Reply(0)
  PROVE  TreeInv' /\ Abstract!Calls
<1>1. PICK n, rt, s, I, K, c, p, pp, wd, f :
        /\ n = node /\ rt = root /\ s = size /\ I = Slots(size) /\ K = call.key
        /\ c = walk.c /\ p = walk.p /\ pp = walk.pp /\ wd = walk.d /\ f = walk.found
  OBVIOUS
<1>2. s \in 0 .. Cap /\ Room(I) /\ Contents = ContentsOf(n, I) /\ Typed(n, I)
  BY <1>1, InvRanges
<1>3. /\ s # 0 /\ K \in Key /\ K \in Int /\ wd \in Dir
      /\ DelWalk(n, rt, I, K, c, p, pp, wd, f)
  BY <1>1, DeleteNow
<1>4. c \in I /\ \E R, P, D : Fine(n, rt, I, R, P, D)
  BY <1>3, DelFacts
<1>5. n[c].key # K /\ f = Nil
  <2>1. c # Nil
    BY <1>2, <1>4 DEF Room
  <2>. QED
    BY <2>1, <1>1 DEF FoundNow, Matches
<1>6. d \in Dir /\ Downward(d, n, c, K) /\ Before(d, K, n[c].key)
  <2>1. n[c].key \in Int
    BY <1>2, <1>4, KeyOf
  <2>2. d = IF n[c].key < K THEN "r" ELSE "l"
    BY <1>1 DEF NextDir
  <2>. QED
    BY <2>1, <2>2, <1>3, <1>5, DownwardIs
<1>7. DeleteDone(n, t, I, K, c, d, Nil)
  <2>1. t = Pushed(n, rt, c, p, pp, wd, d)
    BY <1>1, PushIs
  <2>2. DeleteDone(n, t, I, K, c, d, f)
    BY <1>2, <1>3, <1>6, <2>1, DelTurned
  <2>. QED
    BY <2>2, <1>5
<1>8. PICK m, r, y : m = SetRed(t.n, t.root, FALSE) /\ r = t.root /\ y = Cut(m, I)
  OBVIOUS
<1>9. t.n[c][d] = Nil
  BY <1>1
<1>10. IsTree(m, r, I) /\ SameData(n, m, I) /\ Typed(m, I) /\ \A i \in I : n[i].key # K
  <2>1. Before(d, K, n[c].key)
    BY <1>6
  <2>2. IsTree(m, t.root, I) /\ SameData(n, m, I) /\ Typed(m, I) /\ \A i \in I : n[i].key # K
    BY <1>2, <1>3, <1>4, <1>6, <1>7, <1>8, <1>9, <2>1, EndsWithout
  <2>. QED
    BY <2>2, <1>8
<1>11. Typed(y, I) /\ SameTree(m, y, I) /\ Emptied(y) /\ SameMap(m, I, y, I)
  BY <1>2, <1>8, <1>10, CutSame
<1>12. IsTree(y, r, I)
  BY <1>10, <1>11, SameIsTree
<1>13. Resting(y, r, s)
  BY <1>1, <1>3, <1>11, <1>12 DEF Resting
<1>14. node' = y /\ root' = r /\ size' = s
  BY <1>1, <1>8 DEF Become, Cut, Slots, Blackened
<1>15. PICK F, G : F = Contents /\ G = Contents'
  OBVIOUS
<1>16. DictOf(F, n, I)
  <2>1. PICK R, P, D : Fine(n, rt, I, R, P, D)
    BY <1>4
  <2>. QED
    BY <1>2, <1>15, <2>1, DictDuring
<1>17. DictOf(G, y, I)
  <2>1. G = ContentsOf(y, I)
    BY <1>1, <1>14, <1>15, NextContents
  <2>2. OneEach(y, I)
    BY <1>2, <1>12, TreeOneEach
  <2>. QED
    BY <2>1, <2>2, ContentsDict
<1>18. SameMap(n, I, y, I)
  <2>1. SameMap(n, I, m, I)
    BY <1>10, SameDataMap
  <2>. QED
    BY <2>1, <1>11 DEF SameMap
<1>19. G = F
  BY <1>16, <1>17, <1>18, SameDict
<1>20. K \notin DOMAIN F
  BY <1>10, <1>16, DictHasNot
<1>21. CutFrom(F, K) = F
  <2>1. F = [k \in DOMAIN F |-> F[k]]
    BY <1>16 DEF DictOf
  <2>. QED
    BY <2>1, <1>20, NothingCut
<1>22. Contents' = CutFrom(Contents, call.key) /\ call.key \notin DOMAIN Contents
  BY <1>1, <1>15, <1>19, <1>20, <1>21
<1>23. Typed(y, Slots(s))
  BY <1>1, <1>11
<1>. QED
  BY <1>2, <1>13, <1>14, <1>22, <1>23, DeleteReturns
\* The root of a tree that is not cut to nothing.
LEMMA EndedRests ==
  ASSUME NEW s \in 0 .. Cap, s # 0, NEW z, NEW r, Ended(z, r, Slots(s))
  PROVE  Resting(z, r, s) /\ Typed(z, Slots(s)) /\ OneEach(z, Slots(s))
<1>1. IsTree(z, r, Slots(s)) /\ Emptied(z)
  BY DEF Ended
<1>2. Typed(z, Slots(s))
  BY <1>1, TreeFacts
<1>3. Room(Slots(s))
  BY SlotsRoom
<1>4. OneEach(z, Slots(s))
  BY <1>1, <1>3, TreeOneEach
<1>. QED
  BY <1>1, <1>2, <1>4 DEF Resting

\* What is taken out at the end of a walk that has met the key.
LEMMA SplicedIs ==
  ASSUME NEW t, t = RedPushedDown(NextDir)
  PROVE  Spliced = Excised(t.n, t.root, walk.c, t.p, FoundNow)
BY DEF Spliced, Excised

LEMMA BlackCutIs ==
  ASSUME NEW h, NEW J, NEW s, J = Slots(s), Become(Blackened(h), s)
  PROVE  node' = BlackCut(h.n, h.root, J) /\ root' = h.root /\ size' = s
BY DEF Become, Blackened, BlackCut, Cut, Slots

LEMMA MoreThanOne ==
  ASSUME NEW s \in 0 .. Cap, NEW I, I = Slots(s), NEW c \in I, NEW f, NEW n, NEW K,
         f # Nil => f \in I /\ n[f].key = K /\ n[c].key # K,
         ~(n[c].key = K /\ s = 1), NEW g, g = (IF n[c].key = K THEN c ELSE f), g # Nil
  PROVE  s # 1 /\ g \in I /\ n[g].key = K
<1>1. g \in I /\ n[g].key = K
  OBVIOUS
<1>2. s = 1 => I = {0}
  BY DEF Slots
<1>. QED
  BY <1>1, <1>2

\* The end of a walk that has met the key: what becomes of the tree.
LEMMA BottomLeaf ==
  ASSUME TreeInv, pc = "delete", ~(Matches /\ size = 1), AtBottom, FoundNow # Nil
  PROVE  LET h == HoleFilled(Spliced, walk.c)
             J == Slots(size - 1)
             z == BlackCut(h.n, h.root, J)
         IN  /\ Ended(z, h.root, J) /\ Without(node, Slots(size), z, J, call.key)
             /\ LastKept(Spliced, walk.c)
             /\ size - 1 \in 0 .. Cap /\ size - 1 # 0
             /\ FoundNow \in Slots(size) /\ node[FoundNow].key = call.key
<1>1. PICK n, rt, s, I, K, c, p, pp, wd, f, d, t, g, u, h :
        /\ n = node /\ rt = root /\ s = size /\ I = Slots(size) /\ K = call.key
        /\ c = walk.c /\ p = walk.p /\ pp = walk.pp /\ wd = walk.d /\ f = walk.found
        /\ d = NextDir /\ t = RedPushedDown(NextDir) /\ g = FoundNow
        /\ u = Spliced /\ h = HoleFilled(Spliced, walk.c)
  OBVIOUS
<1>2. s \in 0 .. Cap /\ Room(I) /\ Contents = ContentsOf(n, I) /\ Typed(n, I) /\ I = Index /\ s \in Nat
  BY <1>1, InvRanges
<1>3. /\ s # 0 /\ K \in Key /\ K \in Int /\ wd \in Dir
      /\ DelWalk(n, rt, I, K, c, p, pp, wd, f)
  BY <1>1, DeleteNow
<1>4. c \in I /\ (f # Nil => f \in I /\ n[f].key = K /\ n[c].key # K)
      /\ \E R, P, D : Fine(n, rt, I, R, P, D)
  BY <1>3, DelFacts
<1>5. d \in Dir /\ Downward(d, n, c, K)
  <2>1. n[c].key \in Int
    BY <1>2, <1>4, KeyOf
  <2>2. d = IF n[c].key < K THEN "r" ELSE "l"
    BY <1>1 DEF NextDir
  <2>. QED
    BY <2>1, <2>2, <1>3, DownwardIs
<1>6. DeleteDone(n, t, I, K, c, d, f)
  <2>1. t = Pushed(n, rt, c, p, pp, wd, d)
    BY <1>1, PushIs
  <2>. QED
    BY <1>2, <1>3, <1>5, <2>1, DelTurned
<1>7. t.n[c][d] = Nil
  BY <1>1 DEF AtBottom
<1>8. g = (IF n[c].key = K THEN c ELSE f) /\ g # Nil
  BY <1>1 DEF FoundNow, Matches
<1>9. s # 1 /\ g \in I /\ n[g].key = K
  <2>1. ~(n[c].key = K /\ s = 1)
    BY <1>1 DEF Matches
  <2>2. I = Slots(s)
    BY <1>1
  <2>. QED
    BY <1>2, <1>4, <1>8, <2>1, <2>2, MoreThanOne, SMTT(60)
<1>10. PICK s2, J, z, r : s2 = s - 1 /\ J = Slots(s2) /\ z = BlackCut(h.n, h.root, J) /\ r = h.root
  OBVIOUS
<1>11. J = I \ {s - 1} /\ s2 \in 0 .. Cap /\ s2 # 0
  <2>1. Slots(s - 1) = Slots(s) \ {s - 1} /\ s - 1 \in 0 .. Cap
    BY <1>2, <1>3, SlotsLess
  <2>. QED
    BY <2>1, <1>1, <1>2, <1>9, <1>10
<1>12. Ended(z, r, J) /\ Without(n, I, z, J, K) /\ LastKept(u, c)
  <2>1. u = Excised(t.n, t.root, c, t.p, g)
    BY <1>1, SplicedIs
  <2>2. h = HoleFilled(u, c)
    BY <1>1
  <2>3. J = I \ {size - 1} /\ size # 1 /\ size \in Nat
    BY <1>1, <1>2, <1>9, <1>11
  <2>4. z = BlackCut(h.n, h.root, J)
    BY <1>10
  <2>5. I = Index /\ Room(I) /\ K \in Int
    BY <1>2, <1>3
  <2>6. Ending(n, t, I, K, c, d, f, g)
    BY <1>4, <1>5, <1>6, <1>7, <1>8 DEF Ending
  <2>7. TakingOut(t, I, c, g, u, h, J, z)
    BY <2>1, <2>2, <2>3, <2>4 DEF TakingOut
  <2>8. Ended(z, h.root, J) /\ Without(n, I, z, J, K) /\ LastKept(u, c)
    BY <2>3, <2>5, <2>6, <2>7, EndsWith
  <2>. QED
    BY <2>8, <1>10
<1>. QED
  BY <1>1, <1>9, <1>10, <1>11, <1>12

\* Its step.
LEMMA BottomWith ==
  ASSUME TreeInv, pc = "delete", call' = call, ~(Matches /\ size = 1), AtBottom, FoundNow # Nil,
         Become(Blackened(HoleFilled(Spliced, walk.c)), size - 1), Reply(1)
  PROVE  TreeInv' /\ Abstract!Calls
<1>1. PICK n, I, K, g, h, s2, J, z, r :
        /\ n = node /\ I = Slots(size) /\ K = call.key /\ g = FoundNow
        /\ h = HoleFilled(Spliced, walk.c)
        /\ s2 = size - 1 /\ J = Slots(s2) /\ z = BlackCut(h.n, h.root, J) /\ r = h.root
  OBVIOUS
<1>2. /\ Ended(z, r, J) /\ Without(n, I, z, J, K) /\ s2 \in 0 .. Cap /\ s2 # 0
      /\ g \in I /\ n[g].key = K
  BY <1>1, BottomLeaf
<1>3. node' = z /\ root' = r /\ size' = s2
  <2>1. Become(Blackened(h), s2)
    BY <1>1
  <2>. QED
    BY <2>1, <1>1, BlackCutIs
<1>4. Resting(z, r, s2) /\ Typed(z, J) /\ OneEach(z, J)
  BY <1>1, <1>2, EndedRests
<1>5. PICK F, G : F = Contents /\ G = Contents'
  OBVIOUS
<1>6. DictOf(F, n, I)
  <2>1. Room(I) /\ F = ContentsOf(n, I)
    BY <1>1, <1>5, InvRanges
  <2>2. PICK rt, c, p, pp, wd, f :
          rt = root /\ c = walk.c /\ p = walk.p /\ pp = walk.pp /\ wd = walk.d /\ f = walk.found
    OBVIOUS
  <2>3. DelWalk(n, rt, I, K, c, p, pp, wd, f)
    BY <2>2, <1>1, DeleteNow
  <2>4. PICK R, P, D : Fine(n, rt, I, R, P, D)
    BY <2>3, DelFacts
  <2>. QED
    BY <2>1, <2>4, DictDuring
<1>7. DictOf(G, z, J)
  <2>1. G = ContentsOf(z, J)
    BY <1>1, <1>3, <1>5, NextContents
  <2>. QED
    BY <2>1, <1>4, ContentsDict
<1>8. G = CutFrom(F, K)
  BY <1>2, <1>6, <1>7, WithoutDict
<1>9. K \in DOMAIN F
  BY <1>2, <1>6, DictHas
<1>10. Contents' = CutFrom(Contents, call.key) /\ call.key \in DOMAIN Contents
  BY <1>1, <1>5, <1>8, <1>9
<1>11. Typed(z, Slots(s2))
  BY <1>1, <1>4
<1>. QED
  BY <1>2, <1>3, <1>4, <1>10, <1>11, DeleteReturns

LEMMA DeleteBottomStep ==
  ASSUME TreeInv, DeleteBottom
  PROVE  TreeInv' /\ Abstract!Calls
<1>1. pc = "delete" /\ ~(Matches /\ size = 1) /\ AtBottom /\ call' = call
  BY DEF DeleteBottom
<1>2. CASE FoundNow = Nil
  <2>1. PICK d, t : d = NextDir /\ t = RedPushedDown(NextDir)
    OBVIOUS
  <2>2. t.n[walk.c][d] = Nil
    BY <1>1, <2>1 DEF AtBottom
  <2>3. Become(Blackened([n |-> t.n, root |-> t.root]), size) /\ Reply(0)
    BY <1>2, <2>1 DEF DeleteBottom
  <2>. QED
    BY <1>1, <1>2, <2>1, <2>2, <2>3, BottomWithout
<1>3. CASE FoundNow # Nil
  <2>1. Become(Blackened(HoleFilled(Spliced, walk.c)), size - 1) /\ Reply(1)
    BY <1>3 DEF DeleteBottom
  <2>. QED
    BY <1>1, <1>3, <2>1, BottomWith
<1>. QED
  BY <1>2, <1>3

----------------------------------------------------------------------------
(* Looking up, and emptying.                                               *)

\* A search ends outside the tree, or where it is to stop.
LEMMA SearchEnds ==
  ASSUME NEW I, Room(I), NEW n, Typed(n, I), NEW rt, NEW R, NEW P, Shape(n, rt, I, R, P),
         NEW K, NEW S, NEW g, Seeks(g, n, I, S, K)
  PROVE  \A i \in I \cup {Nil} : g[i] = Nil \/ g[i] \in S
<1>1. PICK N, W : N \in Nat /\ W \in [I -> 0 .. N] /\ \A i \in I, d \in Dir :
           n[i][d] # Nil => W[n[i][d]] < W[i]
  BY Ranked
<1>2. g[Nil] = Nil
  BY DEF Seeks
<1>3. PICK Q : Q = {i \in I : ~(g[i] = Nil \/ g[i] \in S)}
  OBVIOUS
<1>4. Q = {}
  <2>1. SUFFICES ASSUME Q # {} PROVE FALSE
    OBVIOUS
  <2>2. PICK T : T = {W[i] : i \in Q}
    OBVIOUS
  <2>3. T \subseteq Nat /\ T # {}
    BY <1>1, <1>3, <2>1, <2>2
  <2>4. PICK x \in T : \A y \in T : x <= y
    BY <2>3, LeastNat
  <2>5. PICK i \in Q : x = W[i]
    BY <2>2, <2>4
  <2>6. i \in I /\ g[i] # Nil /\ g[i] \notin S
    BY <1>3
  <2>7. g[i] = (IF i = Nil \/ i \in S THEN i ELSE g[NextFor(n, K, i)])
    BY <2>6 DEF Seeks
  <2>8. g[i] = g[NextFor(n, K, i)]
    BY <2>6, <2>7
  <2>9. PICK d \in Dir : d = IF n[i].key < K THEN "r" ELSE "l"
    BY DEF Dir
  <2>10. PICK j : j = n[i][d]
    OBVIOUS
  <2>11. g[i] = g[j]
    BY <2>8, <2>9, <2>10 DEF NextFor
  <2>12. j \in I \cup {Nil}
    BY <2>6, <2>10, SonOf
  <2>13. j # Nil
    BY <1>2, <2>6, <2>11
  <2>14. j \in Q
    BY <1>3, <2>6, <2>11, <2>12, <2>13
  <2>15. W[j] < W[i] /\ W[j] \in T
    BY <1>1, <2>2, <2>6, <2>10, <2>13, <2>14
  <2>16. x <= W[j] /\ W[i] \in Nat /\ W[j] \in Nat
    BY <1>1, <1>3, <2>4, <2>14, <2>15
  <2>. QED
    BY <2>5, <2>15, <2>16
<1>. QED
  BY <1>2, <1>3, <1>4

\* st_locate is such a search, from the root.
LEMMA LocateSeeks ==
  ASSUME NEW I, I = Index, Room(I), NEW n, n = node, Typed(n, I),
         NEW rt, rt = root, NEW R, NEW P, Shape(n, rt, I, R, P), NEW K
  PROVE  \E g : Seeks(g, n, I, HasKey(n, I, K), K) /\ Locate(K) = g[rt]
<1>. DEFINE nx(i) == node[i][IF node[i].key < K THEN "r" ELSE "l"]
            from[i \in Link] == IF i = Nil \/ node[i].key = K THEN i ELSE from[nx(i)]
<1>1. Locate(K) = from[rt]
  <2>1. Locate(K) = from[root]
    BY Zenon DEF Locate
  <2>. HIDE DEF from
  <2>. QED
    BY <2>1
<1>2. PICK S : S = HasKey(n, I, K)
  OBVIOUS
<1>3. PICK g : Seeks(g, n, I, S, K)
  BY Searchable
<1>4. Link = I \cup {Nil}
  BY DEF Link
<1>5. PICK f : f = [i \in Link |-> g[i]]
  OBVIOUS
<1>6. \A i \in Link : f[i] = g[i]
  BY <1>5
<1>7. ASSUME NEW i \in Link PROVE g[i] = IF i = Nil \/ node[i].key = K THEN i ELSE f[nx(i)]
  <2>1. g[i] = IF i = Nil \/ i \in S THEN i ELSE g[NextFor(n, K, i)]
    BY <1>3, <1>4 DEF Seeks
  <2>2. CASE i = Nil
    BY <2>1, <2>2
  <2>3. CASE i # Nil
    <3>1. i \in I /\ (i \in S <=> node[i].key = K)
      BY <2>3, <1>2, <1>4 DEF HasKey
    <3>2. NextFor(n, K, i) = nx(i)
      BY DEF NextFor
    <3>3. nx(i) \in Link
      <4>1. PICK d \in Dir : d = IF n[i].key < K THEN "r" ELSE "l"
        BY DEF Dir
      <4>2. n[i][d] \in I \cup {Nil}
        BY <3>1, SonOf
      <4>. QED
        BY <4>1, <4>2, <1>4
    <3>. QED
      BY <2>1, <2>3, <3>1, <3>2, <3>3, <1>6
  <2>. QED
    BY <2>2, <2>3
<1>. HIDE DEF nx
<1>8. f = [i \in Link |-> IF i = Nil \/ node[i].key = K THEN i ELSE f[nx(i)]]
  BY <1>5, <1>7
<1>9. from = [i \in Link |-> IF i = Nil \/ node[i].key = K THEN i ELSE from[nx(i)]]
  BY <1>8, Zenon
<1>. HIDE DEF from
<1>10. \A i \in Link : from[i] = IF i = Nil \/ node[i].key = K THEN i ELSE from[nx(i)]
  BY <1>9, Zenon
<1>11. Seeks(from, n, I, S, K)
  <2>1. SUFFICES ASSUME NEW i \in I \cup {Nil}
                 PROVE  from[i] = IF i = Nil \/ i \in S THEN i ELSE from[NextFor(n, K, i)]
    BY DEF Seeks
  <2>2. CASE i = Nil
    BY <2>2, <1>4, <1>10
  <2>3. CASE i # Nil
    <3>1. i \in I /\ i \in Link /\ (i \in S <=> node[i].key = K)
      BY <2>3, <1>2, <1>4 DEF HasKey
    <3>2. NextFor(n, K, i) = nx(i)
      BY DEF NextFor, nx
    <3>. QED
      BY <2>3, <3>1, <3>2, <1>10
  <2>. QED
    BY <2>2, <2>3
<1>12. PICK h : h = from
  OBVIOUS
<1>. QED
  BY <1>1, <1>2, <1>11, <1>12

\* What st_locate finds between calls.
LEMMA Located ==
  ASSUME TreeInv, pc = "idle", size # 0, NEW I, I = Slots(size), NEW n, n = node, NEW K, NEW j, j = Locate(K)
  PROVE  /\ \A i \in I : n[i].key = K => j = i
         /\ j # Nil => j \in I /\ n[j].key = K
         /\ root \in I
<1>1. Room(I) /\ Typed(n, I) /\ I = Index
  BY InvRanges
<1>2. PICK rt : rt = root
  OBVIOUS
<1>3. IsTree(n, rt, I)
  BY <1>2, AtRestNow DEF Resting
<1>4. PICK R, P, D : Fine(n, rt, I, R, P, D)
  BY <1>3 DEF IsTree
<1>5. Shape(n, rt, I, R, P) /\ rt \in I
  BY <1>4 DEF Fine, Shape
<1>6. PICK g : Seeks(g, n, I, HasKey(n, I, K), K) /\ j = g[rt]
  BY <1>1, <1>2, <1>5, LocateSeeks
<1>7. ASSUME NEW i \in I, n[i].key = K PROVE j = i
  <2>1. g[rt] = i
    BY <1>1, <1>5, <1>6, <1>7, FindsKey
  <2>. QED
    BY <2>1, <1>6
<1>8. g[rt] = Nil \/ g[rt] \in HasKey(n, I, K)
  BY <1>1, <1>5, <1>6, SearchEnds
<1>. QED
  BY <1>2, <1>5, <1>6, <1>7, <1>8 DEF HasKey

LEMMA AnswersAt ==
  ASSUME NEW k \in Key, pc' = "idle", call' = [op |-> "at", key |-> k, val |-> 0],
         res' = (IF k \in DOMAIN Contents THEN Contents[k] ELSE 0), Contents' = Contents
  PROVE  Abstract!Calls
<1>1. Abstract!At(k)
  BY Zenon DEF Abstract!At, Abstract!Answer
<1>. QED
  BY <1>1, Zenon DEF Abstract!Calls

LEMMA AnswersClear ==
  ASSUME pc' = "idle", call' = [op |-> "clear", key |-> 0, val |-> 0], res' = 0, Contents' = << >>
  PROVE  Abstract!Calls
<1>1. Abstract!Clear
  BY Zenon DEF Abstract!Clear, Abstract!Answer
<1>. QED
  BY <1>1, Zenon DEF Abstract!Calls

LEMMA AtStep ==
  ASSUME TreeInv, size # 0, NEW k \in Key, At(k)
  PROVE  TreeInv' /\ Abstract!Calls
<1>1. /\ pc = "idle" /\ call' = [op |-> "at", key |-> k, val |-> 0]
      /\ node' = node /\ root' = root /\ size' = size /\ pc' = pc /\ walk' = walk
  BY DEF At
<1>2. PICK n, I, j, F : n = node /\ I = Slots(size) /\ j = Locate(k) /\ F = Contents
  OBVIOUS
<1>3. size \in 0 .. Cap /\ Typed(n, I) /\ F = ContentsOf(n, I) /\ Room(I)
  BY <1>2, InvRanges
<1>4. Resting(node, root, size) /\ walk = AtRest
  BY <1>1, AtRestNow
<1>5. /\ \A i \in I : n[i].key = k => j = i
      /\ j # Nil => j \in I /\ n[j].key = k
      /\ root \in I
  BY <1>1, <1>2, Located
<1>6. DictOf(F, n, I)
  BY <1>2, <1>3, <1>4, DictNow
<1>7. res' = IF j = Nil THEN 0 ELSE n[j].val
  <2>1. root # Nil
    BY <1>3, <1>5 DEF Room
  <2>. QED
    BY <2>1, <1>2 DEF At
<1>8. res' = (IF k \in DOMAIN F THEN F[k] ELSE 0) /\ res' \in 0 .. ValMod
  <2>1. CASE j = Nil
    <3>1. \A i \in I : n[i].key # k
      BY <2>1, <1>3, <1>5 DEF Room
    <3>2. k \notin DOMAIN F
      BY <3>1, <1>6, DictHasNot
    <3>3. 0 \in 0 .. ValMod
      BY ValuesIn
    <3>. QED
      BY <2>1, <3>2, <3>3, <1>7
  <2>2. CASE j # Nil
    <3>1. j \in I /\ n[j].key = k
      BY <2>2, <1>5
    <3>2. k \in DOMAIN F /\ F[k] = n[j].val
      BY <3>1, <1>6, DictHas
    <3>3. n[j].val \in 0 .. ValMod
      <4>1. n[j].val \in 0 .. ValMod - 1
        BY <3>1, <1>3, KeyOf
      <4>. QED
        BY <4>1, ValuesIn
    <3>. QED
      BY <2>2, <3>2, <3>3, <1>7
  <2>. QED
    BY <2>1, <2>2
<1>9. TreeInv'
  <2>1. call' \in CallSet
    BY <1>1, CallMade
  <2>2. PICK c, r : c = call' /\ r = res'
    OBVIOUS
  <2>3. Good(node, root, size, "idle", c, AtRest, r)
    BY <2>1, <2>2, <1>2, <1>3, <1>4, <1>8, RestGood
  <2>4. TreeInv' = Good(node, root, size, "idle", c, AtRest, r)
    BY <2>2, <1>1, <1>4, NextInvIs
  <2>. QED
    BY <2>3, <2>4
<1>10. Contents' = Contents
  BY <1>1, <1>2, <1>3, NextContents
<1>11. res' = (IF k \in DOMAIN Contents THEN Contents[k] ELSE 0)
  BY <1>2, <1>8
<1>12. Abstract!Calls
  BY <1>1, <1>10, <1>11, AnswersAt
<1>. QED
  BY <1>9, <1>12

LEMMA ClearStep ==
  ASSUME TreeInv, Clear
  PROVE  TreeInv' /\ Abstract!Calls
<1>1. /\ pc = "idle" /\ call' = [op |-> "clear", key |-> 0, val |-> 0]
      /\ pc' = pc /\ walk' = walk /\ res' = 0
  BY DEF Clear
<1>2. PICK n, I, J, y : n = node /\ I = Slots(size) /\ J = Slots(0) /\ y = Cut(n, J)
  OBVIOUS
<1>3. Room(I) /\ Typed(n, I)
  BY <1>2, InvRanges
<1>4. Typed(y, J) /\ Resting(y, Nil, 0) /\ J = {} /\ ContentsOf(y, J) = << >>
  BY <1>2, <1>3, CutNone
<1>5. node' = y /\ root' = Nil /\ size' = 0
  <2>1. Become([n |-> node, root |-> Nil], 0)
    BY DEF Clear
  <2>. QED
    BY <2>1, <1>2 DEF Become, Cut, Slots
<1>6. walk = AtRest
  BY <1>1, AtRestNow
<1>7. TreeInv'
  <2>1. call' \in CallSet
    BY <1>1, CallMade
  <2>2. PICK c : c = call'
    OBVIOUS
  <2>3. 0 \in 0 .. ValMod /\ 0 \in 0 .. Cap /\ Typed(y, Slots(0))
    BY <1>2, <1>4, ValuesIn, RBTreeAssumption
  <2>4. Good(y, Nil, 0, "idle", c, AtRest, 0)
    BY <2>1, <2>2, <2>3, <1>4, RestGood
  <2>5. TreeInv' = Good(y, Nil, 0, "idle", c, AtRest, 0)
    BY <2>2, <1>1, <1>5, <1>6, NextInvIs
  <2>. QED
    BY <2>4, <2>5
<1>8. Contents' = << >>
  BY <1>2, <1>4, <1>5, NextContents
<1>9. Abstract!Calls
  BY <1>1, <1>8, AnswersClear
<1>. QED
  BY <1>7, <1>9

\* The search reaches every node.
LEMMA InvEveryNodeFound == TreeInv => EveryNodeFound
<1>1. SUFFICES ASSUME TreeInv, pc = "idle", NEW i \in Index PROVE Locate(node[i].key) = i
  BY DEF EveryNodeFound
<1>2. PICK n, I, K, j : n = node /\ I = Slots(size) /\ K = node[i].key /\ j = Locate(node[i].key)
  OBVIOUS
<1>3. I = Index
  BY <1>1, <1>2, InvRanges
<1>4. size # 0
  BY <1>1 DEF Index
<1>5. j = i
  BY <1>1, <1>2, <1>3, <1>4, Located
<1>. QED
  BY <1>2, <1>5

----------------------------------------------------------------------------
(* Every step keeps the invariant.                                         *)

LEMMA EmptyTyped ==
  ASSUME NEW n, n = [i \in {Aux} |-> NoNode]
  PROVE  Typed(n, Slots(0)) /\ Resting(n, Nil, 0) /\ ContentsOf(n, Slots(0)) = << >>
<1>1. PICK J, y : J = Slots(0) /\ y = Cut(n, J)
  OBVIOUS
<1>2. J = {}
  BY <1>1 DEF Slots
<1>3. y = n
  BY <1>1, <1>2 DEF Cut
<1>4. PICK B : B = BOOLEAN
  OBVIOUS
<1>5. PICK f : f = FALSE /\ f \in B
  BY <1>4, Zenon
<1>6. NoNode = [key |-> 0, val |-> 0, l |-> Nil, r |-> Nil, red |-> f]
  BY <1>5 DEF NoNode
<1>7. NoNode \in [key : Key \cup {0}, val : 0 .. ValMod - 1,
                  l : J \cup {Nil}, r : J \cup {Nil}, red : B]
  BY <1>5, <1>6, ValuesIn
<1>8. n \in [J \cup {Aux} -> [key : Key \cup {0}, val : 0 .. ValMod - 1,
                              l : J \cup {Nil}, r : J \cup {Nil}, red : B]]
  BY <1>2, <1>7
<1>9. Typed(n, J)
  BY <1>4, <1>8, Zenon DEF Typed
<1>10. Emptied(n)
  BY DEF Emptied
<1>11. ContentsOf(n, J) = << >>
  BY <1>2, EmptyDict
<1>. QED
  BY <1>1, <1>9, <1>10, <1>11 DEF Resting

LEMMA InitInv == Init => TreeInv /\ Abstract!Init
<1>1. SUFFICES ASSUME Init PROVE TreeInv /\ Abstract!Init
  OBVIOUS
<1>2. /\ node = [i \in {Aux} |-> NoNode] /\ root = Nil /\ size = 0 /\ pc = "idle"
      /\ call = NoCall /\ walk = AtRest /\ res = 0
  BY <1>1 DEF Init
<1>3. Typed(node, Slots(0)) /\ Resting(node, Nil, 0) /\ ContentsOf(node, Slots(0)) = << >>
  BY <1>2, EmptyTyped
<1>4. NoCall \in CallSet
  BY DEF NoCall, CallSet
<1>5. Good(node, Nil, 0, "idle", NoCall, AtRest, 0)
  <2>1. 0 \in 0 .. Cap /\ 0 \in 0 .. ValMod
    BY ValuesIn, RBTreeAssumption
  <2>. QED
    BY <2>1, <1>3, <1>4, RestGood
<1>6. TreeInv
  BY <1>2, <1>5 DEF TreeInv
<1>7. Contents = << >>
  <2>1. Contents = ContentsOf(node, Slots(size))
    BY <1>6, InvRanges
  <2>. QED
    BY <2>1, <1>2, <1>3
<1>8. Abstract!Init
  <2>1. Cap \in Nat
    BY RBTreeAssumption
  <2>2. NoCall = Abstract!NoCall
    BY DEF NoCall, Abstract!NoCall
  <2>. QED
    BY <1>2, <1>7, <2>1, <2>2, Zenon DEF Abstract!Init
<1>. QED
  BY <1>6, <1>8

\* Every step keeps the invariant, and is a step of the abstract map or is
\* not seen by it.
Seen == Abstract!Calls \/ UNCHANGED Abstract!vars

LEMMA StepKeeps ==
  ASSUME TreeInv, Step, InsertExisting => ~IsRed(node, root)'
  PROVE  TreeInv' /\ Seen
<1>1. CASE InsertLeaf
  BY <1>1, InsertLeafStep DEF Seen
<1>2. CASE InsertExisting
  BY <1>2, InsertExistingStep DEF Seen
<1>3. CASE InsertDescend
  BY <1>3, InsertDescendStep DEF Seen
<1>4. CASE DeleteLast
  BY <1>4, DeleteLastStep DEF Seen
<1>5. CASE DeleteDescend
  BY <1>5, DeleteDescendStep DEF Seen
<1>6. CASE DeleteBottom
  BY <1>6, DeleteBottomStep DEF Seen
<1>. QED
  BY <1>1, <1>2, <1>3, <1>4, <1>5, <1>6 DEF Step

LEMMA WritesKeep ==
  ASSUME TreeInv, Writes
  PROVE  TreeInv' /\ Seen
<1>1. ASSUME NEW k \in Key, NEW v \in Val, NEW op \in {"insert", "inc"}, StartInsert(op, k, v)
      PROVE  TreeInv' /\ Seen
  BY <1>1, StartInsertStep DEF Seen
<1>2. ASSUME NEW k \in Key, StartDelete(k)
      PROVE  TreeInv' /\ Seen
  BY <1>2, StartDeleteStep DEF Seen
<1>3. CASE Clear
  BY <1>3, ClearStep DEF Seen
<1>. QED
  BY <1>1, <1>2, <1>3 DEF Writes

LEMMA NextKeeps ==
  ASSUME TreeInv, CoreNext
  PROVE  TreeInv' /\ Seen
<1>1. Next /\ (InsertExisting => ~IsRed(node, root)')
  BY DEF CoreNext
<1>2. CASE Step
  BY <1>1, <1>2, StepKeeps
<1>3. CASE Writes
  BY <1>3, WritesKeep
<1>4. ASSUME size > 0, NEW k \in Key, At(k)
      PROVE  TreeInv' /\ Seen
  <2>1. size # 0
    BY <1>4
  <2>. QED
    BY <1>4, <2>1, AtStep DEF Seen
<1>. QED
  BY <1>1, <1>2, <1>3, <1>4 DEF Next

LEMMA StutterKeeps ==
  ASSUME TreeInv, UNCHANGED vars
  PROVE  TreeInv' /\ Seen
<1>1. node' = node /\ root' = root /\ size' = size /\ pc' = pc /\ call' = call /\ walk' = walk /\ res' = res
  BY DEF vars
<1>2. TreeInv'
  BY <1>1, NextInvIs DEF TreeInv
<1>3. Contents' = Contents
  <2>1. Contents = ContentsOf(node, Slots(size))
    BY InvRanges
  <2>. QED
    BY <2>1, <1>1, NextContents
<1>4. UNCHANGED Abstract!vars
  BY <1>1, <1>3 DEF Abstract!vars
<1>. QED
  BY <1>2, <1>4 DEF Seen

LEMMA NextInv == TreeInv /\ [CoreNext]_vars => TreeInv' /\ [Abstract!Next]_(Abstract!vars)
<1>1. SUFFICES ASSUME TreeInv, [CoreNext]_vars PROVE TreeInv' /\ [Abstract!Next]_(Abstract!vars)
  OBVIOUS
<1>2. TreeInv' /\ Seen
  BY <1>1, NextKeeps, StutterKeeps
<1>3. Cap' = Cap
  OBVIOUS
<1>4. CASE Abstract!Calls
  BY <1>2, <1>3, <1>4 DEF Abstract!Next
<1>5. CASE UNCHANGED Abstract!vars
  BY <1>2, <1>5
<1>. QED
  BY <1>2, <1>4, <1>5 DEF Seen

LEMMA TreeInvHolds == CoreSpec => []TreeInv
<1>1. Init => TreeInv
  BY InitInv
<1>2. TreeInv /\ [CoreNext]_vars => TreeInv'
  BY NextInv
<1>. QED
  BY <1>1, <1>2, PTL DEF CoreSpec

----------------------------------------------------------------------------
(* st_assert, and the assertions in st_delete.                             *)

\* The heights st_assert_aux counts, by its own recursion.
Fails(n, i, l, r) ==
  \/ n[i].red /\ (IsRed(n, n[i].l) \/ IsRed(n, n[i].r))
  \/ /\ n[i].l # Nil /\ n[i].r # Nil
     /\ n[n[i].l].key >= n[i].key
     /\ n[n[i].r].key <= n[i].key
  \/ l = 0 \/ l # r
Level(n, h, i) ==
  IF i = Nil THEN 1
  ELSE IF Fails(n, i, h[n[i].l], h[n[i].r]) THEN 0
       ELSE IF n[i].red THEN h[n[i].l] ELSE h[n[i].l] + 1

LEMMA HeightIs ==
  ASSUME NEW f, f = [i \in Link |-> Level(node, f, i)]
  PROVE  Height = [i \in Link |-> Level(node, Height, i)]
<1>. DEFINE h[i \in Link] == Level(node, h, i)
<1>1. Height = h
  BY Zenon DEF Height, Level, Fails
<1>2. h = [i \in Link |-> Level(node, h, i)]
  BY Zenon
<1>. HIDE DEF h
<1>. QED
  BY <1>1, <1>2

\* They are those of the proofs, and one more.
Counted(n, I, H, g, i) == \A e \in Dir : g[n[i][e]] = BH(H, n[i][e]) + 1

LEMMA NoFailure ==
  ASSUME NEW I, Room(I), NEW n, NEW rt, NEW R, NEW P, NEW D, Fine(n, rt, I, R, P, D),
         NEW i \in I, NEW l \in Nat \ {0}
  PROVE  ~Fails(n, i, l, l)
<1>1. /\ Typed(n, I) /\ Shape(n, rt, I, R, P) /\ RedIn(n, I) = D /\ Under(n, D, I, Nil) /\ Nil \notin I
  BY DEF Fine, RedsAre, Room
<1>2. PICK a, b : a = "l" /\ b = "r" /\ a \in Dir /\ b \in Dir
  BY DEF Dir
<1>3. PICK x, y : x = n[i][a] /\ y = n[i][b]
  OBVIOUS
<1>4. x = n[i].l /\ y = n[i].r
  BY <1>2, <1>3
<1>5. x \in I \cup {Nil} /\ y \in I \cup {Nil}
  BY <1>1, <1>2, <1>3, SonOf
<1>6. i \in D => x \notin D /\ y \notin D
  BY <1>1, <1>2, <1>3 DEF Under
<1>7. i \in D <=> n[i].red
  BY <1>1, RedMember
<1>8. ASSUME NEW z \in I \cup {Nil} PROVE IsRed(n, z) => z \in D
  <2>1. CASE z = Nil
    BY <2>1 DEF IsRed
  <2>2. CASE z # Nil
    <3>1. z \in I
      BY <2>2
    <3>2. z \in RedIn(n, I) <=> n[z].red
      BY <3>1, RedMember
    <3>3. z \in D <=> n[z].red
      BY <3>2, <1>1, Zenon
    <3>. QED
      BY <3>3, Zenon DEF IsRed
  <2>. QED
    BY <2>1, <2>2
<1>9. ~(n[i].red /\ (IsRed(n, n[i].l) \/ IsRed(n, n[i].r)))
  BY <1>4, <1>5, <1>6, <1>7, <1>8, Zenon
<1>10. ~(n[i].l # Nil /\ n[i].r # Nil /\ n[n[i].l].key >= n[i].key /\ n[n[i].r].key <= n[i].key)
  <2>1. SUFFICES ASSUME x # Nil PROVE ~(n[x].key >= n[i].key)
    BY <1>4
  <2>2. n[x].key \in R[x] /\ \A k \in R[x] : k \in Int /\ Before(a, k, n[i].key)
    BY <2>1, <1>1, <1>2, <1>3, Link1, SMTT(60)
  <2>3. n[i].key \in Int
    BY <1>1, KeyOf
  <2>. QED
    BY <2>2, <2>3, <1>2 DEF Before
<1>11. ~(l = 0 \/ l # l)
  OBVIOUS
<1>. QED
  BY <1>9, <1>10, <1>11, Zenon DEF Fails

LEMMA LevelExact ==
  ASSUME NEW I, Room(I), NEW n, NEW rt, NEW R, NEW P, NEW D, Fine(n, rt, I, R, P, D),
         NEW H, Balanced(n, D, H, I), NEW i \in I, NEW g, Counted(n, I, H, g, i)
  PROVE  Level(n, g, i) = BH(H, i) + 1
<1>1. Typed(n, I) /\ RedIn(n, I) = D /\ Nil \notin I
  BY DEF Fine, RedsAre, Room
<1>2. PICK a, b : a = "l" /\ b = "r" /\ a \in Dir /\ b \in Dir
  BY DEF Dir
<1>3. PICK x, y : x = n[i][a] /\ y = n[i][b]
  OBVIOUS
<1>4. x = n[i].l /\ y = n[i].r
  BY <1>2, <1>3
<1>5. x \in I \cup {Nil} /\ y \in I \cup {Nil}
  BY <1>1, <1>2, <1>3, SonOf
<1>6. g[x] = BH(H, x) + 1 /\ g[y] = BH(H, y) + 1
  BY <1>2, <1>3 DEF Counted
<1>7. H[i] = BH(H, x) + (IF i \in D THEN 0 ELSE 1) /\ H[i] = BH(H, y) + (IF i \in D THEN 0 ELSE 1)
  BY <1>2, <1>3 DEF Balanced
<1>8. BH(H, x) \in Nat /\ BH(H, y) \in Nat
  BY <1>5 DEF Balanced, BH
<1>9. g[x] = g[y] /\ g[x] \in Nat \ {0}
  BY <1>6, <1>7, <1>8
<1>10. ~Fails(n, i, g[x], g[y])
  <2>1. PICK l : l = g[x]
    OBVIOUS
  <2>2. ~Fails(n, i, l, l)
    BY <2>1, <1>9, NoFailure
  <2>. QED
    BY <2>1, <2>2, <1>9
<1>11. i \in D <=> n[i].red
  BY <1>1, RedMember
<1>12. i # Nil
  BY <1>1
<1>13. Level(n, g, i) = IF i \in D THEN g[x] ELSE g[x] + 1
  BY <1>4, <1>10, <1>11, <1>12, Zenon DEF Level
<1>14. BH(H, i) = H[i]
  BY <1>12 DEF BH
<1>. QED
  BY <1>6, <1>7, <1>8, <1>13, <1>14

LEMMA HeightsCounted ==
  ASSUME NEW I, I = Index, Room(I), NEW n, n = node, NEW rt, NEW R, NEW P, NEW D, Fine(n, rt, I, R, P, D)
  PROVE  Height[rt] # 0
<1>1. Typed(n, I) /\ Shape(n, rt, I, R, P) /\ Even(n, D, I) /\ Nil \notin I /\ rt \in I
  BY DEF Fine, Shape, Room
<1>2. PICK H : Balanced(n, D, H, I)
  BY <1>1 DEF Even
<1>3. Link = I \cup {Nil}
  BY DEF Link
<1>4. PICK f : f = [i \in Link |-> BH(H, i) + 1]
  OBVIOUS
<1>5. \A i \in Link : f[i] = BH(H, i) + 1
  BY <1>4
<1>6. ASSUME NEW i \in Link PROVE Level(n, f, i) = BH(H, i) + 1
  <2>1. CASE i = Nil
    BY <2>1 DEF Level, BH
  <2>2. CASE i # Nil
    <3>1. i \in I
      BY <2>2, <1>3
    <3>2. \A e \in Dir : n[i][e] \in Link
      BY <3>1, <1>1, <1>3, SonOf
    <3>3. Counted(n, I, H, f, i)
      BY <3>2, <1>5 DEF Counted
    <3>. QED
      BY <3>1, <3>3, <1>2, LevelExact
  <2>. QED
    BY <2>1, <2>2
<1>7. f = [i \in Link |-> Level(node, f, i)]
  BY <1>4, <1>6
<1>8. Height = [i \in Link |-> Level(node, Height, i)]
  BY <1>7, HeightIs
<1>9. PICK h : h = Height
  OBVIOUS
<1>10. \A i \in Link : h[i] = Level(n, h, i)
  <2>1. h = [i \in Link |-> Level(n, h, i)]
    BY <1>8, <1>9
  <2>. QED
    BY <2>1, Zenon
<1>11. PICK N, W : N \in Nat /\ W \in [I -> 0 .. N] /\ \A i \in I, d \in Dir :
           n[i][d] # Nil => W[n[i][d]] < W[i]
  BY <1>1, Ranked
<1>12. h[Nil] = BH(H, Nil) + 1
  BY <1>3, <1>10 DEF Level, BH
<1>13. PICK Q : Q = {i \in I : h[i] # BH(H, i) + 1}
  OBVIOUS
<1>14. Q = {}
  <2>1. SUFFICES ASSUME Q # {} PROVE FALSE
    OBVIOUS
  <2>2. PICK T : T = {W[i] : i \in Q}
    OBVIOUS
  <2>3. T \subseteq Nat /\ T # {}
    BY <1>11, <1>13, <2>1, <2>2
  <2>4. PICK x \in T : \A y \in T : x <= y
    BY <2>3, LeastNat
  <2>5. PICK i \in Q : x = W[i]
    BY <2>2, <2>4
  <2>6. i \in I /\ h[i] # BH(H, i) + 1
    BY <1>13
  <2>7. ASSUME NEW e \in Dir PROVE h[n[i][e]] = BH(H, n[i][e]) + 1
    <3>1. PICK j : j = n[i][e]
      OBVIOUS
    <3>2. j \in I \cup {Nil}
      BY <2>6, <3>1, <1>1, SonOf
    <3>3. CASE j = Nil
      BY <3>1, <3>3, <1>12
    <3>4. CASE j # Nil
      <4>1. W[j] < W[i]
        BY <2>6, <3>1, <3>4, <1>11
      <4>2. j \in I /\ W[j] \in Nat /\ W[i] \in Nat
        BY <2>6, <3>2, <3>4, <1>11
      <4>3. j \notin Q
        <5>1. SUFFICES ASSUME j \in Q PROVE FALSE
          OBVIOUS
        <5>2. W[j] \in T
          BY <5>1, <2>2
        <5>3. x <= W[j]
          BY <5>2, <2>4
        <5>. QED
          BY <5>3, <2>5, <4>1, <4>2
      <4>. QED
        BY <3>1, <4>2, <4>3, <1>13
    <3>. QED
      BY <3>2, <3>3, <3>4
  <2>8. Counted(n, I, H, h, i)
    BY <2>7 DEF Counted
  <2>9. Level(n, h, i) = BH(H, i) + 1
    BY <2>6, <2>8, <1>2, LevelExact
  <2>10. h[i] = Level(n, h, i)
    BY <2>6, <1>3, <1>10
  <2>. QED
    BY <2>6, <2>9, <2>10
<1>15. h[rt] = H[rt] + 1
  BY <1>1, <1>13, <1>14 DEF BH
<1>16. H[rt] \in Nat
  BY <1>1, <1>2 DEF Balanced
<1>. QED
  BY <1>9, <1>15, <1>16

LEMMA NoHeights ==
  ASSUME size = 0
  PROVE  Height[Nil] = 1
<1>1. Link = {Nil}
  BY DEF Link, Index
<1>2. PICK f : f = [i \in Link |-> 1]
  OBVIOUS
<1>3. \A i \in Link : Level(node, f, i) = 1
  BY <1>1 DEF Level
<1>4. f = [i \in Link |-> Level(node, f, i)]
  BY <1>2, <1>3
<1>5. Height = [i \in Link |-> Level(node, Height, i)]
  BY <1>4, HeightIs
<1>6. PICK h : h = Height
  OBVIOUS
<1>7. h[Nil] = Level(node, h, Nil)
  <2>1. h = [i \in Link |-> Level(node, h, i)]
    BY <1>5, <1>6
  <2>2. Nil \in Link
    BY <1>1
  <2>. QED
    BY <2>1, <2>2, Zenon
<1>. QED
  BY <1>6, <1>7 DEF Level

\* Between calls the tree passes st_assert.
LEMMA InvRedBlackRules == TreeInv => RedBlackRules
<1>1. SUFFICES ASSUME TreeInv, pc = "idle" PROVE st_assert
  BY DEF RedBlackRules
<1>2. PICK n, rt, I : n = node /\ rt = root /\ I = Slots(size)
  OBVIOUS
<1>3. Room(I) /\ I = Index
  BY <1>1, <1>2, InvRanges
<1>4. Resting(n, rt, size)
  BY <1>1, <1>2, AtRestNow
<1>5. CASE size = 0
  <2>1. root = Nil /\ size # 1
    BY <1>2, <1>4, <1>5 DEF Resting
  <2>2. Height[Nil] = 1
    BY <1>5, NoHeights
  <2>. QED
    BY <2>1, <2>2 DEF st_assert
<1>6. CASE size # 0
  <2>1. PICK R, P, D : Fine(n, rt, I, R, P, D) /\ rt \notin D
    BY <1>2, <1>4, <1>6 DEF Resting, IsTree
  <2>2. Height[root] # 0
    BY <2>1, <1>2, <1>3, HeightsCounted
  <2>3. ~IsRed(node, root)
    <3>1. RedIn(n, I) = D /\ rt \in I
      BY <2>1 DEF Fine, RedsAre, Shape
    <3>2. rt \in RedIn(n, I) <=> n[rt].red
      BY <3>1, RedMember
    <3>3. ~n[rt].red
      BY <3>1, <3>2, <2>1, Zenon
    <3>. QED
      BY <3>3, <1>2, Zenon DEF IsRed
  <2>. QED
    BY <2>2, <2>3 DEF st_assert
<1>. QED
  BY <1>5, <1>6

\* The assertions inside st_delete.
LEMMA InvAssertsHold == TreeInv => AssertsHold
<1>1. SUFFICES ASSUME TreeInv, pc = "delete"
               PROVE  /\ Matches => walk.found = Nil
                      /\ AtBottom /\ FoundNow # Nil /\ walk.c # size - 1 =>
                           LocateParent(Spliced, size - 1) # Nil
  BY DEF AssertsHold
<1>2. PICK n, rt, I, K, c, f : n = node /\ rt = root /\ I = Slots(size) /\ K = call.key
                               /\ c = walk.c /\ f = walk.found
  OBVIOUS
<1>3. DelWalk(n, rt, I, K, c, walk.p, walk.pp, walk.d, f) /\ size # 0
  BY <1>1, <1>2, DeleteNow
<1>4. c \in I /\ (f # Nil => n[c].key # K)
  BY <1>3, DelFacts
<1>5. Matches => walk.found = Nil
  BY <1>2, <1>4 DEF Matches
<1>6. ASSUME AtBottom, FoundNow # Nil, walk.c # size - 1
      PROVE  LocateParent(Spliced, size - 1) # Nil
  <2>1. size # 1
    <3>1. size = 1 => I = {0}
      BY <1>2 DEF Slots
    <3>. QED
      BY <3>1, <1>2, <1>4, <1>6
  <2>2. LastKept(Spliced, walk.c)
    BY <1>1, <1>6, <2>1, BottomLeaf
  <2>. QED
    BY <2>2, <1>6 DEF LastKept
<1>. QED
  BY <1>5, <1>6

----------------------------------------------------------------------------
(* How deep a tree of so many nodes can be.                                *)

LEMMA CapNat == Cap \in Nat \ {0}
BY RBTreeAssumption

\* There is such a function as the definition of Pow2 describes.
LEMMA Pow2Exists ==
  \E F : F = [n \in 0 .. Cap + 1 |-> IF n = 0 THEN 1 ELSE 2 * F[n - 1]]
<1>. DEFINE Upto(F, k) == F = [n \in 0 .. k |-> IF n = 0 THEN 1 ELSE 2 * F[n - 1]]
            S == {k \in Nat : \E F : Upto(F, k)}
<1>1. 0 \in S
  <2>1. Upto([n \in 0 .. 0 |-> 1], 0)
    OBVIOUS
  <2>. QED
    BY <2>1
<1>2. ASSUME NEW k \in Nat, k \in S
      PROVE  k + 1 \in S
  <2>1. PICK F : Upto(F, k)
    BY <1>2
  <2>. DEFINE G == [n \in 0 .. k + 1 |-> IF n = k + 1 THEN 2 * F[k] ELSE F[n]]
  <2>2. ASSUME NEW n \in 0 .. k + 1
        PROVE  G[n] = IF n = 0 THEN 1 ELSE 2 * G[n - 1]
    <3>1. \A i \in 0 .. k : F[i] = IF i = 0 THEN 1 ELSE 2 * F[i - 1]
      BY <2>1
    <3>2. CASE n = k + 1
      BY <3>2
    <3>3. CASE n # k + 1
      <4>1. n \in 0 .. k /\ (n # 0 => n - 1 \in 0 .. k)
        BY <3>3
      <4>. QED
        BY <3>1, <3>3, <4>1
    <3>. QED
      BY <3>2, <3>3
  <2>3. G = [n \in 0 .. k + 1 |-> G[n]]
    OBVIOUS
  <2>. HIDE DEF G
  <2>4. Upto(G, k + 1)
    BY <2>2, <2>3
  <2>. HIDE DEF Upto
  <2>. QED
    BY <2>4
<1>. HIDE DEF S
<1>3. \A i \in 0 .. Cap + 1 : i \in S
  BY <1>1, <1>2, CapNat, UpTo
<1>4. Cap + 1 \in S
  BY <1>3, CapNat
<1>. QED
  BY <1>4 DEF S

LEMMA Pow2Is == Pow2 = [n \in 0 .. Cap + 1 |-> IF n = 0 THEN 1 ELSE 2 * Pow2[n - 1]]
BY Pow2Exists, Zenon DEF Pow2

\* It doubles, and stays above its index.
LEMMA Pow2Step ==
  /\ Pow2[0] = 1
  /\ \A n \in 0 .. Cap : Pow2[n + 1] = 2 * Pow2[n]
<1>1. \A n \in 0 .. Cap + 1 : Pow2[n] = IF n = 0 THEN 1 ELSE 2 * Pow2[n - 1]
  BY Pow2Is
<1>2. ASSUME NEW n \in 0 .. Cap
      PROVE  Pow2[n + 1] = 2 * Pow2[n]
  <2>1. n + 1 \in 0 .. Cap + 1 /\ n + 1 # 0 /\ (n + 1) - 1 = n
    BY CapNat
  <2>2. Pow2[n + 1] = 2 * Pow2[(n + 1) - 1]
    BY <1>1, <2>1
  <2>. QED
    BY <2>1, <2>2
<1>. QED
  BY <1>1, <1>2, CapNat

LEMMA Pow2Above == \A n \in 0 .. Cap + 1 : Pow2[n] \in Nat /\ n < Pow2[n]
<1>. DEFINE S == {n \in 0 .. Cap + 1 : Pow2[n] \in Nat /\ n < Pow2[n]}
<1>1. 0 \in S
  BY Pow2Step, CapNat
<1>2. ASSUME NEW i \in 0 .. Cap, i \in S
      PROVE  i + 1 \in S
  <2>1. Pow2[i + 1] = 2 * Pow2[i]
    BY Pow2Step
  <2>. QED
    BY <1>2, <2>1, CapNat
<1>. HIDE DEF S
<1>3. \A i \in 0 .. Cap + 1 : i \in S
  BY <1>1, <1>2, CapNat, UpTo
<1>. QED
  BY <1>3 DEF S

LEMMA Pow2Grows ==
  ASSUME NEW a \in 0 .. Cap + 1, NEW b \in 0 .. Cap + 1, a <= b
  PROVE  Pow2[a] <= Pow2[b]
<1>. DEFINE S == {d \in 0 .. b - a : Pow2[a] <= Pow2[a + d]}
<1>1. 0 \in S
  <2>1. a + 0 = a /\ Pow2[a] \in Nat
    BY Pow2Above
  <2>. QED
    BY <2>1
<1>2. ASSUME NEW d \in 0 .. (b - a) - 1, d \in S
      PROVE  d + 1 \in S
  <2>1. a + d \in 0 .. Cap /\ (a + d) + 1 = a + (d + 1)
    BY CapNat
  <2>2. Pow2[a + (d + 1)] = 2 * Pow2[a + d]
    BY <2>1, Pow2Step
  <2>3. Pow2[a + d] \in Nat /\ Pow2[a] \in Nat
    BY <2>1, Pow2Above, CapNat
  <2>. QED
    BY <1>2, <2>2, <2>3
<1>. HIDE DEF S
<1>3. \A i \in 0 .. b - a : i \in S
  BY <1>1, <1>2, UpTo
<1>4. b - a \in S /\ a + (b - a) = b
  BY <1>3
<1>. QED
  BY <1>4 DEF S

\* slog2 is the exponent of the greatest power of two at most n.
LEMMA LogIs ==
  ASSUME NEW n \in 1 .. Cap, NEW k, k = slog2(n)
  PROVE  k \in 0 .. n /\ Pow2[k] <= n /\ n < Pow2[k + 1]
<1>1. PICK T : T = {i \in 0 .. n : Pow2[i] <= n}
  OBVIOUS
<1>0. n \in Nat /\ 1 <= n
  BY CapNat
<1>2. T \subseteq 0 .. n /\ 0 \in T
  BY <1>0, <1>1, Pow2Step
<1>3. PICK x \in T : \A y \in T : y <= x
  BY <1>0, <1>2, GreatestNat
<1>4. x \in 0 .. n /\ Pow2[x] <= n
  BY <1>1
<1>5. n < Pow2[x + 1]
  <2>1. CASE x = n
    <3>1. n + 1 \in 0 .. Cap + 1
      BY CapNat
    <3>2. Pow2[n + 1] \in Nat /\ n + 1 < Pow2[n + 1]
      BY <3>1, Pow2Above
    <3>. QED
      BY <2>1, <3>2
  <2>2. CASE x # n
    <3>1. x + 1 \in 0 .. n /\ x + 1 \in 0 .. Cap + 1
      BY <1>4, <2>2, CapNat
    <3>2. x + 1 \notin T
      BY <1>3, <1>4
    <3>3. ~(Pow2[x + 1] <= n) /\ Pow2[x + 1] \in Nat
      BY <1>1, <3>1, <3>2, Pow2Above
    <3>. QED
      BY <3>3
  <2>. QED
    BY <2>1, <2>2
<1>6. \E i \in 0 .. n : Pow2[i] <= n /\ n < Pow2[i + 1]
  BY <1>4, <1>5
<1>. QED
  BY <1>6, Zenon DEF slog2

\* The nodes below i, and i.
Below(n, I, R, i) == IF i = Nil THEN {} ELSE {j \in I : n[j].key \in R[i]}

LEMMA ApartCount ==
  ASSUME NEW C, IsFiniteSet(C), NEW A, A \subseteq C, NEW B, B \subseteq C,
         A \cap B = {}, NEW i \in C, i \notin A, i \notin B
  PROVE  /\ Cardinality(A) \in Nat /\ Cardinality(B) \in Nat /\ Cardinality(C) \in Nat
         /\ Cardinality(A) + Cardinality(B) + 1 <= Cardinality(C)
<1>1. IsFiniteSet(A) /\ IsFiniteSet(B)
  BY FS_Subset
<1>2. PICK U : U = A \cup B
  OBVIOUS
<1>3. IsFiniteSet(U) /\ Cardinality(U) = Cardinality(A) + Cardinality(B) - Cardinality(A \cap B)
  BY <1>1, <1>2, FS_Union
<1>4. Cardinality(A \cap B) = 0
  BY FS_EmptySet
<1>5. IsFiniteSet(U \cup {i}) /\ Cardinality(U \cup {i}) = Cardinality(U) + 1
  <2>1. i \notin U
    BY <1>2
  <2>. QED
    BY <2>1, <1>3, FS_AddElement
<1>6. U \cup {i} \subseteq C
  BY <1>2
<1>7. Cardinality(U \cup {i}) <= Cardinality(C)
  BY <1>6, FS_Subset
<1>8. /\ Cardinality(A) \in Nat /\ Cardinality(B) \in Nat /\ Cardinality(C) \in Nat
      /\ Cardinality(U) \in Nat /\ Cardinality(U \cup {i}) \in Nat
  BY <1>1, <1>3, <1>5, FS_CardinalityType
<1>. QED
  BY <1>3, <1>4, <1>5, <1>7, <1>8

\* The two sides of a node have no node in common.
LEMMA SidesApart ==
  ASSUME NEW I, Room(I), NEW n, Typed(n, I), NEW rt, NEW R, NEW P, Shape(n, rt, I, R, P),
         NEW i \in I, NEW a \in Dir, NEW b \in Dir, a # b, NEW x, x = n[i][a], NEW y, y = n[i][b],
         NEW A, A = Below(n, I, R, x), NEW B, B = Below(n, I, R, y), NEW C, C = Below(n, I, R, i)
  PROVE  /\ A \subseteq C /\ B \subseteq C /\ A \cap B = {}
         /\ i \in C /\ i \notin A /\ i \notin B /\ C \subseteq I
<1>1. C = {j \in I : n[j].key \in R[i]}
  BY DEF Below, Room
<1>2. n[i].key \in R[i] /\ n[i].key \in Int
  BY KeyOf DEF Shape
<1>3. x # Nil => R[x] \subseteq R[i] /\ \A k \in R[x] : k \in Int /\ Before(a, k, n[i].key)
  <2>1. SUFFICES ASSUME x # Nil
                 PROVE  R[x] \subseteq R[i] /\ \A k \in R[x] : k \in Int /\ Before(a, k, n[i].key)
    OBVIOUS
  <2>. QED
    BY <2>1, Link1
<1>4. y # Nil => R[y] \subseteq R[i] /\ \A k \in R[y] : k \in Int /\ Before(b, k, n[i].key)
  <2>1. SUFFICES ASSUME y # Nil
                 PROVE  R[y] \subseteq R[i] /\ \A k \in R[y] : k \in Int /\ Before(b, k, n[i].key)
    OBVIOUS
  <2>. QED
    BY <2>1, Link1
<1>5. ASSUME NEW j \in A PROVE j \in C /\ n[j].key \in Int /\ Before(a, n[j].key, n[i].key)
  <2>1. x # Nil /\ j \in I /\ n[j].key \in R[x]
    BY <1>5 DEF Below
  <2>. QED
    BY <2>1, <1>1, <1>3
<1>6. ASSUME NEW j \in B PROVE j \in C /\ n[j].key \in Int /\ Before(b, n[j].key, n[i].key)
  <2>1. y # Nil /\ j \in I /\ n[j].key \in R[y]
    BY <1>6 DEF Below
  <2>. QED
    BY <2>1, <1>1, <1>4
<1>7. \A k \in Int : ~(Before(a, k, n[i].key) /\ Before(b, k, n[i].key))
  BY <1>2 DEF Before, Dir
<1>8. i \notin A /\ i \notin B
  <2>1. ~Before(a, n[i].key, n[i].key) /\ ~Before(b, n[i].key, n[i].key)
    BY <1>2, BeforeOrder
  <2>. QED
    BY <2>1, <1>5, <1>6
<1>9. A \cap B = {}
  BY <1>5, <1>6, <1>7
<1>10. i \in C /\ C \subseteq I
  BY <1>1, <1>2
<1>11. A \subseteq C /\ B \subseteq C
  BY <1>5, <1>6
<1>. QED
  BY <1>8, <1>9, <1>10, <1>11

\* What is below i is a power of two at least, of as many as there are black nodes on the way down.
Crowded(n, I, R, H, i) ==
  /\ BH(H, i) \in 0 .. Cap
  /\ Pow2[BH(H, i)] <= Cardinality(Below(n, I, R, i)) + 1

LEMMA CrowdedUp ==
  ASSUME NEW I, Room(I), Cardinality(I) <= Cap, NEW n, Typed(n, I), NEW rt, NEW R, NEW P, Shape(n, rt, I, R, P),
         NEW D, NEW H, Balanced(n, D, H, I), NEW i \in I, \A e \in Dir : Crowded(n, I, R, H, n[i][e])
  PROVE  Crowded(n, I, R, H, i)
<1>1. PICK a, b : a = "l" /\ b = "r" /\ a \in Dir /\ b \in Dir /\ a # b
  BY DEF Dir
<1>2. PICK x, y : x = n[i][a] /\ y = n[i][b]
  OBVIOUS
<1>3. PICK A, B, C : A = Below(n, I, R, x) /\ B = Below(n, I, R, y) /\ C = Below(n, I, R, i)
  OBVIOUS
<1>4. /\ A \subseteq C /\ B \subseteq C /\ A \cap B = {}
      /\ i \in C /\ i \notin A /\ i \notin B /\ C \subseteq I
  BY <1>1, <1>2, <1>3, SidesApart
<1>5. IsFiniteSet(I) /\ IsFiniteSet(C) /\ Cardinality(C) <= Cardinality(I)
  BY <1>4, FS_Subset DEF Room
<1>6. PICK p, q, s, t : p = Cardinality(A) /\ q = Cardinality(B) /\ s = Cardinality(C) /\ t = Cardinality(I)
  OBVIOUS
<1>7. p \in Nat /\ q \in Nat /\ s \in Nat /\ p + q + 1 <= s
  BY <1>4, <1>5, <1>6, ApartCount
<1>8. t \in Nat /\ s <= t /\ t <= Cap /\ Cap \in Nat
  BY <1>5, <1>6, FS_CardinalityType, CapNat
<1>9. PICK h : h = BH(H, x)
  OBVIOUS
<1>10. h \in 0 .. Cap /\ Pow2[h] <= p + 1
  BY <1>1, <1>2, <1>3, <1>6, <1>9 DEF Crowded
<1>11. Pow2[BH(H, y)] <= q + 1 /\ BH(H, y) \in Nat
  BY <1>1, <1>2, <1>3, <1>6, CapNat DEF Crowded
<1>12. H[i] = h + (IF i \in D THEN 0 ELSE 1) /\ H[i] = BH(H, y) + (IF i \in D THEN 0 ELSE 1)
  BY <1>1, <1>2, <1>9 DEF Balanced
<1>13. h \in Nat /\ BH(H, y) = h /\ (H[i] = h \/ H[i] = h + 1)
  BY <1>8, <1>10, <1>11, <1>12
<1>14. Pow2[h] <= q + 1
  BY <1>11, <1>13
<1>15. h + 1 \in 0 .. Cap + 1 /\ h \in 0 .. Cap + 1
  BY <1>8, <1>10
<1>16. Pow2[h + 1] \in Nat /\ h + 1 < Pow2[h + 1] /\ Pow2[h] \in Nat
  BY <1>15, Pow2Above
<1>17. Pow2[h + 1] = 2 * Pow2[h]
  BY <1>10, Pow2Step
<1>18. Pow2[h + 1] <= s + 1 /\ Pow2[h] <= s + 1
  BY <1>7, <1>10, <1>14, <1>16, <1>17
<1>19. h + 1 \in 0 .. Cap /\ h \in 0 .. Cap
  BY <1>7, <1>8, <1>13, <1>16, <1>18
<1>20. H[i] \in 0 .. Cap /\ Pow2[H[i]] <= s + 1
  BY <1>13, <1>18, <1>19
<1>21. BH(H, i) = H[i]
  BY DEF BH, Room
<1>. QED
  BY <1>3, <1>6, <1>20, <1>21 DEF Crowded

LEMMA CrowdedAll ==
  ASSUME NEW I, Room(I), Cardinality(I) <= Cap, NEW n, Typed(n, I), NEW rt, NEW R, NEW P, Shape(n, rt, I, R, P),
         NEW D, NEW H, Balanced(n, D, H, I)
  PROVE  \A i \in I : Crowded(n, I, R, H, i)
<1>1. PICK N, W : N \in Nat /\ W \in [I -> 0 .. N] /\ \A i \in I, d \in Dir :
           n[i][d] # Nil => W[n[i][d]] < W[i]
  BY Ranked
<1>2. Crowded(n, I, R, H, Nil)
  <2>1. Below(n, I, R, Nil) = {} /\ BH(H, Nil) = 0
    BY DEF Below, BH
  <2>2. Cardinality({}) = 0
    BY FS_EmptySet
  <2>3. Pow2[0] = 1 /\ 0 \in 0 .. Cap
    BY Pow2Step, CapNat
  <2>4. Pow2[BH(H, Nil)] <= Cardinality(Below(n, I, R, Nil)) + 1
    BY <2>1, <2>2, <2>3
  <2>. QED
    BY <2>1, <2>3, <2>4 DEF Crowded
<1>3. PICK Q : Q = {i \in I : ~Crowded(n, I, R, H, i)}
  OBVIOUS
<1>4. Q = {}
  <2>1. SUFFICES ASSUME Q # {} PROVE FALSE
    OBVIOUS
  <2>2. PICK T : T = {W[i] : i \in Q}
    OBVIOUS
  <2>3. T \subseteq Nat /\ T # {}
    BY <1>1, <1>3, <2>1, <2>2
  <2>4. PICK x \in T : \A y \in T : x <= y
    BY <2>3, LeastNat
  <2>5. PICK i \in Q : x = W[i]
    BY <2>2, <2>4
  <2>6. i \in I /\ ~Crowded(n, I, R, H, i)
    BY <1>3
  <2>7. ASSUME NEW e \in Dir PROVE Crowded(n, I, R, H, n[i][e])
    <3>1. PICK j : j = n[i][e]
      OBVIOUS
    <3>2. j \in I \cup {Nil}
      BY <2>6, <3>1, SonOf
    <3>3. CASE j = Nil
      BY <3>1, <3>3, <1>2
    <3>4. CASE j # Nil
      <4>1. W[j] < W[i]
        BY <2>6, <3>1, <3>4, <1>1
      <4>2. j \in I /\ W[j] \in Nat /\ W[i] \in Nat
        BY <2>6, <3>2, <3>4, <1>1
      <4>3. j \notin Q
        <5>1. SUFFICES ASSUME j \in Q PROVE FALSE
          OBVIOUS
        <5>2. W[j] \in T
          BY <5>1, <2>2
        <5>. QED
          BY <5>2, <2>4, <2>5, <4>1, <4>2
      <4>. QED
        BY <3>1, <4>2, <4>3, <1>3
    <3>. QED
      BY <3>2, <3>3, <3>4
  <2>. QED
    BY <2>6, <2>7, CrowdedUp
<1>. QED
  BY <1>3, <1>4

\* The levels below i, i's own included, from those below its sons.
Greater(u, v) == IF u > v THEN u ELSE v
Levels(n, h, i) == IF i = Nil THEN 0 ELSE 1 + Greater(h[n[i].l], h[n[i].r])

LevelsOf(h, n, L) == h = [i \in L |-> Levels(n, h, i)]

LEMMA GreaterOf ==
  ASSUME NEW u \in Nat, NEW v \in Nat
  PROVE  /\ Greater(u, v) \in Nat
         /\ \A w \in Nat : u <= w /\ v <= w => Greater(u, v) <= w
BY DEF Greater

LEMMA LevelsNat ==
  ASSUME NEW I, NEW n, Typed(n, I), NEW i \in I \cup {Nil}, NEW h, h \in [I \cup {Nil} -> Nat], Nil \notin I
  PROVE  Levels(n, h, i) \in Nat
<1>1. CASE i = Nil
  BY <1>1 DEF Levels
<1>2. CASE i # Nil
  <2>1. PICK a, b : a = "l" /\ b = "r" /\ a \in Dir /\ b \in Dir
    BY DEF Dir
  <2>2. PICK x, y : x = n[i][a] /\ y = n[i][b]
    OBVIOUS
  <2>3. x \in I \cup {Nil} /\ y \in I \cup {Nil}
    BY <1>2, <2>1, <2>2, SonOf
  <2>4. h[x] \in Nat /\ h[y] \in Nat
    BY <2>3
  <2>5. x = n[i].l /\ y = n[i].r
    BY <2>1, <2>2
  <2>6. Levels(n, h, i) = 1 + Greater(h[x], h[y])
    BY <1>2, <2>5 DEF Levels
  <2>7. Greater(h[x], h[y]) \in Nat
    BY <2>4, GreaterOf
  <2>. QED
    BY <2>6, <2>7
<1>. QED
  BY <1>1, <1>2

\* Two counts that agree below i give it the same levels.
LEMMA LevelsSame ==
  ASSUME NEW n, NEW i, NEW f, NEW g, \A e \in Dir : g[n[i][e]] = f[n[i][e]]
  PROVE  Levels(n, g, i) = Levels(n, f, i)
<1>1. PICK a, b : a = "l" /\ b = "r" /\ a \in Dir /\ b \in Dir
  BY DEF Dir
<1>2. PICK x, y : x = n[i][a] /\ y = n[i][b]
  OBVIOUS
<1>3. x = n[i].l /\ y = n[i].r
  BY <1>1, <1>2
<1>4. g[x] = f[x] /\ g[y] = f[y]
  BY <1>1, <1>2
<1>. QED
  BY <1>3, <1>4 DEF Levels

LEMMA LevelsExist ==
  ASSUME NEW I, Room(I), NEW n, Typed(n, I), NEW N \in Nat, NEW W, W \in [I -> 0 .. N],
         \A i \in I, d \in Dir : n[i][d] # Nil => W[n[i][d]] < W[i]
  PROVE  \E f : LevelsOf(f, n, I \cup {Nil})
<1>. DEFINE L == I \cup {Nil}
            Upto(k, f) == /\ f \in [L -> Nat] /\ f[Nil] = 0
                          /\ \A i \in I : W[i] <= k => f[i] = Levels(n, f, i)
            U == {k \in 0 .. N : \E f : Upto(k, f)}
<1>0. Nil \notin I
  BY DEF Room
<1>1. 0 \in U
  <2>1. PICK f : f = [i \in L |-> IF i = Nil THEN 0 ELSE 1]
    OBVIOUS
  <2>2. f \in [L -> Nat] /\ f[Nil] = 0
    BY <2>1
  <2>3. ASSUME NEW i \in I, W[i] <= 0 PROVE f[i] = Levels(n, f, i)
    <3>1. ASSUME NEW d \in Dir PROVE n[i][d] = Nil
      <4>1. SUFFICES ASSUME n[i][d] # Nil PROVE FALSE
        OBVIOUS
      <4>2. PICK j : j = n[i][d]
        OBVIOUS
      <4>3. j \in I /\ W[j] < W[i]
        BY <4>1, <4>2, SonOf
      <4>4. W[j] \in 0 .. N /\ W[i] \in 0 .. N
        BY <4>3
      <4>. QED
        BY <4>3, <4>4, <2>3
    <3>2. PICK a, b : a = "l" /\ b = "r" /\ a \in Dir /\ b \in Dir
      BY DEF Dir
    <3>3. n[i][a] = n[i].l /\ n[i][b] = n[i].r
      BY <3>2
    <3>4. n[i].l = Nil /\ n[i].r = Nil
      BY <3>1, <3>2, <3>3
    <3>5. f[i] = 1 /\ i # Nil
      BY <2>1, <1>0
    <3>. QED
      BY <3>4, <3>5, <2>2 DEF Levels, Greater
  <2>. QED
    BY <2>2, <2>3
<1>2. ASSUME NEW k \in 0 .. N - 1, k \in U PROVE k + 1 \in U
  <2>1. PICK f : Upto(k, f)
    BY <1>2
  <2>2. PICK g : g = [i \in L |-> IF i # Nil /\ W[i] = k + 1 THEN Levels(n, f, i) ELSE f[i]]
    OBVIOUS
  <2>3. f \in [L -> Nat] /\ f[Nil] = 0 /\ \A i \in I : W[i] <= k => f[i] = Levels(n, f, i)
    BY <2>1
  <2>4. \A i \in L : Levels(n, f, i) \in Nat
    BY <2>3, <1>0, LevelsNat
  <2>5. g \in [L -> Nat] /\ g[Nil] = 0
    BY <2>2, <2>3, <2>4
  <2>6. ASSUME NEW i \in I, W[i] <= k + 1, NEW e \in Dir PROVE g[n[i][e]] = f[n[i][e]]
    <3>1. PICK j : j = n[i][e]
      OBVIOUS
    <3>2. CASE j = Nil
      BY <3>1, <3>2, <2>3, <2>5
    <3>3. CASE j # Nil
      <4>1. j \in I /\ W[j] < W[i]
        BY <3>1, <3>3, SonOf
      <4>2. W[j] \in 0 .. N /\ W[i] \in 0 .. N
        BY <4>1
      <4>3. W[j] # k + 1
        BY <4>1, <4>2, <2>6
      <4>. QED
        BY <3>1, <4>1, <4>3, <2>2
    <3>. QED
      BY <3>2, <3>3
  <2>7. ASSUME NEW i \in I, W[i] <= k + 1 PROVE g[i] = Levels(n, g, i)
    <3>1. Levels(n, g, i) = Levels(n, f, i)
      BY <2>6, <2>7, LevelsSame
    <3>2. CASE W[i] = k + 1
      BY <3>1, <3>2, <2>2, <1>0
    <3>3. CASE W[i] # k + 1
      <4>1. W[i] <= k
        <5>1. W[i] \in 0 .. N
          OBVIOUS
        <5>. QED
          BY <5>1, <3>3, <2>7
      <4>2. g[i] = f[i]
        BY <3>3, <2>2
      <4>. QED
        BY <4>1, <4>2, <3>1, <2>3
    <3>. QED
      BY <3>2, <3>3
  <2>8. Upto(k + 1, g)
    BY <2>5, <2>7
  <2>9. k + 1 \in 0 .. N
    OBVIOUS
  <2>. HIDE DEF Upto
  <2>. QED
    BY <2>8, <2>9
<1>. HIDE DEF U
<1>3. N \in U
  BY <1>1, <1>2, UpTo
<1>4. PICK f : Upto(N, f)
  BY <1>3 DEF U
<1>5. f \in [L -> Nat] /\ \A i \in L : f[i] = Levels(n, f, i)
  <2>1. \A i \in I : W[i] <= N
    OBVIOUS
  <2>2. f[Nil] = Levels(n, f, Nil)
    BY <1>4 DEF Levels
  <2>. QED
    BY <1>4, <2>1, <2>2
<1>6. LevelsOf(f, n, L)
  BY <1>5 DEF LevelsOf
<1>. QED
  BY <1>6

LEMMA DepthIs ==
  ASSUME NEW f, LevelsOf(f, node, Link)
  PROVE  \E h : LevelsOf(h, node, Link) /\ Depth = h[root]
<1>. DEFINE h[i \in Link] == Levels(node, h, i)
<1>1. Depth = h[root]
  BY Zenon DEF Depth, Levels, Greater
<1>2. LevelsOf(h, node, Link)
  BY Zenon DEF LevelsOf
<1>. HIDE DEF h
<1>. QED
  BY <1>1, <1>2

\* No way down is longer than twice the black nodes on it.
Short(h, D, H, i) ==
  h[i] \in Nat /\ h[i] <= 2 * BH(H, i) + IF i \in D THEN 1 ELSE 0

LEMMA ShortUp ==
  ASSUME NEW I, Nil \notin I, NEW n, Typed(n, I), NEW D, Under(n, D, I, Nil), NEW H, Balanced(n, D, H, I),
         NEW i \in I, NEW h, h[i] = Levels(n, h, i), \A e \in Dir : Short(h, D, H, n[i][e])
  PROVE  Short(h, D, H, i)
<1>1. PICK a, b : a = "l" /\ b = "r" /\ a \in Dir /\ b \in Dir
  BY DEF Dir
<1>2. PICK x, y : x = n[i][a] /\ y = n[i][b]
  OBVIOUS
<1>3. x \in I \cup {Nil} /\ y \in I \cup {Nil}
  BY <1>1, <1>2, SonOf
<1>4. i \in D => x \notin D /\ y \notin D
  BY <1>1, <1>2 DEF Under
<1>5. PICK p, q, c : p = BH(H, x) /\ q = BH(H, y) /\ c = IF i \in D THEN 0 ELSE 1
  OBVIOUS
<1>6. H[i] = p + c /\ H[i] = q + c
  BY <1>1, <1>2, <1>5 DEF Balanced
<1>7. p \in Nat /\ q \in Nat /\ c \in Nat
  BY <1>3, <1>5 DEF Balanced, BH
<1>8. p = q
  BY <1>6, <1>7
<1>9. Short(h, D, H, x) /\ Short(h, D, H, y)
  BY <1>1, <1>2
<1>10. h[x] \in Nat /\ h[y] \in Nat
  BY <1>9 DEF Short
<1>11. h[x] <= 2 * p + c /\ h[y] <= 2 * p + c
  <2>1. CASE i \in D
    BY <2>1, <1>4, <1>5, <1>7, <1>8, <1>9 DEF Short
  <2>2. CASE i \notin D
    BY <2>2, <1>5, <1>7, <1>8, <1>9, <1>10 DEF Short
  <2>. QED
    BY <2>1, <2>2
<1>12. 2 * p + c \in Nat
  BY <1>7
<1>13. Greater(h[x], h[y]) \in Nat /\ Greater(h[x], h[y]) <= 2 * p + c
  BY <1>10, <1>11, <1>12, GreaterOf
<1>14. h[i] = 1 + Greater(h[x], h[y])
  <2>1. x = n[i].l /\ y = n[i].r
    BY <1>1, <1>2
  <2>. QED
    BY <2>1 DEF Levels
<1>15. BH(H, i) = p + c
  BY <1>6 DEF BH
<1>16. h[i] \in Nat /\ h[i] <= 1 + 2 * p + c
  BY <1>7, <1>13, <1>14
<1>17. 2 * (p + c) + (IF i \in D THEN 1 ELSE 0) = 1 + 2 * p + c
  BY <1>5, <1>7
<1>. QED
  BY <1>15, <1>16, <1>17 DEF Short

LEMMA ShortAll ==
  ASSUME NEW I, Room(I), NEW n, NEW rt, NEW R, NEW P, NEW D, Fine(n, rt, I, R, P, D),
         NEW H, Balanced(n, D, H, I), NEW h, LevelsOf(h, n, I \cup {Nil})
  PROVE  \A i \in I : Short(h, D, H, i)
<1>0. Typed(n, I) /\ Shape(n, rt, I, R, P) /\ Under(n, D, I, Nil) /\ Nil \notin I
  BY DEF Fine, Room
<1>1. PICK N, W : N \in Nat /\ W \in [I -> 0 .. N] /\ \A i \in I, d \in Dir :
           n[i][d] # Nil => W[n[i][d]] < W[i]
  BY <1>0, Ranked
<1>2. \A i \in I \cup {Nil} : h[i] = Levels(n, h, i)
  BY Zenon DEF LevelsOf
<1>3. Short(h, D, H, Nil)
  <2>1. h[Nil] = 0 /\ BH(H, Nil) = 0
    BY <1>2 DEF Levels, BH
  <2>. QED
    BY <2>1 DEF Short
<1>4. PICK Q : Q = {i \in I : ~Short(h, D, H, i)}
  OBVIOUS
<1>5. Q = {}
  <2>1. SUFFICES ASSUME Q # {} PROVE FALSE
    OBVIOUS
  <2>2. PICK T : T = {W[i] : i \in Q}
    OBVIOUS
  <2>3. T \subseteq Nat /\ T # {}
    BY <1>1, <1>4, <2>1, <2>2
  <2>4. PICK x \in T : \A y \in T : x <= y
    BY <2>3, LeastNat
  <2>5. PICK i \in Q : x = W[i]
    BY <2>2, <2>4
  <2>6. i \in I /\ ~Short(h, D, H, i)
    BY <1>4
  <2>7. ASSUME NEW e \in Dir PROVE Short(h, D, H, n[i][e])
    <3>1. PICK j : j = n[i][e]
      OBVIOUS
    <3>2. j \in I \cup {Nil}
      BY <2>6, <3>1, <1>0, SonOf
    <3>3. CASE j = Nil
      BY <3>1, <3>3, <1>3
    <3>4. CASE j # Nil
      <4>1. W[j] < W[i]
        BY <2>6, <3>1, <3>4, <1>1
      <4>2. j \in I /\ W[j] \in Nat /\ W[i] \in Nat
        BY <2>6, <3>2, <3>4, <1>1
      <4>3. j \notin Q
        <5>1. SUFFICES ASSUME j \in Q PROVE FALSE
          OBVIOUS
        <5>2. W[j] \in T
          BY <5>1, <2>2
        <5>. QED
          BY <5>2, <2>4, <2>5, <4>1, <4>2
      <4>. QED
        BY <3>1, <4>2, <4>3, <1>4
    <3>. QED
      BY <3>2, <3>3, <3>4
  <2>8. h[i] = Levels(n, h, i)
    BY <2>6, <1>2
  <2>. QED
    BY <2>6, <2>7, <2>8, <1>0, ShortUp
<1>. QED
  BY <1>4, <1>5

\* Between calls the tree is no deeper than a traversal can follow.
LEMMA InvShallowEnough == TreeInv => ShallowEnough
<1>1. SUFFICES ASSUME TreeInv, pc = "idle", size > 0 PROVE Depth <= ScanLevels
  BY DEF ShallowEnough
<1>2. PICK n, rt, I : n = node /\ rt = root /\ I = Slots(size)
  OBVIOUS
<1>3. Room(I) /\ I = Index /\ size \in 0 .. Cap
  BY <1>1, <1>2, InvRanges
<1>4. Resting(n, rt, size)
  BY <1>1, <1>2, AtRestNow
<1>5. size # 0 /\ size \in 1 .. Cap
  BY <1>1, <1>3, CapNat
<1>6. PICK R, P, D : Fine(n, rt, I, R, P, D) /\ rt \notin D
  BY <1>2, <1>4, <1>5 DEF Resting, IsTree
<1>7. Typed(n, I) /\ Shape(n, rt, I, R, P) /\ Even(n, D, I) /\ rt \in I /\ rt # Nil
  BY <1>6, <1>3 DEF Fine, Shape, Room
<1>8. PICK H : Balanced(n, D, H, I)
  BY <1>7 DEF Even
<1>9. Cardinality(I) = size
  <2>1. Cardinality(0 .. size - 1) = size
    <3>1. size - 1 \in Int /\ 0 <= size - 1 /\ (size - 1) - 0 + 1 = size
      BY <1>5, CapNat
    <3>. QED
      BY <3>1, FS_Interval
  <2>. QED
    BY <2>1, <1>2 DEF Slots
<1>10. Cardinality(I) <= Cap
  BY <1>9, <1>5, CapNat
<1>11. Crowded(n, I, R, H, rt)
  BY <1>3, <1>7, <1>8, <1>10, CrowdedAll
<1>12. PICK b : b = H[rt]
  OBVIOUS
<1>13. b = BH(H, rt)
  BY <1>12, <1>7 DEF BH
<1>14. b \in 0 .. Cap /\ Pow2[b] <= size + 1
  <2>1. PICK B, s : B = Below(n, I, R, rt) /\ s = Cardinality(B)
    OBVIOUS
  <2>2. B \in SUBSET I /\ IsFiniteSet(I)
    BY <2>1, <1>3, <1>7 DEF Below, Room
  <2>3. s \in Nat /\ s <= size
    BY <2>1, <2>2, <1>9, FS_Subset, FS_CardinalityType
  <2>4. b \in 0 .. Cap /\ Pow2[b] <= s + 1
    BY <2>1, <1>11, <1>13 DEF Crowded
  <2>5. Pow2[b] \in Nat /\ size \in Nat
    BY <2>4, Pow2Above, CapNat, <1>5
  <2>. QED
    BY <2>3, <2>4, <2>5
<1>15. PICK k : k = slog2(size)
  OBVIOUS
<1>16. k \in 0 .. size /\ Pow2[k] <= size /\ size < Pow2[k + 1]
  BY <1>5, <1>15, LogIs
<1>17. b <= k + 1
  <2>1. SUFFICES ASSUME ~(b <= k + 1) PROVE FALSE
    OBVIOUS
  <2>2. k \in Nat /\ b \in Nat /\ size \in Nat /\ k + 1 \in 0 .. Cap + 1 /\ k + 2 \in 0 .. Cap + 1
        /\ b \in 0 .. Cap + 1 /\ k + 2 <= b /\ k + 1 \in 0 .. Cap /\ (k + 1) + 1 = k + 2
    BY <2>1, <1>5, <1>14, <1>16, CapNat
  <2>3. Pow2[k + 2] <= Pow2[b]
    BY <2>2, Pow2Grows
  <2>4. Pow2[(k + 1) + 1] = 2 * Pow2[k + 1]
    BY <2>2, Pow2Step
  <2>5. Pow2[k + 1] \in Nat /\ Pow2[b] \in Nat /\ Pow2[k + 2] \in Nat
    BY <2>2, Pow2Above
  <2>6. size + 1 <= Pow2[k + 1]
    BY <1>16, <2>2, <2>5
  <2>7. Pow2[k + 2] = 2 * Pow2[k + 1]
    BY <2>2, <2>4
  <2>. QED
    BY <1>14, <2>2, <2>3, <2>5, <2>6, <2>7
<1>18. Link = I \cup {Nil}
  BY <1>3 DEF Link
<1>19. PICK N, W : N \in Nat /\ W \in [I -> 0 .. N] /\ \A i \in I, d \in Dir :
           n[i][d] # Nil => W[n[i][d]] < W[i]
  BY <1>3, <1>7, Ranked
<1>20. PICK f : LevelsOf(f, n, I \cup {Nil})
  BY <1>3, <1>7, <1>19, LevelsExist
<1>21. LevelsOf(f, node, Link)
  BY <1>2, <1>18, <1>20, Zenon
<1>22. PICK h : LevelsOf(h, node, Link) /\ Depth = h[root]
  BY <1>21, DepthIs
<1>23. LevelsOf(h, n, I \cup {Nil})
  BY <1>2, <1>18, <1>22, Zenon
<1>24. Short(h, D, H, rt)
  BY <1>3, <1>6, <1>7, <1>8, <1>23, ShortAll
<1>25. h[rt] \in Nat /\ h[rt] <= 2 * b
  BY <1>24, <1>13, <1>6, <1>14, CapNat DEF Short
<1>26. Depth = h[rt]
  BY <1>2, <1>22
<1>27. ScanLevels = 2 * (k + 1)
  BY <1>15 DEF ScanLevels
<1>28. 2 * b <= 2 * (k + 1)
  BY <1>14, <1>16, <1>17, CapNat, <1>5
<1>. QED
  BY <1>14, <1>16, <1>25, <1>26, <1>27, <1>28, CapNat, <1>5

----------------------------------------------------------------------------
(* Theorems.                                                               *)

\* Every link, every local of a walk and the root is a node of the array, or
\* nothing: no walk follows a stale index, whatever was deleted and moved.
THEOREM RBTreeTypeOK == CoreSpec => []TypeOK
BY TreeInvHolds, InvTypeOK, PTL

\* Between calls the tree passes st_assert: no red node has a red son, and all
\* paths down have as many black nodes, after any insertions and deletions.
THEOREM RBTreeRedBlackRules == CoreSpec => []RedBlackRules
BY TreeInvHolds, InvRedBlackRules, PTL

\* Between calls st_locate reaches every node by its key, whatever rotations
\* and moves into the holes of deletions there were.
THEOREM RBTreeEveryNodeFound == CoreSpec => []EveryNodeFound
BY TreeInvHolds, InvEveryNodeFound, PTL

\* What st_delete asserts: a walk meets its key once, and locate_parent finds
\* the parent of the node that moves into the hole.
THEOREM RBTreeAssertsHold == CoreSpec => []AssertsHold
BY TreeInvHolds, InvAssertsHold, PTL

\* Between calls no path down is longer than the stack srt_treer_aux reserves
\* for a traversal, so that its S_ASSERT on the level never fails.
THEOREM RBTreeShallowEnough == CoreSpec => []ShallowEnough
BY TreeInvHolds, InvShallowEnough, PTL

\* A tree implements the map KeyMap specifies: each call changes and answers
\* what it should in its last step, and no step before it is seen.  An
\* insertion is refused only by a tree that holds Cap keys.
THEOREM RBTreeImplements == CoreSpec => Implements
<1>1. Init => Abstract!Init
  BY InitInv
<1>2. TreeInv /\ [CoreNext]_vars => [Abstract!Next]_(Abstract!vars)
  BY NextInv
<1>. QED
  BY <1>1, <1>2, TreeInvHolds, PTL DEF CoreSpec, Implements, Abstract!Spec
================================================================================
