------------------------------ MODULE TreeScan ------------------------------
(***************************************************************************)
(* The traversals of the tree (the end of saux/stree.c) and the iteration  *)
(* over a range of keys (SM_ENUM_INORDER_XX in smap.h).                    *)
(*                                                                         *)
(* None of them recurses: each keeps an explicit stack of levels of fixed  *)
(* size, an element of which holds a node and what is done of it.  A turn  *)
(* of the loop is an operator on the state of the loop; a traversal is its *)
(* closure.  They read the tree of RBTree and change nothing.              *)
(***************************************************************************)
EXTENDS RBTree, SequencesExt

\* The state of a traversal: the levels of the stack, what f was called with
\* (out, which starts with said), and the deepest level so far.  s is the state
\* of a level (eTState).
AtRoot(said) == [p |-> <<[c |-> root, s |-> "start"]>>, out |-> said, max |-> 0]

TopOf(z) == Last(z.p)
Visited(z, now) == IF now THEN [z EXCEPT !.out = Append(@, TopOf(z).c)] ELSE z
LevelUp(z) == [z EXCEPT !.p = Front(@)]

\* Go down to the son i; the level keeps in which direction (s).
LevelDown(z, s, i) ==
  [z EXCEPT !.p = Append([@ EXCEPT ![Len(@)].s = s], [c |-> i, s |-> "start"])]

\* A mutant of PastLeft: the node is reported on the way up only.
PastLeftLate(z, m) ==
  LET r == node[TopOf(z).c].r
  IN  IF r # Nil THEN LevelDown(z, "right", r)
      ELSE LevelUp(Visited(z, m # "pre"))

\* The left side of the node is done: its right side, or up.
PastLeft(z, m) ==
  LET seen == Visited(z, m = "in")
      r    == node[TopOf(z).c].r
  IN  IF r # Nil THEN LevelDown(seen, "right", r)
      ELSE LevelUp(Visited(seen, m = "post"))

\* A turn of the loop of srt_treer_aux.
ScanTurn(z0, m) ==
  LET z == [z0 EXCEPT !.max = IF Len(z0.p) - 1 > @ THEN Len(z0.p) - 1 ELSE @]
      l == node[TopOf(z).c].l
      first == Visited(z, m = "pre")
  IN  CASE TopOf(z).s = "start" -> IF l # Nil THEN LevelDown(first, "left", l)
                                              ELSE PastLeft(first, m)
        [] TopOf(z).s = "left"  -> PastLeft(z, m)
        [] TopOf(z).s = "right" -> LevelUp(Visited(z, m = "post"))

RECURSIVE ScanFrom(_, _)
ScanFrom(z, m) == IF z.p = << >> THEN z ELSE ScanFrom(ScanTurn(z, m), m)

\* st_traverse_preorder, st_traverse_inorder, st_traverse_postorder: m is
\* "pre", "in" or "post".  Before the first node f is called with ST_NIL.  Each
\* answers max + 1.
Scan(m) == ScanFrom(AtRoot(<<Nil>>), m)

----------------------------------------------------------------------------
(* st_traverse_levelorder: two vectors, of this level and of the next one. *)

\* A mutant of SonsOf: only nodes with a left son have their right one seen.
SonsOfLeft(i) ==
  IF node[i].l = Nil THEN << >>
  ELSE <<node[i].l>> \o SelectSeq(<<node[i].r>>, LAMBDA x : x # Nil)

SonsOf(i) == SelectSeq(<<node[i].l, node[i].r>>, LAMBDA x : x # Nil)

RECURSIVE LevelsFrom(_, _)
LevelsFrom(curr, out) ==
  LET next == FlattenSeq([i \in DOMAIN curr |-> SonsOf(curr[i])])
      said == out \o <<Nil>> \o curr     \* ST_NIL starts a level
  IN  IF next = << >> THEN said ELSE LevelsFrom(next, said)

LevelScan == LevelsFrom(<<root>>, << >>)

----------------------------------------------------------------------------
(* sm_itr_*: the elements between two keys, in order.  stop is the key at   *)
(* which the callback answers 0, or no key: the iteration ends there, and   *)
(* the element is not counted.  out: the elements counted.                  *)

\* The node is reported, if it is in range, and then its right side is entered
\* unless all its keys are out of range.
RangeVisit(z, lo, hi, stop) ==
  LET n  == node[TopOf(z).c]
      in == lo <= n.key /\ n.key <= hi
  IN  IF in /\ n.key = stop THEN [z EXCEPT !.p = << >>]
      ELSE IF n.r # Nil /\ n.key < hi
             THEN LevelDown(Visited(z, in), "right", n.r)
             ELSE LevelUp(Visited(z, in))

\* A mutant of RangeNode: the left side is left out when the node is in range.
RangeNodePruned(z, lo, hi, stop) ==
  LET n == node[TopOf(z).c]
  IN  IF TopOf(z).s = "start" /\ n.l # Nil /\ n.key > hi
        THEN LevelDown(z, "left", n.l)
        ELSE RangeVisit(z, lo, hi, stop)

\* A turn at a node entered, or whose left side is done.  The left side is left
\* out when all its keys are out of range.
RangeNode(z, lo, hi, stop) ==
  LET n == node[TopOf(z).c]
  IN  IF TopOf(z).s = "start" /\ n.l # Nil /\ n.key > lo
        THEN LevelDown(z, "left", n.l)
        ELSE RangeVisit(z, lo, hi, stop)

RECURSIVE RangeFrom(_, _, _, _)
RangeFrom(z, lo, hi, stop) ==
  CASE z.p = << >>          -> z.out
    [] TopOf(z).s = "right" -> RangeFrom(LevelUp(z), lo, hi, stop)
    [] OTHER                -> RangeFrom(RangeNode(z, lo, hi, stop), lo, hi, stop)

RangeScan(lo, hi, stop) == RangeFrom(AtRoot(<< >>), lo, hi, stop)

----------------------------------------------------------------------------
(* Properties.                                                             *)

\* The orders by their definitions, for the subtree at i.
RECURSIVE OrderAt(_, _)
OrderAt(i, m) ==
  LET l == OrderAt(node[i].l, m)
      r == OrderAt(node[i].r, m)
  IN  IF i = Nil THEN << >>
      ELSE CASE m = "pre"  -> <<i>> \o l \o r
             [] m = "in"   -> l \o <<i>> \o r
             [] m = "post" -> l \o r \o <<i>>

\* The nodes of S by rising key.
ByKey(S) ==
  [n \in 1 .. Cardinality(S) |->
     CHOOSE i \in S : Cardinality({j \in S : node[j].key < node[i].key}) = n - 1]

\* Between calls, each depth-first traversal reports ST_NIL and then every node
\* once and in its order -- in order means by rising key --, answers the depth
\* of the tree, and its stack never passes the limit the code asserts
\* (stree.c:623).
TraversalsExact ==
  pc = "idle" /\ size > 0 =>
    /\ \A m \in {"pre", "in", "post"} :
         LET z == Scan(m)
         IN  /\ z.out = <<Nil>> \o OrderAt(root, m)
             /\ z.max + 1 = Depth /\ z.max < ScanLevels
    /\ Scan("in").out = <<Nil>> \o ByKey(Index)

\* Between calls, the traversal by levels reports Nil and then the nodes of a
\* level from left to right, level after level.
LevelsExact ==
  LET depthOf[i \in Index] == IF i = root THEN 1
        ELSE 1 + depthOf[CHOOSE j \in Index : i \in {node[j].l, node[j].r}]
      level(d) == <<Nil>> \o ByKey({i \in Index : depthOf[i] = d})
  IN  pc = "idle" /\ size > 0 =>
        LevelScan = FlattenSeq([d \in 1 .. Depth |-> level(d)])

\* Between calls every traversal of all the nodes is exact: the depth-first ones
\* and the one by levels.
ScansExact == TraversalsExact /\ LevelsExact

\* Between calls, an iteration between two keys reports the elements in range,
\* all of them and no other, by rising key, whatever it leaves out; when the
\* callback ends it at a key, those below the key.
RangesExact ==
  pc = "idle" /\ size > 0 =>
    LET keys == {node[i].key : i \in Index}
        ends == keys \cup {k + 1 : k \in keys}
        never == Max(ends)
        within(lo, hi) == ByKey({i \in Index : node[i].key \in lo .. hi})
    IN  /\ \A lo, hi \in ends : RangeScan(lo, hi, never) = within(lo, hi)
        /\ \A lo, stop \in keys :
             RangeScan(lo, never, stop) =
               within(lo, IF lo <= stop THEN stop - 1 ELSE never)
=============================================================================
