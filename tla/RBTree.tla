------------------------------- MODULE RBTree ------------------------------
(***************************************************************************)
(* The red-black tree of saux/stree.c, the container under every srt_map.  *)
(*                                                                         *)
(* Nodes live in an array and link to each other by index; there is no     *)
(* parent link.  Both walks go from the root down only, keep a window of   *)
(* four nodes (current, parent, grandparent, great-grandparent) and        *)
(* rebalance on the way, before they know whether the key is there.  A     *)
(* deleted node is replaced by its in-order predecessor, and the hole that *)
(* leaves in the array is filled with the last node of the array, whose    *)
(* parent is looked for by key.                                            *)
(*                                                                         *)
(* One step of the model is one turn of the search loop.                   *)
(***************************************************************************)
EXTENDS Integers, FiniteSets

CONSTANTS
  Key,      \* keys, ordered as integers (t->cmp_f)
  Val,      \* values a client stores, a subset of 0 .. ValMod - 1
  ValMod,   \* values are added modulo ValMod
  Cap       \* nodes the container can hold: its buffer, or ST_NIL

ASSUME RBTreeAssumption ==
  /\ Key \subseteq Int
  /\ ValMod \in Nat \ {0}
  /\ Val \subseteq 0 .. ValMod - 1
  /\ Cap \in Nat \ {0}

Nil == Cap       \* ST_NIL, past every index
Aux == Cap + 1   \* the node auxn on the stack of st_delete

VARIABLES
  node,   \* the array: 0 .. size - 1, and Aux, to nodes
  root,   \* t->root
  size,   \* t->d.size
  pc,     \* "idle", or the loop being run: "insert" or "delete"
  call,   \* the call being run, or else the last one answered
  walk,   \* the locals of the loop
  res     \* what the last call answered: S_TRUE, S_FALSE, a value, Fault

vars == <<node, root, size, pc, call, walk, res>>

Fault  == -1     \* the call read through a null pointer
NoCall == [op |-> "none", key |-> 0, val |-> 0]
NoNode == [key |-> 0, val |-> 0, l |-> Nil, r |-> Nil, red |-> FALSE]

Dir   == {"l", "r"}
Index == 0 .. size - 1
Link  == Index \cup {Nil}
Node  == [key : Key \cup {0}, val : 0 .. ValMod - 1,
          l : Link, r : Link, red : BOOLEAN]

\* c, p, pp, ppp: the window; d and ld: the last two directions (d is d0 in
\* st_delete); found: the node that holds the key to delete.
AtRest == [c |-> Nil, p |-> Nil, pp |-> Nil, ppp |-> Nil,
           d |-> "l", ld |-> "l", found |-> Nil]

Window == Link \cup {Aux}

\* Links stay inside the array: every index a walk follows is of a node.
TypeOK ==
  /\ size \in 0 .. Cap
  /\ node \in [Index \cup {Aux} -> Node]
  /\ root \in Link
  /\ pc \in {"idle", "insert", "delete"}
  /\ call \in [op : {"none", "insert", "inc", "delete", "at", "clear"},
               key : Key \cup {0}, val : Val \cup {0}]
  /\ walk \in [c : Link, p : Window, pp : Window, ppp : Window,
               d : Dir, ld : Dir, found : Link]
  /\ res \in {Fault} \cup 0 .. ValMod

----------------------------------------------------------------------------
(* Helpers.  A tree is a pair [n, root] of a node array and a root index.  *)

Son(n, x, d) == IF x = Nil THEN Nil ELSE n[x][d]             \* get_lr
SetSon(n, x, d, y) ==                                        \* set_lr
  IF x = Nil THEN n ELSE [n EXCEPT ![x][d] = y]
IsRed(n, x) == x # Nil /\ n[x].red
SetRed(n, x, b) == IF x = Nil THEN n ELSE [n EXCEPT ![x].red = b]
Other(d) == IF d = "l" THEN "r" ELSE "l"                     \* cd

SideOf(n, p, x) == IF n[p].r = x THEN "r" ELSE "l"

\* STN_SET_RBB: a red node over two black sons.
SetRBB(n, x) ==
  SetRed(SetRed(SetRed(n, x, TRUE), n[x].l, FALSE), n[x].r, FALSE)

\* rot1x: the son y of x on side xd takes the place of x, which becomes its
\* son on side d; y black, x red.
Rot1(n, x, d, xd) ==
  LET y  == n[x][xd]
      n1 == SetSon(n, x, xd, Son(n, y, d))
  IN  [top |-> y, n |-> SetRed(SetRed(SetSon(n1, y, d, x), x, TRUE), y, FALSE)]

\* rot2x: the son is rotated the other way first.
Rot2(n, x, d, xd) ==
  LET child == n[x][xd]
      first == Rot1(n, child, xd, d)
  IN  Rot1(SetSon(first.n, x, xd, first.top), x, d, xd)

\* A mutant of Rehang: a root that is rotated down stays the root.
RehangRootKept(t, p, x, top) ==
  [n |-> IF p = Nil THEN t.n ELSE SetSon(t.n, p, SideOf(t.n, p, x), top),
   root |-> t.root]

\* Hang `top' under p where x was; the root moves with it.
Rehang(t, p, x, top) ==
  [n    |-> IF p = Nil THEN t.n ELSE SetSon(t.n, p, SideOf(t.n, p, x), top),
   root |-> IF p = Nil \/ x = t.root THEN top ELSE t.root]

Become(t, s) ==
  /\ node' = [i \in 0 .. s - 1 \cup {Aux} |-> IF i = Aux THEN NoNode ELSE t.n[i]]
  /\ root' = t.root
  /\ size' = s

----------------------------------------------------------------------------
(* st_insert_rw.                                                           *)

\* rw_f, or update_node_data without it: an increment adds to the value of a
\* node that was there.
Rewritten(old, v, existing) ==
  IF call.op = "inc" /\ existing THEN (old + v) % ValMod ELSE v

\* new_node in slot size, hung where the walk fell off the tree.
WithLeaf ==
  LET leaf == [key |-> call.key, val |-> Rewritten(0, call.val, FALSE),
               l |-> Nil, r |-> Nil, red |-> TRUE]
      n1   == [i \in DOMAIN node \cup {size} |->
                 IF i = size THEN leaf ELSE node[i]]
  IN  SetRed(SetSon(n1, walk.p, walk.d, size), root, FALSE)

\* "Two red sons? -> red parent + black sons"
ColoursPushedUp ==
  IF IsRed(node, node[walk.c].l) /\ IsRed(node, node[walk.c].r)
    THEN SetRBB(node, walk.c)
    ELSE node

\* "Check for double red case": the grandparent is rotated.
DoubleRedFixed(n, c) ==
  LET x   == walk.pp
      ld  == walk.ld
      rot == IF c = n[walk.p][ld] THEN Rot1(n, x, Other(ld), ld)
                                  ELSE Rot2(n, x, Other(ld), ld)
  IN  IF x # Nil /\ n[c].red /\ n[walk.p].red
        THEN Rehang([n |-> rot.n, root |-> root], walk.ppp, x, rot.top)
        ELSE [n |-> n, root |-> root]

Reply(r) ==
  /\ pc' = "idle"
  /\ walk' = AtRest
  /\ res' = r

\* st_grow fails when the container is full; the key is not looked for.
\* The first node needs no walk.
StartInsert(op, k, v) ==
  /\ pc = "idle"
  /\ call' = [op |-> op, key |-> k, val |-> v]
  /\ \/ /\ size = Cap
        /\ Reply(0)
        /\ UNCHANGED <<node, root, size>>
     \/ /\ size = 0 /\ size < Cap
        /\ LET first == [NoNode EXCEPT !.key = k, !.val = v]
           IN  Become([n |-> [i \in {0} |-> first], root |-> 0], 1)
        /\ Reply(1)
     \/ /\ size > 0 /\ size < Cap
        /\ pc' = "insert"
        /\ walk' = [AtRest EXCEPT !.c = root]
        /\ res' = 0
        /\ UNCHANGED <<node, root, size>>

InsertLeaf ==
  /\ pc = "insert" /\ walk.c = Nil
  /\ Become(DoubleRedFixed(WithLeaf, size), size + 1)
  /\ Reply(1)
  /\ UNCHANGED call

InsertStep == DoubleRedFixed(ColoursPushedUp, walk.c)

\* A mutant of InsertExisting: the walk goes on from the same node.
InsertExistingGoesOn ==
  /\ pc = "insert" /\ walk.c # Nil
  /\ node[walk.c].key = call.key
  /\ Become([InsertStep EXCEPT !.n[walk.c].val = Rewritten(@, call.val, TRUE)],
            size)
  /\ UNCHANGED <<pc, call, walk, res>>

\* The key is there: its node is rewritten and the walk ends, whatever the
\* colours it has pushed up so far.
InsertExisting ==
  /\ pc = "insert" /\ walk.c # Nil
  /\ node[walk.c].key = call.key
  /\ Become([InsertStep EXCEPT !.n[walk.c].val = Rewritten(@, call.val, TRUE)],
            size)
  /\ Reply(1)
  /\ UNCHANGED call

InsertDescend ==
  /\ pc = "insert" /\ walk.c # Nil
  /\ node[walk.c].key # call.key
  /\ Become(InsertStep, size)
  /\ LET d == IF node[walk.c].key < call.key THEN "r" ELSE "l"
     IN  walk' = [c |-> InsertStep.n[walk.c][d], p |-> walk.c, pp |-> walk.p,
                  ppp |-> walk.pp, d |-> d, ld |-> walk.d, found |-> Nil]
  /\ UNCHANGED <<pc, call, res>>

----------------------------------------------------------------------------
(* st_delete.                                                              *)

\* (A tree of ST_NIL nodes is refused, too: Cap is smaller.)
StartDelete(k) ==
  /\ pc = "idle"
  /\ call' = [op |-> "delete", key |-> k, val |-> 0]
  /\ \/ /\ size = 0
        /\ Reply(0)
        /\ UNCHANGED <<node, root, size>>
     \/ /\ size > 0
        /\ pc' = "delete"
        /\ node' = SetSon(node, Aux, "r", root)
        /\ walk' = [AtRest EXCEPT !.c = root, !.p = Aux, !.d = "r"]
        /\ res' = 0
        /\ UNCHANGED <<root, size>>

Matches == node[walk.c].key = call.key
NextDir == IF node[walk.c].key < call.key THEN "r" ELSE "l"

\* A mutant of SiblingLends: the current node is left black.
SiblingLendsNoRed(s, xd0) ==
  LET p   == walk.p
      rot == IF IsRed(node, node[s][walk.d]) THEN Rot2(node, p, walk.d, xd0)
                                             ELSE Rot1(node, p, walk.d, xd0)
      t   == Rehang([n |-> rot.n, root |-> root], walk.pp, p, rot.top)
  IN  [n |-> SetRBB(t.n, rot.top), root |-> t.root, p |-> p]

\* The sibling s of the current node has a red son: p is rotated over s, and
\* the colours of the three nodes are set.
SiblingLends(s, xd0) ==
  LET p   == walk.p
      rot == IF IsRed(node, node[s][walk.d]) THEN Rot2(node, p, walk.d, xd0)
                                             ELSE Rot1(node, p, walk.d, xd0)
      t   == Rehang([n |-> rot.n, root |-> root], walk.pp, p, rot.top)
      n1  == SetRBB(t.n, rot.top)
  IN  [n |-> SetRed(n1, walk.c, n1[rot.top].red), root |-> t.root, p |-> p]

\* "Push child red node down", so that the node the walk ends at is red.
\* The result's p is the parent of the current node, which a rotation of the
\* current node itself changes.
RedPushedDown(d) ==
  LET c   == walk.c
      p   == walk.p
      y   == node[c][Other(d)]
      s   == node[p][Other(walk.d)]
      rot == Rot1(node, c, d, Other(d))
      asIs == [n |-> node, root |-> root, p |-> p]
  IN  IF node[c].red \/ IsRed(node, node[c][d]) THEN asIs
      ELSE IF IsRed(node, y)
        THEN [n |-> SetSon(rot.n, p, walk.d, y), p |-> y,
              root |-> IF c = root THEN y ELSE root]
      ELSE IF s = Nil THEN asIs
      ELSE IF ~IsRed(node, node[s].l) /\ ~IsRed(node, node[s].r)
        THEN [asIs EXCEPT !.n = SetRed(SetRed(SetRed(node, p, FALSE),
                                              s, TRUE), c, TRUE)]
      ELSE IF walk.pp = Nil THEN asIs
      ELSE SiblingLends(s, Other(walk.d))

FoundNow == IF Matches THEN walk.c ELSE walk.found

DeleteLast ==
  /\ pc = "delete" /\ Matches /\ size = 1
  /\ Become([n |-> node, root |-> Nil], 0)
  /\ Reply(1)
  /\ UNCHANGED call

DeleteDescend ==
  LET d == NextDir
      t == RedPushedDown(d)
  IN  /\ pc = "delete" /\ ~(Matches /\ size = 1)
      /\ t.n[walk.c][d] # Nil
      /\ node' = t.n
      /\ root' = t.root
      /\ walk' = [c |-> t.n[walk.c][d], p |-> walk.c, pp |-> t.p,
                  ppp |-> Nil, d |-> d, ld |-> "l", found |-> FoundNow]
      /\ UNCHANGED <<size, pc, call, res>>

\* A mutant of LocateParent: the comparison is the wrong way round.
LocateParentSwapped(t, s) ==
  LET step(i) == t.n[i][IF t.n[i].key < t.n[s].key THEN "l" ELSE "r"]
      from[i \in Link] ==
        IF i = Nil \/ t.n[i].l = s \/ t.n[i].r = s THEN i ELSE from[step(i)]
  IN  IF t.root = s THEN s ELSE from[t.root]

\* locate_parent: from the root, by key, down to the node a link of which is
\* s.  The root is its own parent; Nil when the walk falls off the tree.
LocateParent(t, s) ==
  LET step(i) == t.n[i][IF t.n[i].key < t.n[s].key THEN "r" ELSE "l"]
      from[i \in Link] ==
        IF i = Nil \/ t.n[i].l = s \/ t.n[i].r = s THEN i ELSE from[step(i)]
  IN  IF t.root = s THEN s ELSE from[t.root]

\* The node the walk ended at, c, is unlinked; it has one son at most.
Unlinked(t, c, p) ==
  LET son == t.n[c][IF t.n[c].l = Nil THEN "r" ELSE "l"]
  IN  [t EXCEPT !.n = SetSon(t.n, p, SideOf(t.n, p, c), son)]

\* A mutant of HoleFilled: a root that moves is not followed.
HoleFilledRootKept(t, c) ==
  LET last == size - 1
      fp   == LocateParent(t, last)
      side == IF t.root = last \/ t.n[fp].l = last THEN "l" ELSE "r"
      n1   == [t.n EXCEPT ![c] = t.n[last]]
  IN  IF c = last \/ fp = Nil THEN t
      ELSE [n |-> SetSon(n1, fp, side, c), root |-> t.root]

\* The last node of the array moves into the hole at c.
HoleFilled(t, c) ==
  LET last == size - 1
      fp   == LocateParent(t, last)
      side == IF t.root = last \/ t.n[fp].l = last THEN "l" ELSE "r"
      n1   == [t.n EXCEPT ![c] = t.n[last]]
  IN  IF c = last \/ fp = Nil THEN t
      ELSE [n |-> SetSon(n1, fp, side, c),
            root |-> IF t.root = last THEN c ELSE t.root]

Blackened(t) == [t EXCEPT !.n = SetRed(t.n, t.root, FALSE)]

AtBottom == RedPushedDown(NextDir).n[walk.c][NextDir] = Nil

\* A mutant of Spliced: the value stays behind.
SplicedKeyOnly ==
  LET pd == RedPushedDown(NextDir)
      n1 == [pd.n EXCEPT ![FoundNow].key = pd.n[walk.c].key]
  IN  Unlinked([n |-> n1, root |-> pd.root], walk.c, pd.p)

\* At the bottom, the data of the last node of the walk go to the node that
\* held the key, and it is the last node that is taken out.
Spliced ==
  LET pd == RedPushedDown(NextDir)
      n1 == [pd.n EXCEPT ![FoundNow].key = pd.n[walk.c].key,
                         ![FoundNow].val = pd.n[walk.c].val]
  IN  Unlinked([n |-> n1, root |-> pd.root], walk.c, pd.p)

DeleteBottom ==
  LET pd == RedPushedDown(NextDir)
  IN  /\ pc = "delete" /\ ~(Matches /\ size = 1)
      /\ AtBottom
      /\ IF FoundNow = Nil
           THEN /\ Become(Blackened([n |-> pd.n, root |-> pd.root]), size)
                /\ Reply(0)
           ELSE /\ \E t \in {Spliced} :
                     Become(Blackened(HoleFilled(t, walk.c)), size - 1)
                /\ Reply(1)
      /\ UNCHANGED call

----------------------------------------------------------------------------
(* Reading, and emptying.                                                  *)

\* st_locate.  It compares with the root before it looks for one.
Locate(k) ==
  LET from[i \in Link] ==
        IF i = Nil \/ node[i].key = k THEN i
        ELSE from[node[i][IF node[i].key < k THEN "r" ELSE "l"]]
  IN  from[root]

\* sm_at_ii and its like: the value, 0 for a key that is not there.
At(k) ==
  /\ pc = "idle"
  /\ call' = [op |-> "at", key |-> k, val |-> 0]
  /\ res' = IF root = Nil THEN Fault
            ELSE IF Locate(k) = Nil THEN 0
            ELSE node[Locate(k)].val
  /\ UNCHANGED <<node, root, size, pc, walk>>

\* sm_clear
Clear ==
  /\ pc = "idle"
  /\ call' = [op |-> "clear", key |-> 0, val |-> 0]
  /\ Become([n |-> node, root |-> Nil], 0)
  /\ res' = 0
  /\ UNCHANGED <<pc, walk>>

Pow2[k \in 0 .. Cap + 1] == IF k = 0 THEN 1 ELSE 2 * Pow2[k - 1]
slog2(n) == CHOOSE k \in 0 .. n : Pow2[k] <= n /\ n < Pow2[k + 1]

\* A mutant of ScanLevels: the levels of a perfectly balanced tree.
ScanLevelsBalanced == slog2(size) + 1

\* The levels a traversal has a stack for (S_ASSERT in srt_treer_aux).
ScanLevels == 2 * (slog2(size) + 1)

----------------------------------------------------------------------------

Init ==
  /\ node = [i \in {Aux} |-> NoNode]
  /\ root = Nil
  /\ size = 0
  /\ pc = "idle"
  /\ call = NoCall
  /\ walk = AtRest
  /\ res = 0

\* A turn of the loop that is running.
Step ==
  \/ InsertLeaf \/ InsertExisting \/ InsertDescend
  \/ DeleteLast \/ DeleteDescend \/ DeleteBottom

Writes ==
  \/ \E k \in Key, v \in Val, op \in {"insert", "inc"} : StartInsert(op, k, v)
  \/ \E k \in Key : StartDelete(k)
  \/ Clear

\* The client looks no key up in an empty map: sm_at_ii and its like do not
\* survive it (see At).
Next == Step \/ Writes \/ (size > 0 /\ \E k \in Key : At(k))

\* A single thread runs a call to its end: only the loop needs fairness.
Spec == Init /\ [][Next]_vars /\ WF_vars(Step)

\* The last turn of a call that writes a key that is there, if it is going to
\* leave the root red.
LeavesRootRed ==
  /\ pc = "insert" /\ walk.c # Nil
  /\ node[walk.c].key = call.key
  /\ IsRed(InsertStep.n, InsertStep.root)

\* The histories in which no call that writes a key that is there leaves the
\* root red.  Once one does, the next walks repair less than they should.
CoreNext == Next /\ (InsertExisting => ~IsRed(node, root)')
CoreSpec == Init /\ [][CoreNext]_vars

----------------------------------------------------------------------------
(* Properties.                                                             *)

\* st_assert_aux: the black height of a subtree, or 0 when it has two red
\* nodes in a row or sons of different heights.  (Its test of the order of
\* the keys passes unless both sons are out of order.)
Height ==
  LET h[i \in Link] ==
        IF i = Nil THEN 1
        ELSE LET l == h[node[i].l]
                 r == h[node[i].r]
             IN  IF \/ node[i].red /\ (IsRed(node, node[i].l) \/ IsRed(node, node[i].r))
                    \/ /\ node[i].l # Nil /\ node[i].r # Nil
                       /\ node[node[i].l].key >= node[i].key
                       /\ node[node[i].r].key <= node[i].key
                    \/ l = 0 \/ l # r
                   THEN 0
                   ELSE IF node[i].red THEN l ELSE l + 1
  IN  h

st_assert ==
  IF size = 1 THEN ~IsRed(node, root) ELSE Height[root] # 0

\* Between calls the tree passes the code's own check (st_assert in stree.c,
\* which the tests call after every change): no red node has a red son, and
\* every path down has as many black nodes.
RedBlackRules == pc = "idle" => st_assert

\* Between calls, and whatever nodes have moved in the array, the search of
\* st_locate reaches every node by its key: no node is lost, shadowed by
\* another or unreachable.
EveryNodeFound == pc = "idle" => \A i \in Index : Locate(node[i].key) = i

Depth ==
  LET h[i \in Link] ==
        IF i = Nil THEN 0
        ELSE 1 + IF h[node[i].l] > h[node[i].r] THEN h[node[i].l] ELSE h[node[i].r]
  IN  h[root]

\* Between calls the tree has no more levels than a traversal makes room for.
ShallowEnough == pc = "idle" /\ size > 0 => Depth <= ScanLevels

\* The assertions inside st_delete: the walk meets the key once, and the node
\* that moves into the hole has a parent.
AssertsHold ==
  pc = "delete" =>
    /\ Matches => walk.found = Nil
    /\ AtBottom /\ FoundNow # Nil /\ walk.c # size - 1 =>
         LocateParent(Spliced, size - 1) # Nil

\* Every call returns.  It does not in every history: a write of a key that is
\* there may leave the root red, and a later walk then turns in a ring.
CallsReturn == pc # "idle" ~> pc = "idle"

\* Each call does what a map promises, in the one step that answers it.
Contents ==
  [k \in {node[i].key : i \in Index} |->
     node[CHOOSE i \in Index : node[i].key = k].val]

Abstract == INSTANCE KeyMap WITH
  dict <- Contents,
  cap <- Cap,
  call <- IF pc = "idle" THEN call ELSE NoCall
Implements == Abstract!Spec
=============================================================================
