---------------------------- MODULE MCRBTreeDeep ---------------------------
(***************************************************************************)
(* TLC instances of RBTree that follow a plan: a fixed sequence of calls,  *)
(* then any calls on some keys, endlessly or a few.                        *)
(*   MCRBTreeDeep      every sequence of calls on six keys; a few calls on *)
(*                     trees of fourteen and twelve keys, and after a long *)
(*                     history of insertions, deletions and rewrites; and  *)
(*                     the traversals of every tree of five keys, and of   *)
(*                     those of fourteen and twelve keys after a few calls *)
(*   MCRBTreeUpdate    keys that are there are written again               *)
(*   MCRBTreeHang      a history that leaves the links in a ring           *)
(***************************************************************************)
EXTENDS TreeScan

CONSTANT Plans    \* Layouts, Updates or Hangs, below

VARIABLES
  plan,   \* the plan followed
  made,   \* the calls made
  turns   \* the turns the loop running has made, counted up to ScanLevels

\* fill: the calls made first, k to insert a key (or to write it again) and -k
\* to delete it; keys: those of the calls that follow, whether they are there or
\* not; free: how many of them; again: they write keys that are there, and
\* nothing else; core: the history is one of CoreSpec, and ends before a turn
\* that is not.
Endless == 0
Rising  == <<1, 2, 3, 4, 5, 6, 7, 8, 9, 10, 11, 12, 13, 14>>
Mixed   == <<14, 6, 7, 12, 9, 22, 15, 8, 1, 10, 5, 16>>
Plan(fill, keys, free) ==
  [fill |-> fill, keys |-> keys, free |-> free, again |-> FALSE, core |-> TRUE]

\* Keys that are there are written again, among insertions and deletions.
History == <<20, 19, 18, 16, 15, 5, 4, 3, 2, 8, 7, -1, 2, 7, 2, -18, -19, -1,
             -6, -1, 2, 7, 2, -20, -18, -6, 11, -6, 10, 18, 2, 10, 2, -18, -18,
             -9, 14, -9, 13, 18, 2, 13, 2, -17, -7, -8, -10, -15, 1, -4, -12, 1>>

\* The same without the writes that leave the root red.
RedRoots == {13, 14, 15, 22, 23, 52}
Harmless ==
  LET kept == SelectSeq([n \in DOMAIN History |-> n], LAMBDA n : n \notin RedRoots)
  IN  [n \in DOMAIN kept |-> History[kept[n]]]

Growths == {Plan(<< >>, 1 .. 6, Endless),
            Plan(Rising, 1 .. 14, 3),
            Plan(Mixed, {1, 2, 7, 9, 14, 22}, 4),
            Plan(Harmless, {1, 2, 10, 11, 16, 17}, 4)}
Scans == {Plan(<< >>, 1 .. 5, Endless),
          Plan(Rising, {1, 8, 14}, 2),
          Plan(Mixed, {1, 7, 14, 22}, 2)}
Layouts == Growths \cup Scans

Updates == {[Plan(Mixed, Key, 3) EXCEPT !.again = TRUE, !.core = FALSE]}
Hangs == {[Plan(History, {17}, 1) EXCEPT !.core = FALSE]}

Present == {node[i].key : i \in Index}

DeepInit == Init /\ made = 0 /\ plan \in Plans /\ turns = 0

Turn ==
  /\ plan.core => ~LeavesRootRed
  /\ Step
  /\ turns' = IF pc' = "idle" THEN 0 ELSE Min({turns + 1, ScanLevels})
  /\ UNCHANGED <<plan, made>>

DeepNext ==
  /\ UNCHANGED plan
  /\ \/ Turn
     \/ /\ made < Len(plan.fill)
        /\ LET k == plan.fill[made + 1]
           IN  IF k < 0 THEN StartDelete(-k) ELSE StartInsert("insert", k, 0)
        /\ made' = made + 1
        /\ UNCHANGED turns
     \/ /\ made >= Len(plan.fill)
        /\ plan.free # Endless => made < Len(plan.fill) + plan.free
        /\ made' = IF plan.free = Endless THEN made ELSE made + 1
        /\ IF plan.again
             THEN \E k \in Present : StartInsert("insert", k, 0)
             ELSE \E k \in plan.keys :
                    StartDelete(k) \/ StartInsert("insert", k, 0)
        /\ UNCHANGED turns

DeepSpec ==
  /\ DeepInit /\ [][DeepNext]_<<vars, plan, made, turns>>
  /\ WF_<<vars, plan, made, turns>>(Turn)

\* No walk makes more turns than a traversal has levels, twice those of a
\* balanced tree: a call takes O(log n) turns (stree.h), and so it returns.
\* A rotation takes the walk back up, and must not do so again and again.
WalksShort == pc # "idle" => turns < ScanLevels

\* TreeScan's properties, of the trees that are scanned: every traversal reports
\* the nodes once and in its order, within the levels it has a stack for, ...
TraversalsOrdered == plan \in Scans => ScansExact

\* ... and an iteration over a range reports the elements in it, by rising key,
\* up to where the callback ends it.
IterationsInRange == plan \in Scans => RangesExact
=============================================================================
