------------------------------- MODULE KeyMap ------------------------------
(***************************************************************************)
(* What a libsrt map promises its caller, whatever it is made of: a        *)
(* partial function from keys to values, changed and read one call at a    *)
(* time.  `call' is the last call the map answered and `res' its answer    *)
(* (S_TRUE and S_FALSE are 1 and 0; a look-up answers the value, or 0 for  *)
(* a key that is not there, as sm_at_ii and shm_at_ii do).                 *)
(*                                                                         *)
(* RBTree (stree.c under smap.c) and HashMap (shmap.c) implement it.       *)
(***************************************************************************)
EXTENDS Integers, FiniteSets, Functions

CONSTANTS
  Key,      \* keys
  Val,      \* values, a subset of 0 .. ValMod - 1
  ValMod    \* values are added modulo ValMod (the width of the value type)

VARIABLES
  dict,     \* the contents
  cap,      \* the keys the map has room for, whatever happens
  call,     \* the last call answered
  res       \* its answer

vars == <<dict, cap, call, res>>

NoCall == [op |-> "none", key |-> 0, val |-> 0]

Init ==
  /\ dict = << >>
  /\ cap \in Nat
  /\ call = NoCall
  /\ res = 0

Answer(op, k, v, r) ==
  /\ call' = [op |-> op, key |-> k, val |-> v]
  /\ res' = r

\* A call is under way: it has no answer yet, and no effect yet.
Ask ==
  /\ call' = NoCall
  /\ res' = 0
  /\ UNCHANGED dict

Bind(k, v) ==
  dict' = [x \in DOMAIN dict \cup {k} |-> IF x = k THEN v ELSE dict[x]]

\* Insertion replaces the value of a key that is there.
Insert(k, v) ==
  /\ Bind(k, v)
  /\ Answer("insert", k, v, 1)

\* Increment adds to the value of a key that is there.
Inc(k, v) ==
  /\ Bind(k, IF k \in DOMAIN dict THEN (dict[k] + v) % ValMod ELSE v)
  /\ Answer("inc", k, v, 1)

\* Both may be refused, and then change nothing, but only by a map that holds
\* all it was given room for.
Refuse(op, k, v) ==
  /\ Cardinality(DOMAIN dict) >= cap
  /\ Answer(op, k, v, 0)
  /\ UNCHANGED dict

Delete(k) ==
  /\ dict' = Restrict(dict, DOMAIN dict \ {k})
  /\ Answer("delete", k, 0, IF k \in DOMAIN dict THEN 1 ELSE 0)

At(k) ==
  /\ Answer("at", k, 0, IF k \in DOMAIN dict THEN dict[k] ELSE 0)
  /\ UNCHANGED dict

Clear ==
  /\ dict' = << >>
  /\ Answer("clear", 0, 0, 0)

Calls ==
  \/ Ask
  \/ \E k \in Key, v \in Val :
       \/ Insert(k, v)
       \/ Inc(k, v)
       \/ \E op \in {"insert", "inc"} : Refuse(op, k, v)
  \/ \E k \in Key : Delete(k) \/ At(k)
  \/ Clear

Next == Calls /\ UNCHANGED cap

Spec == Init /\ [][Next]_vars
=============================================================================
