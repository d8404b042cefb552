------------------------------ MODULE StrDict ------------------------------
(***************************************************************************)
(* What a client may expect of several maps from strings to strings: each  *)
(* is a partial function of its own, and a copy is independent of what it  *)
(* was copied from.                                                        *)
(***************************************************************************)
EXTENDS Functions

CONSTANTS
  Map,    \* the maps
  Pair    \* the <<key, value>> pairs a client stores

VARIABLE dict   \* the contents of each map

Init == dict = [m \in Map |-> << >>]

Insert(m, k, v) ==
  dict' = [dict EXCEPT ![m] =
             [x \in DOMAIN @ \cup {k} |-> IF x = k THEN v ELSE @[x]]]

Delete(m, k) == dict' = [dict EXCEPT ![m] = Restrict(@, DOMAIN @ \ {k})]

Clear(m) == dict' = [dict EXCEPT ![m] = << >>]

Copy(to, from) == dict' = [dict EXCEPT ![to] = dict[from]]

Next ==
  \/ \E m \in Map, p \in Pair : Insert(m, p[1], p[2]) \/ Delete(m, p[1])
  \/ \E m \in Map : Clear(m)
  \/ \E to, from \in Map : Copy(to, from)

Spec == Init /\ [][Next]_dict
=============================================================================
