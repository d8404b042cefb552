------------------------------- MODULE StrMap ------------------------------
(***************************************************************************)
(* The strings of map and set elements (saux/sstringo.c), under the maps   *)
(* on trees (smap.c) and the hash maps (shmap.c) that hold them.           *)
(*                                                                         *)
(* An element holds one string (sets, string-to-integer maps) or two       *)
(* (string-to-string maps).  Short strings are stored in the element, in   *)
(* buffers cut out of it; each of the others is a block on the heap, which *)
(* the element alone refers to and has to release.                         *)
(*                                                                         *)
(* Where an element is in a map does not matter here: a map is a set of    *)
(* elements, looked up by the key they read as (RBTree and HashMap model   *)
(* the search, and move elements as a whole).  A string is an identity and *)
(* a length.                                                               *)
(*                                                                         *)
(* A hash map is no longer such a set once shm_clear has emptied it or     *)
(* shm_cpy has overwritten it: its buckets go on naming elements that are  *)
(* gone (HashMap has both calls).  Clients of hash maps free them here, and*)
(* copy onto no map.                                                       *)
(***************************************************************************)
EXTENDS Integers, Sequences, Functions

CONSTANTS
  Map,      \* the maps of the client
  Block,    \* the heap, a bound: blocks that can be allocated
  Pair,     \* the <<key, value>> pairs the client stores
  Type,     \* the types of map: [hash |-> BOOLEAN, two |-> BOOLEAN]
  Void,     \* ss_void, the empty string
  DMax,     \* OptStrMaxSize: one string in the element; 18 in the code
  DDMax,    \* OptStr_MaxSize_DD: two strings together; 37
  DIMax     \* OptStr_MaxSize_DI: one string, and a reference; 34

\* A key longer than DIMax never shares the element with its value: with one
\* that does, the size of the second buffer wraps.
ASSUME StrMapAssumption ==
  /\ Type \subseteq [hash : BOOLEAN, two : BOOLEAN]
  /\ DMax \in Nat /\ DDMax \in Nat /\ DIMax \in Nat
  /\ Void.len = 0
  /\ \A p \in Pair : /\ p[1].len \in Nat /\ p[2].len \in Nat
                     /\ p[1].len > DIMax => p[1].len + p[2].len > DDMax

VARIABLES
  type,   \* of every map
  alive,  \* the maps that are allocated; the client's other handles are null
  elems,  \* the elements of each map
  heap,   \* the blocks in use, and the strings in them
  copy    \* the copy being made: [to, from, todo: elements not adapted yet]

vars == <<type, alive, elems, heap, copy>>

Form == {"D", "I", "DD", "DI", "ID", "II"}
NoCopy == [to |-> "none", from |-> "none", todo |-> {}]

\* in: the strings stored in the element; ref: the blocks it refers to.
TypeOK ==
  /\ type \in Type
  /\ alive \subseteq Map
  /\ DOMAIN elems = Map
  /\ \A m \in Map \ alive : elems[m] = {}
  /\ \A m \in Map : \A e \in elems[m] :
       /\ e.t \in Form
       /\ e.t \in {"D", "I"} <=> ~type.two
       /\ Len(e.in) = CASE e.t \in {"D", "DI", "ID"} -> 1
                        [] e.t = "DD" -> 2 [] OTHER -> 0
       /\ Len(e.ref) = CASE e.t \in {"I", "DI", "ID"} -> 1
                         [] e.t = "II" -> 2 [] OTHER -> 0
  /\ DOMAIN heap \subseteq Block

----------------------------------------------------------------------------
(* Reading.                                                                *)

\* sso_get, sso1_get: the key.
sso_get(e) == IF e.t \in {"D", "DD", "DI"} THEN e.in[1] ELSE heap[e.ref[1]]

\* A mutant of sso_get_s2: two strings on the heap are taken for one.
sso_get_s2First(e) ==
  CASE e.t = "DD" -> e.in[2]
    [] e.t = "ID" -> e.in[1]
    [] e.t \in {"DI", "II"} -> heap[e.ref[1]]
    [] OTHER -> Void

\* sso_get_s2: the value.
sso_get_s2(e) ==
  CASE e.t = "DD" -> e.in[2]
    [] e.t = "DI" -> heap[e.ref[1]]
    [] e.t = "ID" -> e.in[1]
    [] e.t = "II" -> heap[e.ref[2]]
    [] OTHER -> Void

----------------------------------------------------------------------------
(* Writing.                                                                *)

\* ss_cpy into a buffer that cannot grow: all of the string, or none of it.
Fits(s, room) == IF s.len <= room THEN s ELSE Void

\* The form two strings (or one) are stored in.
FormOf(k, v) ==
  IF type.two
    THEN CASE k.len + v.len <= DDMax -> "DD"
           [] k.len + v.len > DDMax /\ k.len <= DIMax -> "DI"
           [] k.len + v.len > DDMax /\ k.len > DIMax /\ v.len <= DIMax -> "ID"
           [] OTHER -> "II"
    ELSE IF k.len <= DMax THEN "D" ELSE "I"

\* The strings that stay in the element, with the room each one is given, ...
Inside(k, v) ==
  CASE FormOf(k, v) = "D"  -> <<k>>
    [] FormOf(k, v) = "DD" -> <<Fits(k, DIMax), Fits(v, DIMax - k.len)>>
    [] FormOf(k, v) = "DI" -> <<k>>
    [] FormOf(k, v) = "ID" -> <<v>>
    [] OTHER -> << >>

\* ... and those that go to the heap.
Outside(k, v) ==
  CASE FormOf(k, v) = "I"  -> <<k>>
    [] FormOf(k, v) = "DI" -> <<v>>
    [] FormOf(k, v) = "ID" -> <<k>>
    [] FormOf(k, v) = "II" -> <<k, v>>
    [] OTHER -> << >>

\* Two blocks malloc returns, one after the other.
Unused   == Block \ DOMAIN heap
New1     == CHOOSE b \in Unused : TRUE
New2     == CHOOSE b \in Unused \ {New1} : TRUE
HasRoom  == Unused # {} /\ Unused \ {New1} # {}

\* sso_set0 and sso1_set0: the blocks of `spare' are used first and those left
\* over are released; the element has `ref' when it is done.
RefsFor(k, v, spare) ==
  LET n == Len(Outside(k, v))
  IN  CASE Len(spare) >= n -> SubSeq(spare, 1, n)
        [] Len(spare) = 1 /\ n = 2 -> <<spare[1], New1>>
        [] OTHER -> SubSeq(<<New1, New2>>, 1, n)

\* A mutant of sso_set0: the element keeps a reference it has no use for.
sso_set0Kept(k, v, spare) ==
  [t |-> FormOf(k, v), in |-> Inside(k, v),
   ref |-> IF Len(spare) > Len(Outside(k, v)) THEN spare
           ELSE RefsFor(k, v, spare)]

\* The element written.
sso_set0(k, v, spare) ==
  [t |-> FormOf(k, v), in |-> Inside(k, v), ref |-> RefsFor(k, v, spare)]

\* A mutant of HeapAfter: the blocks left over are not released.
HeapAfterKept(k, v, spare) ==
  LET ref == RefsFor(k, v, spare)
  IN  [b \in DOMAIN heap \cup Range(ref) |->
         IF b \in Range(ref)
           THEN Outside(k, v)[CHOOSE i \in DOMAIN ref : ref[i] = b]
           ELSE heap[b]]

\* The heap after it.
HeapAfter(k, v, spare) ==
  LET ref == RefsFor(k, v, spare)
  IN  [b \in (DOMAIN heap \ Range(spare)) \cup Range(ref) |->
         IF b \in Range(ref)
           THEN Outside(k, v)[CHOOSE i \in DOMAIN ref : ref[i] = b]
           ELSE heap[b]]

\* sso_update and sso1_update hand over the blocks the element has; sso_set
\* and sso1_set look at none.  A tree updates (rw_add_SM_SS), a hash map sets
\* (shmcb_set_ss).
Spare(e) == IF type.hash THEN << >> ELSE e.ref

\* A mutant of sso_dupa: the second of two strings on the heap is forgotten.
sso_dupaFirst(e) ==
  [e EXCEPT !.ref = IF Len(@) = 2 THEN <<New1, @[2]>> ELSE SubSeq(<<New1>>, 1, Len(@))]

\* sso_dupa, sso_dupa1: an element copied byte by byte gets blocks of its own.
sso_dupa(e) == [e EXCEPT !.ref = SubSeq(<<New1, New2>>, 1, Len(@))]
HeapDuplicated(e) ==
  LET ref == SubSeq(<<New1, New2>>, 1, Len(e.ref))
  IN  [b \in DOMAIN heap \cup Range(ref) |->
         IF b \in DOMAIN heap THEN heap[b]
         ELSE heap[e.ref[CHOOSE i \in DOMAIN ref : ref[i] = b]]]

\* The blocks sso_free and sso1_free release.
Released(e) == IF e.t = "ID" THEN {} ELSE Range(e.ref)

----------------------------------------------------------------------------
(* Calls.                                                                  *)

Idle == copy = NoCopy
Found(m, k) == {e \in elems[m] : sso_get(e) = k}
Second(v) == IF type.two THEN v ELSE Void

\* sm_alloc, shm_alloc
Alloc(m) ==
  /\ Idle /\ m \notin alive
  /\ alive' = alive \cup {m}
  /\ UNCHANGED <<type, elems, heap, copy>>

InsertNew(m, k, v) ==
  /\ Idle /\ HasRoom /\ m \in alive /\ Found(m, k) = {}
  /\ elems' = [elems EXCEPT ![m] = @ \cup {sso_set0(k, v, << >>)}]
  /\ heap' = HeapAfter(k, v, << >>)
  /\ UNCHANGED <<type, alive, copy>>

InsertExisting(m, k, v) ==
  /\ Idle /\ HasRoom
  /\ \E e \in Found(m, k) :
       /\ elems' = [elems EXCEPT ![m] =
                      (@ \ {e}) \cup {sso_set0(k, v, Spare(e))}]
       /\ heap' = HeapAfter(k, v, Spare(e))
  /\ UNCHANGED <<type, alive, copy>>

Delete(m, k) ==
  /\ Idle
  /\ \E e \in Found(m, k) :
       /\ elems' = [elems EXCEPT ![m] = @ \ {e}]
       /\ heap' = Restrict(heap, DOMAIN heap \ Released(e))
  /\ UNCHANGED <<type, alive, copy>>

ReleasedBy(m) == UNION {Released(e) : e \in elems[m]}

\* The strings of all elements are released, and the elements are gone.
Emptied(m) ==
  /\ Idle
  /\ elems' = [elems EXCEPT ![m] = {}]
  /\ heap' = Restrict(heap, DOMAIN heap \ ReleasedBy(m))
  /\ UNCHANGED <<type, copy>>

\* sm_clear.  (Of a hash map, shm_clear leaves the buckets: see above.)
Clear(m) == m \in alive /\ ~type.hash /\ Emptied(m) /\ UNCHANGED alive

\* sm_free and shm_free: the strings, then the block with elements and buckets.
Free(m) == m \in alive /\ Emptied(m) /\ alive' = alive \ {m}

\* sm_cpy, sm_dup and shm_dup: the target is a null handle or, of trees, a map
\* to be cleared.  It gets the elements of the source byte by byte, the
\* references included; ...
StartCopy(to, from) ==
  /\ Idle /\ to # from /\ from \in alive
  /\ type.hash => to \notin alive
  /\ alive' = alive \cup {to}
  /\ elems' = [elems EXCEPT ![to] = elems[from]]
  /\ heap' = Restrict(heap, DOMAIN heap \ ReleasedBy(to))
  /\ copy' = IF elems[from] = {} THEN NoCopy
             ELSE [to |-> to, from |-> from, todo |-> elems[from]]
  /\ UNCHANGED type

\* ... then each is adapted.  A tree stores the strings of the source anew
\* (sso_set); a hash map duplicates those on the heap, in place.
CopyElement ==
  LET e == CHOOSE x \in copy.todo : TRUE
      k == sso_get(e)
      v == sso_get_s2(e)
  IN  /\ ~Idle /\ HasRoom
      /\ elems' = [elems EXCEPT ![copy.to] =
                     (@ \ {e}) \cup {IF type.hash THEN sso_dupa(e)
                                    ELSE sso_set0(k, v, << >>)}]
      /\ heap' = IF type.hash THEN HeapDuplicated(e) ELSE HeapAfter(k, v, << >>)
      /\ copy' = IF copy.todo = {e} THEN NoCopy
                 ELSE [copy EXCEPT !.todo = @ \ {e}]
      /\ UNCHANGED <<type, alive>>

----------------------------------------------------------------------------

Init ==
  /\ type \in Type
  /\ alive = {}
  /\ elems = [m \in Map |-> {}]
  /\ heap = << >>
  /\ copy = NoCopy

\* What the code gets right.  The second of two strings in an element has less
\* room than their lengths were checked against; a hash map loses the strings
\* of an element that is set again; and the string of an ID element is never
\* released (it may become an II element first).
Fitting(k, v) == FormOf(k, v) = "DD" => v.len <= DIMax - k.len
Settable(m, k) == type.hash => \A e \in Found(m, k) : e.ref = << >>
Releasable(E) == \A e \in E : e.t # "ID"

CoreNext ==
  \/ \E m \in Map, p \in Pair :
       LET k == p[1]  v == Second(p[2])
       IN  /\ Fitting(k, v)
           /\ \/ InsertNew(m, k, v)
              \/ Settable(m, k) /\ InsertExisting(m, k, v)
  \/ \E m \in Map, p \in Pair : Releasable(Found(m, p[1])) /\ Delete(m, p[1])
  \/ \E m \in Map : Alloc(m) \/ (Releasable(elems[m]) /\ (Clear(m) \/ Free(m)))
  \/ \E to, from \in Map : Releasable(elems[to]) /\ StartCopy(to, from)
  \/ CopyElement

Next ==
  \/ \E m \in Map, p \in Pair :
       \/ InsertNew(m, p[1], Second(p[2]))
       \/ InsertExisting(m, p[1], Second(p[2]))
       \/ Delete(m, p[1])
  \/ \E m \in Map : Alloc(m) \/ Clear(m) \/ Free(m)
  \/ \E to, from \in Map : StartCopy(to, from)
  \/ CopyElement

CoreSpec == Init /\ [][CoreNext]_vars
Spec == Init /\ [][Next]_vars

----------------------------------------------------------------------------
(* Properties.                                                             *)

\* The elements of the maps, but for those a copy has not adapted yet.
Settled(m) == IF m = copy.to THEN elems[m] \ copy.todo ELSE elems[m]

\* Every reference is to a block in use, and no block is referred to twice,
\* within an element, a map, or between a map and its copy: whatever is
\* deleted, cleared or overwritten, no other element reads a released string.
OneOwner ==
  \A m, n \in Map : \A e \in Settled(m), f \in Settled(n) :
    \A i \in DOMAIN e.ref, j \in DOMAIN f.ref :
      /\ e.ref[i] \in DOMAIN heap
      /\ e.ref[i] = f.ref[j] => m = n /\ e = f /\ i = j

\* Every block in use is referred to by an element: emptied maps leave nothing
\* on the heap.
NoLeak ==
  DOMAIN heap = UNION {Range(e.ref) : e \in UNION {Settled(m) : m \in Map}}

\* Every element reads as strings that were stored together.
WholeStrings ==
  \A m \in Map : \A e \in elems[m] :
    <<sso_get(e), sso_get_s2(e)>> \in {<<p[1], Second(p[2])>> : p \in Pair}

\* The maps are dictionaries of strings, each its own.
Contents ==
  [m \in Map |-> [k \in {sso_get(e) : e \in elems[m]} |->
                    sso_get_s2(CHOOSE e \in elems[m] : sso_get(e) = k)]]

Abstract == INSTANCE StrDict WITH
  dict <- Contents,
  Pair <- Pair \cup {<<p[1], Void>> : p \in Pair}
Implements == Abstract!Spec
=============================================================================
