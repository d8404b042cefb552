------------------------------- MODULE HashMap -----------------------------
(***************************************************************************)
(* The hash map of shmap.c, the container under every srt_hmap.            *)
(*                                                                         *)
(* A map is one block: a header, 2^hbits buckets, and the elements, packed *)
(* at the front of an array.  A key hashes to a home bucket (the high bits *)
(* of its hash); its element's location goes to the first free bucket from *)
(* there on.  Nothing marks the end of a probe: the home bucket counts the *)
(* keys it is home to, and a look-up goes round the table until it has met *)
(* that many of them.                                                      *)
(*                                                                         *)
(* One action is one call.  Hashes have HashBits bits instead of 32.       *)
(***************************************************************************)
EXTENDS Integers, FiniteSets, FiniteSetsExt

CONSTANTS
  Key,       \* keys
  Val,       \* values a client stores, a subset of 0 .. ValMod - 1
  ValMod,    \* values are added modulo ValMod
  HashBits,  \* bits of a hash; 32 in the code
  Hash,      \* the hash of each key
  Start,     \* the maps a client allocates: [ext |-> the block is the
             \* caller's (shm_alloca) and cannot grow, size |-> size asked for]
  RehashPct  \* SHM_REHASH_DEFAULT_THRESHOLD_PCT, 90

\* Powers of two, from a bit up to a whole hash: 1 << n.
Pow2[n \in 0 .. HashBits] == IF n = 0 THEN 1 ELSE 2 * Pow2[n - 1]

ASSUME HashMapAssumption ==
  /\ ValMod \in Nat \ {0}
  /\ Val \subseteq 0 .. ValMod - 1
  /\ HashBits \in Nat \ {0}
  /\ Hash \in [Key -> 0 .. Pow2[HashBits] - 1]
  /\ Start \subseteq [ext : BOOLEAN, size : 0 .. Pow2[HashBits]]
  /\ RehashPct \in 1 .. 99

VARIABLES
  hm,    \* the map
  copy,  \* a duplicate the client keeps, or NoMap
  call,  \* the last call answered
  res    \* its answer: S_TRUE, S_FALSE, a value, or Fault

vars == <<hm, copy, call, res>>

Fault  == -1    \* the call never returns, or leaves the table
NoCall == [op |-> "none", key |-> 0, val |-> 0]
NoMap  == [hbits |-> 0]

MaxElems == Pow2[HashBits] - 1                        \* SHM_MAX_ELEMS
Empty    == [loc |-> 0, hash |-> 0, cnt |-> 0]

\* ext (ext_buffer), hbits, mask, limit (rh_threshold), max (d.max_size, not
\* followed on the heap), room: the fields of the header, room being
\* the buckets header_size leaves room for; bucket, elem, size: the table and
\* the elements.
TypeOK ==
  /\ hm.ext \in BOOLEAN
  /\ hm.hbits \in 0 .. HashBits
  /\ hm.mask \in 0 .. Pow2[HashBits] - 1
  /\ hm.limit \in 0 .. Pow2[HashBits]
  /\ hm.room \in 0 .. Pow2[HashBits]
  /\ hm.max \in 0 .. Pow2[HashBits]
  /\ hm.size \in 0 .. MaxElems
  /\ hm.bucket \in [0 .. Pow2[hm.hbits] - 1 ->
                      [loc : 0 .. hm.size, hash : 0 .. Pow2[HashBits] - 1,
                       cnt : 0 .. hm.size]]
  /\ \A i \in 0 .. hm.size - 1 :
       hm.elem[i] \in [key : Key, val : 0 .. ValMod - 1]
  /\ res \in {Fault} \cup 0 .. ValMod

----------------------------------------------------------------------------
(* Sizes.                                                                  *)

Log2(n) == CHOOSE k \in 0 .. HashBits : Pow2[k] <= n /\ n < 2 * Pow2[k]

\* slog2_ceil, and shm_s2hb: at least one bit.
slog2_ceil(n) ==
  IF n <= 1 THEN n ELSE IF Pow2[Log2(n)] = n THEN Log2(n) ELSE Log2(n) + 1
shm_s2hb(n) == IF n = 0 THEN 1 ELSE slog2_ceil(n)

snextpow2(n) ==
  IF n = 0 THEN 0 ELSE CHOOSE p \in {Pow2[k] : k \in 0 .. HashBits} : n <= p /\ p < 2 * n
slog2(n) == IF n = 0 THEN 0 ELSE Log2(n)

Threshold(buckets) == (buckets * RehashPct) \div 100

\* The hbits high bits.  With no bits at all C leaves the shift undefined; 0 is
\* the outcome that does least harm.
h2bid(h, hbits) == h \div Pow2[HashBits - hbits]

----------------------------------------------------------------------------
(* Probing.  The place a probe from bucket b reaches in its i-th step.     *)

Place(m, b, i) == IF i = 0 THEN b ELSE (b + i) % (m.mask + 1)

Used(m, l) == l \in DOMAIN m.bucket /\ m.bucket[l].loc # 0
ElemOf(m, l) == m.elem[m.bucket[l].loc - 1]

\* shm_at: the bucket of key k; None when its home has no such key; Fault when
\* the home counts keys and a whole round meets none, for the loop then never
\* ends.  (A round that meets one meets it again until the count is reached.)
\* A place past the table, after shm_cpy, is taken for a free bucket.
None == -2
Probe(m, k) ==
  LET home  == h2bid(Hash[k], m.hbits)
      count == m.bucket[home].cnt
      at(i) == Place(m, home, i)
      Here  == {i \in 0 .. m.mask + 1 :
                  /\ Used(m, at(i))
                  /\ h2bid(m.bucket[at(i)].hash, m.hbits) = home}
      Hit   == {i \in Here : /\ m.bucket[at(i)].hash = Hash[k]
                             /\ ElemOf(m, at(i)).key = k
                             /\ Cardinality({j \in Here : j < i}) < count}
  IN  IF Hit # {} THEN at(Min(Hit))
      ELSE IF count > 0 /\ Here = {} THEN Fault ELSE None

\* aux_reg_hash: the first free bucket from the home on, or the one that
\* already stands for the key; a new one is counted at home.
aux_reg_hash(m, k, i) ==
  LET h    == Hash[k]
      home == h2bid(h, m.hbits)
      own(l) == m.bucket[l].hash = h /\ ElemOf(m, l).key = k
      Stop == {j \in 0 .. Pow2[m.hbits] :
                 LET l == Place(m, home, j) IN ~Used(m, l) \/ own(l)}
      l    == Place(m, home, Min(Stop))
      b1   == IF Used(m, l) THEN m.bucket
                            ELSE [m.bucket EXCEPT ![home].cnt = @ + 1]
  IN  [m EXCEPT !.bucket = [b1 EXCEPT ![l].loc = i + 1, ![l].hash = h]]

\* aux_rehash: the fields that follow from hbits, ...
Emptied(m) ==
  LET n == Pow2[m.hbits]
  IN  [m EXCEPT !.mask = n - 1, !.limit = Threshold(n),
                !.bucket = [l \in 0 .. n - 1 |-> Empty]]

\* ... then every element.  (The code hands the comparison of aux_reg_hash the
\* element, which starts with its key.  For keys that are strings those bytes are
\* no string; what that does to two strings with one hash is left out.)
aux_rehash(m) ==
  LET reg[i \in 0 .. m.size] ==
        IF i = 0 THEN Emptied(m)
                 ELSE aux_reg_hash(reg[i - 1], m.elem[i - 1].key, i - 1)
  IN  reg[m.size]

\* shm_alloc_raw, under shm_alloc_aux (heap) or shm_alloca (stack).
Allocated(ext, n) ==
  aux_rehash([ext |-> ext, hbits |-> shm_s2hb(n), mask |-> 0, limit |-> 0,
              max |-> IF ext THEN n ELSE 0,
              room |-> IF ext THEN snextpow2(n) ELSE Pow2[shm_s2hb(n)],
              bucket |-> << >>, elem |-> << >>, size |-> 0])

----------------------------------------------------------------------------
(* Insertion.                                                              *)

\* A mutant of Refused: a table in the caller's buffer may be doubled too.
RefusedAtMax(m) ==
  \/ m.ext /\ m.size >= m.max
  \/ m.size >= m.limit /\ m.hbits = HashBits /\ m.size = MaxElems

\* aux_insert_check refuses: the container does not grow, or a table that has
\* reached its limit would have to.  The largest table has another limit.
Refused(m) ==
  \/ m.ext /\ m.size >= m.max
  \/ m.size >= m.limit /\ IF m.hbits = HashBits THEN m.size = MaxElems ELSE m.ext

\* A mutant of aux_insert_check: aux_rehash is not called.
CheckWithoutRehash(m) ==
  IF m.size < m.limit THEN m
  ELSE IF m.hbits = HashBits THEN [m EXCEPT !.limit = MaxElems]
  ELSE [m EXCEPT !.hbits = @ + 1, !.room = Pow2[m.hbits + 1],
          !.bucket = [l \in 0 .. Pow2[m.hbits + 1] - 1 |->
                        IF l < Pow2[m.hbits] THEN m.bucket[l] ELSE Empty]]

\* A mutant of aux_insert_check: the table is doubled only when it is full.
CheckLate(m) ==
  IF m.size <= Pow2[m.hbits] THEN m
  ELSE aux_rehash([m EXCEPT !.hbits = @ + 1, !.room = 2 * @])

\* aux_insert_check otherwise: the map is ready for one more element; a table
\* at its limit is doubled.
aux_insert_check(m) ==
  IF m.size < m.limit THEN m
  ELSE IF m.hbits = HashBits THEN [m EXCEPT !.limit = MaxElems]
  ELSE aux_rehash([m EXCEPT !.hbits = @ + 1, !.room = Pow2[m.hbits + 1]])

\* The element goes after the last one.
Appended(m, k, v) ==
  LET m1 == aux_reg_hash(m, k, m.size)
  IN  [m1 EXCEPT !.size = @ + 1,
         !.elem = [i \in DOMAIN m.elem \cup {m.size} |->
                     IF i = m.size THEN [key |-> k, val |-> v] ELSE m.elem[i]]]

Written(m, l, v) == [m EXCEPT !.elem[m.bucket[l].loc - 1].val = v]

Answer(op, k, v, r) ==
  /\ call' = [op |-> op, key |-> k, val |-> v]
  /\ res' = r

\* On the heap, a reallocation of the elements or of the table may fail: at any
\* insertion, as how much memory the elements have is not followed.
MemoryWanted(m) == ~m.ext

Refuse(op, k, v) ==
  /\ Refused(hm) \/ MemoryWanted(hm)
  /\ Answer(op, k, v, 0)
  /\ UNCHANGED <<hm, copy>>

shm_insert(k, v) ==
  LET m == aux_insert_check(hm)
      l == Probe(m, k)
  IN  /\ ~Refused(hm)
      /\ hm' = CASE l = None  -> Appended(m, k, v)
                 [] l = Fault -> m
                 [] OTHER     -> Written(m, l, v)
      /\ Answer("insert", k, v, IF l = Fault THEN Fault ELSE 1)
      /\ UNCHANGED copy

\* A mutant of shm_inc: the value replaces the one that was there.
shm_inc_sets(k, v) ==
  LET m == aux_insert_check(hm)
      l == Probe(m, k)
  IN  /\ ~Refused(hm)
      /\ hm' = IF l = None THEN Appended(m, k, v) ELSE Written(m, l, v)
      /\ Answer("inc", k, v, 1)
      /\ UNCHANGED copy

\* A key that is not there goes through shm_insert and its check again.
shm_inc(k, v) ==
  LET m == aux_insert_check(hm)
      l == Probe(m, k)
  IN  /\ ~Refused(hm)
      /\ hm' = CASE l = None  -> Appended(aux_insert_check(m), k, v)
                 [] l = Fault -> m
                 [] OTHER     -> Written(m, l, (ElemOf(m, l).val + v) % ValMod)
      /\ Answer("inc", k, v, IF l = Fault THEN Fault ELSE 1)
      /\ UNCHANGED copy

----------------------------------------------------------------------------
(* Deletion.                                                               *)

\* A mutant of Unregistered: the home bucket goes on counting the key.
UnregisteredCounted(m, k) ==
  LET l == Probe(m, k)
  IN  [m EXCEPT !.bucket[l].loc = 0, !.bucket[l].hash = 0]

\* The bucket of the key is freed, and its home counts one key less.  (The
\* hash of a free bucket is never read: here it is cleared too.)
Unregistered(m, k) ==
  LET l == Probe(m, k)
  IN  [m EXCEPT !.bucket = [[m.bucket EXCEPT ![l].loc = 0, ![l].hash = 0]
                              EXCEPT ![h2bid(Hash[k], m.hbits)].cnt = @ - 1]]

\* A mutant of HoleFilled: the bucket of the element that moves still points
\* at its old place.
HoleFilledOldLoc(m, loc) ==
  IF m.size > 1 /\ m.size # loc
    THEN [m EXCEPT !.elem[loc - 1] = m.elem[m.size - 1]]
    ELSE m

\* "Fill the hole with the latest elem": the last element moves to location
\* loc, and its bucket, found by its key, follows.
HoleFilled(m, loc) ==
  LET last == m.elem[m.size - 1]
      tl   == Probe(m, last.key)
  IN  IF m.size > 1 /\ m.size # loc
        THEN [m EXCEPT !.elem[loc - 1] = last, !.bucket[tl].loc = loc]
        ELSE m

\* The last element leaves.  (What stays behind it in memory is not read.)
Shortened(m) ==
  [m EXCEPT !.size = @ - 1, !.elem = [i \in DOMAIN @ \ {m.size - 1} |-> @[i]]]

\* del
shm_delete(k) ==
  LET l == Probe(hm, k)
      m == HoleFilled(Unregistered(hm, k), hm.bucket[l].loc)
  IN  /\ hm' = IF l < 0 THEN hm ELSE Shortened(m)
      /\ Answer("delete", k, 0, IF l = Fault THEN Fault
                                ELSE IF l = None THEN 0 ELSE 1)
      /\ UNCHANGED copy

\* shm_at_ii and its like: the value, 0 for a key that is not there.
shm_at(k) ==
  LET l == Probe(hm, k)
  IN  /\ Answer("at", k, 0, IF l = Fault THEN Fault
                            ELSE IF l = None THEN 0 ELSE ElemOf(hm, l).val)
      /\ UNCHANGED <<hm, copy>>

----------------------------------------------------------------------------
(* Whole maps.                                                             *)

\* shm_clear: the size, and nothing else.
shm_clear ==
  /\ hm' = [hm EXCEPT !.size = 0]
  /\ Answer("clear", 0, 0, 0)
  /\ UNCHANGED copy

\* shm_cpy: the elements, then the buckets, copied when both headers have the
\* same size and filled again when they have not.
CopiedInto(m, src) ==
  LET m1 == [m EXCEPT !.size = src.size,
               !.elem = [i \in 0 .. src.size - 1 |-> src.elem[i]]]
  IN  IF m1.room = src.room THEN [m1 EXCEPT !.bucket = src.bucket]
                            ELSE aux_rehash(m1)

\* shm_dup, which is shm_cpy onto no map.
Duplicate == CopiedInto(Allocated(FALSE, hm.size), hm)

\* The client keeps a duplicate.
KeepCopy ==
  /\ copy' = Duplicate
  /\ UNCHANGED <<hm, call, res>>

\* The client goes on with a duplicate, and frees the map.
GoOnWithCopy ==
  /\ ~hm.ext
  /\ hm' = Duplicate
  /\ UNCHANGED <<copy, call, res>>

\* shm_cpy onto the map the client has.  shm_cpy_reconfig gives it the header
\* the source's size calls for; only aux_rehash computes mask and limit.
shm_cpy ==
  LET np2 == snextpow2(copy.size)
      m   == [hm EXCEPT !.size = 0, !.room = np2, !.hbits = slog2(np2)]
  IN  /\ ~hm.ext /\ copy # NoMap
      /\ hm' = CopiedInto(m, copy)
      /\ Answer("copy", 0, 0, 1)
      /\ UNCHANGED copy

----------------------------------------------------------------------------

Init ==
  /\ \E s \in Start : hm = Allocated(s.ext, s.size)
  /\ copy = NoMap
  /\ call = NoCall
  /\ res = 0

Calls ==
  \/ \E k \in Key, v \in Val : shm_insert(k, v) \/ shm_inc(k, v)
  \/ \E k \in Key, v \in Val, op \in {"insert", "inc"} : Refuse(op, k, v)
  \/ \E k \in Key : shm_delete(k) \/ shm_at(k)

\* Maps are filled, emptied key by key, and duplicated.
Next == Calls \/ GoOnWithCopy
Spec == Init /\ [][Next]_vars

\* Maps are also cleared, or overwritten with a copy.
ClearSpec == Init /\ [][Calls \/ shm_clear]_vars
CopySpec  == Init /\ [][Next \/ KeepCopy \/ shm_cpy]_vars

----------------------------------------------------------------------------
(* Properties.                                                             *)

Home(m, l) == h2bid(m.bucket[l].hash, m.hbits)

\* The count of a bucket is the number of keys whose home it is: the look-up
\* loops of shm_at and del have no other way to end ("Number of elements
\* associated to the bucket", shmap.h).
CountsExact ==
  \A b \in 0 .. Pow2[hm.hbits] - 1 :
    hm.bucket[b].cnt =
      Cardinality({l \in 0 .. Pow2[hm.hbits] - 1 : Used(hm, l) /\ Home(hm, l) = b})

\* Elements and used buckets are in one-to-one correspondence, and a bucket
\* has the hash of its element's key, wherever deletions moved the element.
IndexExact ==
  LET used == {l \in 0 .. Pow2[hm.hbits] - 1 : Used(hm, l)}
  IN  /\ Cardinality(used) = hm.size
      /\ {hm.bucket[l].loc : l \in used} = 1 .. hm.size
      /\ \A l \in used : hm.bucket[l].hash = Hash[ElemOf(hm, l).key]

\* Once the check has accepted an insertion there is a free bucket for it:
\* aux_reg_hash looks for one without counting its steps.
FreeBucket == ~Refused(hm) => hm.size < Pow2[aux_insert_check(hm).hbits]

\* The table of a map in the caller's buffer never gets more buckets.
ExtTableFixed ==
  [][hm.ext => hm'.hbits = hm.hbits /\ hm'.room = hm.room]_vars

\* Every call returns, and none leaves the table.
NoFault == res # Fault

\* The fields computed from hbits agree with it: probes wrap at the end of the
\* table ("hash table bitmask", "(1 << hbits) * rh_threshold_pct) / 100",
\* shmap.h).
DerivedFields ==
  /\ hm.mask = Pow2[hm.hbits] - 1
  /\ hm.limit \in {Threshold(Pow2[hm.hbits]), MaxElems}

\* No key is found in a map that has just been cleared ("Clear/reset map",
\* shmap.h, on shm_clear).
ClearedIsEmpty ==
  call.op = "clear" => \A k \in Key : Probe(hm, k) = None

\* Every call does what a map promises; duplicating and going on with the
\* duplicate changes nothing.
Contents ==
  [k \in {hm.elem[i].key : i \in 0 .. hm.size - 1} |->
     hm.elem[CHOOSE i \in 0 .. hm.size - 1 : hm.elem[i].key = k].val]

\* What a map in the caller's buffer has room for without growing.
Room ==
  LET limit == IF hm.hbits = HashBits THEN MaxElems ELSE Threshold(Pow2[hm.hbits])
  IN  IF hm.ext THEN Min({hm.max, limit}) ELSE 0

Abstract == INSTANCE KeyMap WITH dict <- Contents, cap <- Room
Implements == Abstract!Spec
=============================================================================
