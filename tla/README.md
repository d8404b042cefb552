# libsrt in TLA+

Specifications, model-checking configurations and proofs for libsrt, the C
library of strings, vectors, bit sets, trees, maps and hash maps under
`src/src/`. Paths below are relative to `src/src/` unless they say otherwise.

## 1. The system

libsrt is a single-threaded library: no threads, no messages, nothing written
to disk. The difficulty is elsewhere. Every container is **one block of
memory** (header, elements, indices between them) that moves when it grows;
every allocation may fail in the middle of a call; almost every call may be
given its own target as an argument; and most derived data (a bitmask, a
threshold, a counted size, a colour) is kept by hand. The hazards are therefore
long sequences of legal calls, values that are stale when used, calls that stop
half-way, and limits.

| Component | State | Operations | Depends on |
|---|---|---|---|
| `saux/sdata` container header | size, capacity, small or full header, error flags, buffer owner | alloc, alloc in a caller's buffer, reserve, grow, shrink, reset, set size, free | malloc/realloc |
| `saux/stree` red-black tree | array of nodes linked by index, root | insert (with a rewrite callback), delete, locate, dup, traversals, self-check | sdata; compare/rewrite/delete callbacks of smap |
| `smap`, `smset` ordered maps and sets | a tree, typed by its elements | insert, increment, delete, look up, copy, clear, iterate over a range, sort to vector | stree, sstringo |
| `shmap`, `shset` hash maps and sets | header with derived fields, bucket table, packed elements | insert, increment, delete, look up, copy, clear, reserve | sdata, sstringo, hashes |
| `saux/sstringo` strings in elements | the form of an element, its inline buffers or heap references | set, update, get, free, duplicate | sstring |
| `sstring` strings | bytes, cached number of characters and its flag, error flags | ~150 calls: copy, append, cut, erase, replace, resize, trim, case, encode, search, format, I/O | sdata, schar, senc, ssearch |
| `svector` vectors | elements, element size | push, pop, set, erase, resize, copy, concatenate, sort, search | sdata, ssort |
| `sbitset` bit sets | a vector of bytes, cached population count | set, clear, test, count, resize | svector |
| `saux/ssort`, `saux/ssearch` | none | in-place sorts; substring search | |
| `saux/schar`, `saux/senc`, `saux/shash` | none | UTF-8, case folding; base64, hex, escapes, LZ; CRC, Adler, FNV, Murmur | |
| `saux/scommon`, `saux/sdbg`, tests, build | none | size arithmetic, macros; printing; the test program | |

Interactions: a client holds a pointer to a container; a call may reallocate it
and writes the pointer back. `smap` calls `stree`, which calls back into `smap`
to compare, rewrite or release an element; those use `sstringo` on the strings
of the element. `shmap` does the same with callbacks of its own. Everything
that grows goes through `sd_reserve_aux`.

What makes each correct, and is hard to test:

* **sdata**: the header always announces what the block holds, across the change
  from a small header (8-bit counters) to a full one, whose trigger is computed
  from the *capacity*, in four places, and across failed reallocations.
* **stree**: with no parent links and rebalancing done on the way down, before
  the key is found, no node is lost, the colouring rules hold after every call,
  every loop ends; and the last node of the array can be moved into the hole of
  a deleted one, whose parent has to be searched for.
* **shmap**: a probe has no end mark. It ends when it has met as many keys as
  the home bucket counts; the counts, the element index and the fields
  derived from the number of hash bits must stay exact.
* **sstringo**: a string on the heap has exactly one owner, through six storage
  forms that turn into each other, deletions, and copies that start as a byte
  copy sharing every reference.
* **sstring**: the cached number of characters is that of the bytes; a call does
  in place what it does from another string.
* **svector, sbitset**: the target as an argument; offsets past the end; the
  cached count follows a shrink.
* **ssort, ssearch, senc**: the result is the reference one (sorted permutation,
  first match, round trip).

`PROJECT.json` lists each hazard at its line, with the properties that cover it.

## 2. Modules

| Module | Models | A step is |
|---|---|---|
| `SData` | `saux/sdata.c` | one call; allocation may fail in each |
| `KeyMap` | what any map promises (abstract) | the answer to one call |
| `RBTree` | `saux/stree.c` under `smap.c` | one turn of the search loop of insertion or deletion |
| `HashMap` | `shmap.c` | one call |
| `StrDict` | what several maps of strings promise (abstract) | one call |
| `StrMap` | `saux/sstringo.c` under `smap.c` and `shmap.c` | one call; a copy takes one step per element |
| `TreeScan` | the traversals of `saux/stree.c`, the range iteration of `smap.h` | a state function on the trees of `RBTree` |
| `SString` | the part of `sstring.c` that keeps the cached count | one call |
| `Rewriting` | case conversion and replacement of `sstring.c` | one call; its loop is an operator, byte by byte |
| `Search` | `ss_find`, `ss_split` and `saux/ssearch.c` | one iteration of the search loop |
| `Encoding`, `Compression` | `saux/senc.c` and the calls of `sstring.c` on it | the client's next byte; the codecs are operators |
| `Vector` | `svector.c` | one call |
| `BitSet` | `sbitset.c` | one call |
| `Sorting` | `saux/ssort.c` | the client's next word; the sorts are operators |
| `SData_proofs`, `RBTree_proofs`, `Vector_proofs`, `BitSet_proofs`, `StrMap_proofs`, `HashMap_proofs`, `SString_proofs`, `Search_proofs` | theorems about the module they are named after | |
| `MC...` | constants of the instances; `MCRBTreeDeep` adds plans, `MCSString` and `MCVector` put several modules side by side (below) | |

`TreeScan` extends `RBTree`, `Rewriting` and `Encoding` extend `SString`: a
call they model works on the same strings and may be followed by any of those.
`RBTree` and `HashMap` implement `KeyMap` (`INSTANCE KeyMap WITH dict <-
Contents, ...`), `StrMap` implements `StrDict`. The split between `RBTree` /
`HashMap` (where an element is) and `StrMap` (what an element owns) follows the
code: both containers move elements as opaque bytes and leave strings to the
callbacks.

### SData
`where`, `mode`, `err`, `size`, `max`, `block` are the owner of the block,
`f.st_mode`, `f.alloc_errors`, `size`, `max_size` and the length passed to the
last malloc or realloc. Element bytes are not followed: what is at stake is
their number. `SizeMax` is the largest `size_t`; allocation sizes are computed
modulo `SizeMax + 1`. Two next-state relations: `Next` has every call,
`CoreNext` all but the shrink of a full-header string to a small capacity
(disagreement 1).

### RBTree
`node`, `root`, `size` are the array of nodes, `t->root` and `t->d.size`; `Aux`
is the dummy root `auxn` that `st_delete` keeps on its stack; `walk` holds the
locals of the loop (`c`, `p`, `pp`, `ppp` and the directions), `call` and `res`
the call being run and its answer. `StartInsert`/`StartDelete` are the code
before the loop; `InsertLeaf`, `InsertExisting`, `InsertDescend`, `DeleteLast`,
`DeleteDescend`, `DeleteBottom` the ways a turn can end. Each contains the
whole body of the turn: colour pushes, rotations, splices, the move of the last
node and the root update. `Clear` and `At` are one step each. Values are added
modulo `ValMod`, the width of the value type. `Next` has every call;
`CoreNext` all but those that write a key that is there and leave the root red
(disagreement 2): inserting, deleting, looking up, and rewrites that do no harm.
Callers pass a tree that is there and has fewer than 2^31 nodes, so that the refusals of `st_delete` for
others do not arise.

### HashMap
`hm` is the map: `hbits`, `mask` (hmask), `limit` (rh_threshold), `room` (the
buckets `header_size` leaves place for), the buckets with `loc`, `hash` and
`cnt`, and the packed elements, each named by its key. `shm_insert`, `shm_inc`, `shm_delete`,
`shm_at`, `shm_clear`, `shm_cpy`, duplication (`GoOnWithCopy`, `KeepCopy`) are
the calls; `aux_insert_check`, `aux_rehash`, `aux_reg_hash` keep their names.
`Probe` computes where the probe loop stops, or that it never does (`Fault`). A
32-bit hash is one of `HashBits` bits, `hbits` of which choose the home. On the
heap, any insertion may be refused (a reallocation failed); in a caller's
buffer only a full one. `aux_rehash` hands elements and not keys to the comparison
(shmap.c:384): for numbers the two start alike; for string keys the comparison is made
only between keys of one 32-bit hash, and such a pair is left out.

### StrMap
The client has handles: those `alive` have a map, the others are null. A map is a set of
elements; an element has a form (`D`, `I`, `DD`, `DI`, `ID`,
`II`: each string in the element or on the heap), the strings stored in it
(`in`) and the blocks it refers to (`ref`). `heap` maps blocks in use to
strings. `sso_set0` / `RefsFor` / `HeapAfter` say which of the old blocks are
reused, released or allocated when an element is rewritten. A tree rewrites
through `sso_update`, which hands the old blocks over; a hash map through
`sso_set`, which does not. A copy is `StartCopy` (bytes, references included)
and then one `CopyElement` each: onto a null handle (`sm_dup`, `shm_dup`) or, of trees, onto a
map, which is cleared first (`sm_cpy`). `Free` releases the strings and the map.
String identities and lengths stand for strings.

A hash map stays a set of elements only while its buckets name those that are there, and after
`shm_clear`, or `shm_cpy` onto a map, they do not. `HashMap` has both calls; here, **hash maps are
neither cleared nor overwritten**, in `CoreSpec` and in `Spec`. What a client of strings then meets is
under disagreement 3: an element with two buckets, whose blocks are released twice. `CoreSpec` also leaves out
three cases `Spec` has: the release of an `ID` element (disagreement 4), pairs that do not
fit together (5), and the rewriting of a hash element with strings on the heap (9).

### SString
A string is its bytes, the flag `is_unicode_size_cached` (`cached`) and the
stored count (`usize`), which stays behind a flag that is off. Bytes are a space,
and the first and second byte of a two-byte character: enough to tell bytes
from characters and to have something to trim. Each `aux_` function of the
code, shared by the in-place, copying and appending call, is an operator from
the target, the source, whether they are the same, and whether the call
appends, to the new target. In-place moves are made by `MemMove`, not by slicing,
so that an overlapping move in the wrong order would show. Memory may be refused
wherever the string grows, except in the copying erasure (`aux_erase_u`), which
sets the size all the same (disagreement 7).

Clients use offsets that lie between characters and inside the string; `ss_cat`
and `ss_cpy` are given sources whose count is current or zero (disagreement 6),
`ss_cpy_erase_u` and `ss_cat_erase_u` targets without a cached count (7), and the
appending call of a function is not given its own target (8), except `ss_cat`,
which has code for it.

### TreeScan
The traversals run on the tree as `RBTree` has it between two calls. `z` is the
state of their loop: the stack of levels `p` (a node and how much of it is
done, the code's `eTState`), what the callback was given, and the deepest level.
`ScanTurn` is one turn of the loop of `srt_treer_aux`, whose callback is first given `ST_NIL`;
`RangeNode` of the macro `SM_ENUM_INORDER_XX`, whose callback may end the iteration (`stop`);
`LevelScan` works with two vectors as the code does. An order is compared with its recursive
definition, a range with the sorted set of its keys.

### Rewriting
The letters are the four i's of the Turkish mode, of one and two bytes. `CaseInPlace` and
`ReplaceInPlace` read and write one buffer, each at its own position; `CaseOf`
and `ReplacedFrom` write elsewhere. `FirstMatch` is where the replacement really
starts (disagreement 13). Two guards leave cases to the client: `Overtakes` (12) and
`StartsEarly` (13).

### Search
`s` is the end of the window, `current` its sum, `mode` which of the two searches runs,
`coll` the counter of failed comparisons with which the fast one gives up. `Starts` is the
filling of the window, `Window` an iteration, `Collided` / `Resume` the change of
mode, `SplitNext` the body of `ss_split`'s loop. The unrolled loop of the code compares
after every byte, too, so that one byte is the grain of a step.

### Encoding and Compression
An encoder goes backwards over blocks of bytes (three in base64, one elsewhere)
because it writes more than it reads; a decoder goes forwards. `EncodeInPlace` and
`DecodeInPlace` do it in one buffer, `Encode` and `Decode` in two. `Past` is what
lies behind the string, which decoders of XML and JSON look at.
`Compress` is `senc_lz` with its hash table of last positions, `Decompress` reads the
operations back, with `Doubling` for copies that overlap themselves. The packed
integers of the stream are numbers; the short copy of the code that always moves 16
bytes moves the bytes it is asked for.

### Vector and BitSet
A vector is its type, its block in bytes, the elements there is room for and those in use;
`Junk` is what a byte holds that no call has written. `aux_cat`, `aux_erase` and
`aux_resize` are operators from target and source, and whether they are the same, to
the set of vectors the call may leave: memory may be refused. `BitSet` has the
bits of the block, those beyond the size in use included, and the count.

Clients stay inside the vector when they erase or set, push values of the element's
size, push elements of the vector itself only when there is room, and do not append a
vector to itself cut short; generic vectors of different element sizes are not mixed, so that the
element sizes of source and target are one wherever the code could take either; look-ups start from offsets
whose bytes do not wrap around, or from `S_NPOS`
(disagreement 15 says what happens otherwise). `sv_sort` leaves the elements in *some* order: which one
is the business of `Sorting`.

### Sorting
`Place` is the unsigned place of a signed word. Masks are sets of bits. `Partition`,
`SortPart` and `RadixSort` are the template `BUILD_MSD_RADIX_SORT`, `Sort2` to `Sort4`
its networks, as they are written. `RadixSorts` says what they leave: where `s_msb` gives one bit, pairs
of neighbours that are apart from each other and do not hold the first word (of a part of three the
last two words, of one of four the middle two; disagreement 11).

## 3. What is checked

| Run | Question | Result |
|---|---|---|
| `SDataCore` | do header, block and elements stay in step through growth, failure and free? | holds |
| `SDataShrink` | the same with every shrink | `BlockCovers` violated (disagreement 1) |
| `RBTreeOps` | does the tree answer as a map, and refuse when it is full? (refinement) | holds |
| `RBTreeDeep` | red-black rules, every node found, internal assertions, the depth a traversal can hold; does every call end, within O(log n) turns? what do traversals and range iterations report? | holds |
| `RBTreeHang` | does every call return when keys that are there are written again and the root is left red? (liveness) | `CallsReturn` violated (2) |
| `HashMapOps` | exact counts and index, derived fields, a free bucket for every accepted insertion, no endless probe; answers as a map | holds |
| `HashMapClear` | is a cleared map empty? | `ClearedIsEmpty` violated (3) |
| `StrMapOps` | one owner per string, no leak, maps are independent dictionaries (hash maps are freed and duplicated, not cleared or overwritten) | holds |
| `VectorOps` | does a vector announce only elements that were written? do copies, cuts and concatenations, of itself too, give what they should? the population count; what the sorts leave | holds |
| `VectorSort` | does `sv_sort` sort? | `WordsSorted` violated (11) |
| `StringOps` | the cached count is exact; in place = copy, also for case, replacement, encodings; searches and splits find what is there and return (liveness); codes come back | holds |
| `StringSearch` | does `ss_find` find the first match? | `FindsFirst` violated (10) |

Four further configurations are kept for disagreements 2 to 5 and are expected to end
in a violation: `MCRBTreeUpdate.cfg` (`RedBlackRules`, when keys that are there are written again),
`MCHashMapCopy.cfg` (`DerivedFields`), `MCStrMapLeak.cfg` (`NoLeak`) and `MCStrMapLoss.cfg` (`WholeStrings`).

Each property of a passing run has a mutant in `PROJECT.json`: a changed form of
one mapped operator (defined before it in its module, "A mutant of ...") under
which TLC finds the property violated.

### Bounds, and why they are enough

* **SData**: `SmallMax = 6` stands for 255, headers of 2 and 5 bytes, requests
  up to 14, growth of a quarter, at most 2. Requests cross the small/full
  boundary from below, at it, and by growth alone; `SizeMax = 63` keeps the
  modulus larger than any size. The theorems remove all of these bounds but the
  last (`NoWrap`).
* **RBTree**: `RBTreeOps` has four keys, two values and room for three nodes, so
  that a full container is met; all call sequences, endless. It is a run about
  answers: three nodes are too few for rotations on two levels, and for the damage of
  disagreement 2, so nothing about balance or termination is asked of it. That
  is asked of `MCRBTreeDeep`, which runs plans, a sequence of calls followed by free ones. `RBTreeDeep` has
  four for it (`Growths`): every sequence of insertions, deletions and rewrites on six keys; three calls on any key after
  fourteen keys in order (the deepest trees the insertion makes); four after twelve in an
  order that leaves many red nodes; and four after `Harmless`, the history of `RBTreeHang`, which
  ruins the tree, without the six rewrites in it that leave the root red. Rewrites are among the free
  calls too, and a behaviour ends where one is about to leave the root red
  (`LeavesRootRed`): every history is one of `CoreSpec`, at a size at which those outside it end in a ring.
  `turns` counts those of the call that runs, up to `ScanLevels`, so that `WalksShort` bounds each call
  by 2 (log2 n + 1) turns: a call returns, without an appeal to fairness. `MCRBTreeUpdate.cfg` needs the
  twelve keys: with six, the double red does not occur. `RBTreeHang` follows one history of
  fifty-two calls, found by a random search, before the call that does not return. The theorems
  say what holds in trees of every size, for the histories of `CoreSpec`.
* **HashMap**: keys 1 and 2 have one hash, 3 shares their home in the small
  table and not in the large one, 4 lives in the last bucket, so probes wrap.
  With 2-bit hashes the table grows from two buckets to four, the largest
  there is, and reaches the threshold rule of the largest table. The instance
  with 3-bit hashes and growth to eight buckets (80 375 states) gives the same
  results. Buffers of the caller have 2 and 4 elements; one element is left out
  (disagreement 9).
* **StrMap**: the real sizes (18, 37, 34 bytes on 64 bits). Keys and values fall
  in every form; two handles, so that a copy and its source, or a half-made copy,
  are both there, and a null one; eight blocks: in `StrMapOps` two maps of two keys own at most six,
  and a call that lacks two free blocks does not start (allocation failure is not
  modelled here), so none is ever held up.
* **SString**: two strings of up to four bytes, every offset and length: an
  erasure has a head, a cut shorter than its tail, and a tail. Five bytes
  (9 870 states, two minutes) give the same results. The two strings are
  interchangeable (`SYMMETRY`; no liveness is checked there).

* **TreeScan**: three further plans of `RBTreeDeep`, `Scans`: every tree that calls on five keys make, and those
  two calls away from the fourteen and twelve keys above. Ranges start and end at keys, and between
  them; the callback ends an iteration at every key in range, or at none.
* **Rewriting**: strings of four and two bytes: a letter that grows before one that
  shrinks; a match at the start, at the end, next to another, at the offset and
  before it.
* **Search**: every text of up to eight bytes of two letters, and longer ones with a
  period of two that provoke failed comparisons: with `Span = 3` (10 in the
  code) the change of mode happens within sixteen bytes, early and late. Targets
  of one to three bytes, one of them never matched by its sum alone.
* **Encoding**: up to seven bytes, chosen so that escapes may start, be complete or be cut short:
  every remainder modulo three and four. **Compression**: ten bytes of two kinds, enough for both kinds
  of reference, one that overlaps itself and doubles twice, and one lost to another
  of the same hash.
* **Vector**: two handles, up to three and one elements, of one and two bytes: retyping
  halves and doubles the room, and odd rooms lose a byte. Clients ask for room for two at most: a third element
  comes by growth or by retyping. **BitSet**: up to five bytes of two bits.
* **Sorting**: counting sorts of 2-bit "bytes": with up to five, fewer and more
  than there are values, so that narrow and wide counters are used. Radix sorts of
  six 4-bit words of five kinds: parts of two, three and four, and one of five and more after a part.

### Side by side
`MCSString` and `MCVector` check several modules that share nothing in one run each, as
`subject`: a behaviour chooses one at its start and the others do not move. This
changes nothing for any of them; it only saves runs.

### Fairness
`RBTree!Spec` and `Search!Spec` have `WF_vars(Step)`, and `MCRBTreeDeep!DeepSpec` the same of its plans
(`RBTreeHang` and `StringOps` check liveness under it). A call
runs its loop on the client's thread and nothing can take its turn, so a turn
that can be taken is taken. Clients are never obliged to call. In `HashMap` calls
are single steps, and a loop that does not end is the answer `Fault`, ruled out
by `NoFault`. `CHECK_DEADLOCK FALSE` is used by the
`MCRBTreeDeep`, `MCSString` and `MCVector` instances, whose plans run out or whose
clients stop at a bound, or when their search has been answered.

## 4. What is proved

All theorems are checked by tlapm, for every value of the constants that the assumptions
named allow.

### SData

`SData_proofs`, under `SDataAssumption`:

* `CoreTypeOK`, `CoreBlockCovers`, `CoreHeaderMatches` (`CoreSpec => []...`) and
  `CoreResizeKeeps` (an action property), under `NoWrap`: header and element
  sizes times the largest capacity do not exceed `SizeMax`. The code does not
  check this product (disagreement 9), so the assumption is one on the client.
* `ExtBufferKept`: `Spec => ExtBufferFixed`, with no assumption at all, shrinking
  included.

None of the three invariants is inductive by itself. `BlockCovers` is not
preserved by growth unless the header kind follows the capacity: growth decides
from the capacity whether the old header was small, and copies 8-bit fields if
so. And nothing follows about the length of a block once sizes wrap, so the
capacity must be bounded: a reserve of at most `ReqMax` gives at most `ReqMax +
GrowCap`. Hence

    IInv == TypeOK /\ BlockCovers /\ HeaderMatchesCapacity /\ max <= ReqMax + GrowCap

`AllocSize` (no wrap: allocation size = header + elements) and `GrownBound` are
the lemmas all steps rest on; then one lemma per action, `NextIInv`, and the
temporal theorems by PTL. The case that needs `~ShrinkToSmall` is
`sd_shrink`: without it `HeaderMatchesCapacity` fails, and `SDataShrink` shows
the consequence.

### RBTree

`RBTree_proofs`, under `RBTreeAssumption` (keys are integers, values fit their width, room for at
least one node), for every set of keys and every capacity:

* `RBTreeTypeOK`, `RBTreeRedBlackRules`, `RBTreeEveryNodeFound`, `RBTreeAssertsHold`, `RBTreeShallowEnough`:
  no walk follows an index whose node is gone; between calls the tree passes the code's own check,
  every node is found by its key, and no path is longer than the stack of a traversal; the
  assertions inside `st_delete` hold.
* `RBTreeImplements`: the tree answers as `KeyMap` says a map does, although a call takes many
  turns, each of which may rotate, recolour, splice or move a node.

They are about `CoreSpec`. With the calls it leaves out they are false in trees of a
dozen keys or more: `MCRBTreeUpdate.cfg` shows it for `RedBlackRules`, and after the history of `RBTreeHang` the
links are no tree. `CoreSpec` does not exclude rewriting as such, only a
rewrite that leaves the root red: this is the one way a call can leave
what the next walk is not ready for.

None of these is inductive, not even `TypeOK`: the great-grandparent that an insertion remembers is out of date
after a rotation, which is harmless only as long as no second rotation follows; and a deletion that ends at the root unlinks it properly only because a black node with one son has
a red one. So whether links are in range depends on the colours, and these on the balance. The
invariant is

    TreeInv == types /\ (between calls: a red-black tree with a black root)
                     /\ (in a call: a red-black tree, and the window of the walk in it)

A tree is described without recursion, by functions that are asserted to exist. `Shape` gives each node its parent
and the set of keys that may be below it, so that the sons' sets are disjoint, ordered parts of
it and a node reached is the node searched for; `Even` gives each node its black height, and `Under` says
which node may be red over a red one (between two turns, none). The windows are the substance:

* `Win`, of an insertion, has three cases. `WinA`: the locals are what they are named after (parent, grandparent,
  great-grandparent), and if colours pushed up could make a second red in a row, the uncle is black. `WinB`, the
  turn after a rotation: the great-grandparent is out of date, but the current node is `Calm` (black, over black
  sons), so that no colours are pushed up and no rotation uses it. `WinC`, after a double rotation: the
  grandparent is out of date, too, and the current node is a red one over a calm one on the side of the key.
  A rewrite that returns in between leaves a tree in which calm nodes are not: hence `CoreSpec`.
* `DelWin`, of a deletion: the parent or the current node is red, or the walk is at the root, or just below a
  black root with black sons; the window is never out of date. `DelPath`: the
  node found stays above the current one, and no key between the two is left in the part of the tree to come, so
  that the node spliced out at the end is its neighbour in order.

The rotations and recolourings are lemmas about `Shape`, `Even` and `Under` (about half of the module), with one
lemma for each way a turn can go, and one for each way a deletion can end: the last node spliced out,
the hole filled with its data, the array's last node moved into the free slot and found by key
(`LocateParent`). The depth (`ShallowEnough`) follows from the black heights: below a node of
black height *b* there are at least 2^*b* - 1 nodes, counted in disjoint sets, and no path has more red
nodes than black ones.

### Vector and BitSet

`Vector_proofs`, under `VectorAssumption` (what the constants are; `Junk` is not a value; the
bytes of a vector with one element more than it may have fit a `size_t`):

* `VectorElementsReal`: `Spec => []ElementsReal`. A vector never announces an element outside
  its block or one no call has written.
* `VectorCatExact`, `VectorCopiesExact`: concatenations, copies, cuts and resizes leave what
  they should, with the target as an argument or without.
* `VectorReadsExact`: look-ups find the first element from their offset, if its bytes do not wrap or it is
  `S_NPOS`, and comparisons of parts are exact.

`ElementsReal` cannot be carried from a step to the next: it does not say that the parts of a
vector have the kinds they are taken for, nor that a handle without one is exactly `Blank`. Hence

    IInv == vec is a function, and each vector is Blank or Good, and res is a value or a truth value

where `Good` has the room inside the block, the elements in the room and all of them
values. Each of the operators the calls share (`aux_cat`, `aux_erase`, `aux_resize`, `Retyped`, ...) has a
lemma that its outcomes are `Good` when its arguments are. The steps that need thought are those with the
target as the source: what is read after the target was retyped or grown must be what was
there before. The guards on the client that disagreement 15 names are hypotheses of the lemmas: offsets of
an erasure within the source, no cut of a vector appended to itself, a push of the element's
size.

`CatExact` concerns two concatenations one after the other, and either source may be the
vector that grows. `CatOutcomes` gives the outcomes of one concatenation (done, or
refused with the elements as they were), `CatAdds` joins two of them, and
what the target held when it was called is carried along by name. `PutOutcome` does the
same for a copy, whose target may have been emptied because its type changed.
`ReadsExact` has a numeric edge: `sv_find` turns its offset into bytes, and those of `S_NPOS`
wrap around `size_t`. (Those of other huge offsets may wrap to the start of the vector: disagreement 15.) That the wrapped offset is past the end of every vector needs the bound on
the length (`Bounded`) and the assumption on the constants.

`BitSet_proofs`, with `BitSetAssumption` as a hypothesis:

* `BitSetCountExact`: `Spec => []CountExact`. The count no call recomputes is the number of
  bits set, and every bit in use was written. `IInv` adds what the block is: its bits, and a size
  in use that is at most the room. Each call changes the set of ones by one bit,
  or empties it, and the bits that come into use are zeroed first.

### StrMap

`StrMap_proofs`, under `StrMapAssumption` (the sizes are naturals; a key longer than
`DIMax` never shares the element with its value, or the size of the second buffer would wrap), for any number of maps, blocks and strings:

* `StrMapTypeOK`: an element has one of the forms of its map, with as many strings and references as the form
  says, and a null handle has none;
* `StrMapOneOwner`, `StrMapNoLeak`: a reference is to a block in use that no other element refers to, and no
  block lacks one;
* `StrMapWholeStrings`: elements read as what was stored;
* `StrMapImplements`: maps of strings are dictionaries that do not influence each other
  (`StrDict`), while trees are cleared and copied onto, and maps of either kind freed and duplicated.

They are about `CoreSpec`, and say nothing of hash maps of strings that are cleared or overwritten. `OneOwner` and `NoLeak` are not
inductive, even together: while a copy goes on, the elements it has not reached yet share every block with those of the
source, and the next step of the copy writes new blocks over those references. What makes this right is
that an unsettled element *is* an element of the source (`CopyOK`), so its blocks are still owned
after it was overwritten, and that settled ones share nothing. So

    OwnInv == types /\ CopyOK /\ OneOwner /\ NoLeak

The refinement also needs `ReadInv`: keys are unique within a map, and every element reads as a pair that
could be stored. Then each step of a call changes the dictionary of one map only,
because no other map refers to the blocks it frees.

### HashMap

`HashMap_proofs`, under `HashMapAssumption`, for every set of keys, every hash of it and every size of
table:

* `HashMapTypeOK`, `HashMapDerived`, `HashMapCountsExact`, `HashMapIndexExact`, `HashMapFreeBucket`,
  `HashMapReturns` (`NoFault`: every probe ends), `HashMapExtTableFixed`; of copies, `Spec` has the duplicates
  (`shm_dup`) and not those onto a map, which break `DerivedFields` (disagreement 3), and no clearing;
* `HashMapImplements`: the table, with its index, moves and rehashes, answers as `KeyMap`
  says a map does.

No one of these is inductive: a probe stops when it has met as many keys of its home bucket as this
counts, so whether it ends, what it finds, and what the next call leaves depend on all of them. The
invariant is one of the whole map,

    MapInv == MapOK(hm) /\ res in range        MapOK(m) == Header(m) /\ Table(m, 1 .. size)

`Header` has the fields derived from `hbits` and the unique keys; `Table(m, L)` says that
the used buckets and the locations `L` correspond one to one, that each bucket holds
the hash of the key at its location, and that each count is the cardinality of the used buckets
it is home to. The set `L` is what makes the proof go through: in the middle of a rehash it is the locations
already registered, in the middle of a deletion all but one. `Probe` is shown to stop at the
bucket of the key, or where the count is used up if there is none, by a least-number
argument over the distances from the home bucket; a free bucket exists because an insertion that passes
`aux_insert_check` has fewer elements than buckets. That last fact needs `RehashPct` below 100 (it is 90 in
the code): with 100 a table of the largest size could be full.

### SString

`SString_proofs`, for any number of strings of any length (`MaxLen` is any positive number):

* `SStringTypeOK`, `SStringCacheExact`: no call cuts a character, and the cached number of characters
  is that of the bytes;
* `SStringInPlaceAgrees`: a call does in place, moving bytes over themselves, what it does to another
  string; and it appends what it would have copied.

`CacheExact` depends on `TypeOK` (when a call subtracts the characters of the part it removed, that part must consist
of whole characters) and is not inductive without the bound on a count that is not current. So

    IInv == each string is a record of the right kinds, its bytes whole characters, its count
            that of the bytes when cached, and both within MaxLen

The model counts as the code does, in a loop (`CountToSize`). The lemmas define `Chars`, the number of bytes that are
no tails, prove that the loop counts them, that what lies between two offsets is a text of whole characters, and that characters add up over a
concatenation. `MemMoveCloses` describes the overlapping move of an erasure. What each call leaves is
then given as an expression in the bytes it was given (`Cut`, `Without`, `Resized`, ...), once
for every way to call it, and the agreement of in-place and copying calls is that these expressions are
equal.

### Search

`Search_proofs`, under `SearchAssumption`:

* `SearchFindsTarget`: `Spec => []FoundIsTarget`. What is found is a target inside
  the part that is searched, in both modes and across their change.
* `SplitIsExact`: `Spec => []SplitExact`. No byte is lost or repeated by `ss_split`, even though
  its searches may skip separators (disagreement 10): a separator that is skipped stays inside a
  substring.
* `SearchFindExact`: `Spec => []FindExact`. The sum that is moved along is that of the window in both modes,
  and a search that keeps to one mode answers the first match.

`FoundIsTarget` needs that the window never starts before the search does (`WindowInside`), which
the change of mode keeps because it starts again at the *end* of the window. `SplitExact` needs
`SplitOnTrack`: between two turns, the search that is running started right
after the separator the last substring ends at. `KeptGives` and `StepWithin` reduce both loops
to what a search step keeps (`Kept`), so that the six actions share one argument. `FindExact`
rests on two lemmas about the sum, a recursive function of the window: `SumMoves` (the next
window's is the last one's plus what enters minus what leaves, telescoping over the partial sums) and
`AtSum` (a target has the target's sum, so that a window is passed over for its sum only if it is none).

Four properties of the side-by-side runs are proved about the module they come from:
`FindExact`, `SplitExact`, `CallsAgree` (as `InPlaceAgrees`) and `BitCountExact` (as `CountExact`).

### How induction over data is avoided

The library's induction theorems take an operator, which the installed provers cannot
instantiate. Where a loop had to be reasoned about (`Probe`, `aux_rehash`, `CountToSize`, `SumAt`), the proofs use two
facts instead, stated over *sets*: a non-empty set of naturals has a least element (`LeastNat`, from
`WFMin`), and a set that has 0 and the successors of its members below `n` has all numbers
up to `n` (`UpTo`). For a recursive function, its defining equation is first derived from the
existence of a function that satisfies it, built up from its initial parts.

### Only model-checked

`TreeScan`, `Rewriting`, `Encoding`, `Compression` and `Sorting` (`ScansExact`, `RangesExact` --
`TraversalsOrdered` and `IterationsInRange` in the run --,
`RewritesExact`, `CodesReturn`, `SortsExact`), whose properties say that an algorithm
computes for all inputs what a recursive definition does; and `WalksShort`, which counts turns. Liveness (the `CallsReturn`
of searches) is out of the prover's reach, as is `ENABLED`. `RBTree` outside `CoreSpec` is checked on the instances of section 3 only.

## 5. Disagreements between code and documentation

Each was also reproduced by a C program against the library. Those with a run or a
configuration:

1. `sd_shrink` (sdata.c:191) gives a full-header string a small capacity; the
   next growth takes the header for a small one (`SDataShrink`).
2. `st_insert_rw` (stree.c:368) returns at an existing key with a double red not
   repaired or a red root (`MCRBTreeUpdate.cfg`). Later walks are not ready for it: an insertion that meets two
   double reds in a row hangs the second rotation under a great-grandparent the first has moved (stree.c:360), and
   the links form a ring. Fifty-two insertions, deletions and rewrites of twenty
   keys later, `sm_at`, `sm_insert` and `sm_delete` of key 17 do not return (`RBTreeHang`).
3. `shm_clear` leaves the buckets (`HashMapClear`); `shm_cpy` onto a map leaves
   `hmask` and `rh_threshold` of the old table (`MCHashMapCopy.cfg`). A key of the cleared map that is inserted
   again gets a second bucket for the same location, and of the two a deletion updates one: in a
   map of strings, insert *x*, *y*, *k*, clear, insert them again, delete *x*, *k* and *k*, and the blocks of
   *k* are released twice.
4. The string of an `ID` element (long key, short value) is never released
   (`MCStrMapLeak.cfg`, sstringo.c:211).
5. A key and a value of 35 to 37 bytes together lose the value (`MCStrMapLoss.cfg`,
   sstringo.c:69).

Number 10 and 11 have runs too. Met on the way, described under the hazards or left to
the client by the guards named above:

6. `ss_cat` and `ss_cpy` pass on the count a source has behind a flag that is off
   (`ss_resize` then `ss_dup`: `ss_len_u` of the duplicate is wrong). With an
   empty first source, `ss_cat` appends none of the others.
7. `ss_cpy_erase_u` / `ss_cat_erase_u` into a target with a cached count compute
   the new one from the target's old one; the size is set even when the memory
   was refused. Past the end of the source they leave the target as it was, as
   does `ss_cpy_resize_u` to the length the source has.
8. `ss_cat_ltrim`, `ss_cat_rtrim`, `ss_cat_resize` of a string onto itself read
   bytes never written, or the block before the reallocation.
9. `shm_alloca(1)` overlaps its second bucket with the elements; `shm_alloca(n)`
   with `n` a power of two refuses before `n` elements; a hash map element set
   again loses its old strings on the heap; allocation sizes wrap for huge requests
   (`sd_alloc_size_raw`); `st_locate` on an empty tree reads through a null pointer;
   `st_dup` copies the header of the source over the capacity of the new block.
10. `ss_find` misses a match (`StringSearch`): when it gives up the fast sum it goes on
    from the end of the window and not from its start (ssearch.c:41).
    `ss_find("bxbxbxbxbb", 0, "bb")` is `S_NPOS`, not 8.
11. `sv_sort` does not sort (`VectorSort`). `BUILD_SORT3` (ssort.c:46) makes two of the three
    comparisons: `{1, 3, 2, 1000}` in 32 bits stays as it is. `BUILD_SORT4` (ssort.c:54) makes one of its six twice
    in a row, and may leave its middle words the wrong way round: `{2, 3, 0, 1}` becomes `{0, 2, 1, 3}`, and
    `{2, 3, 0, 1, 7}`, where `s_msb` is right, `{0, 2, 1, 3, 7}`. `s_msb` (scommon.h:646)
    stops smearing before half a word and leaves the first bit of every run: `{512, 1}` in 16
    bits stays as it is.
12. Case conversion in place (sstring.c:448) overwrites bytes it has not read when a character
    grows and later ones shrink: "I" and a dotted capital I under the Turkish mode.
13. `aux_replace` (sstring.c:697) searches from twice the offset when the string shrinks, and
    from the byte before it when not: a match there makes the length of a `memcpy`
    wrap. `ss_cpy_replace` with nothing to replace leaves its target as it was unless the
    string would shrink. `ss_cat_replace` of a string to itself that shrinks replaces in place.
14. `sdec_esc_json` and `sdec_esc_xml` read a byte past the end of the string, and
    `sdec_b64` of one byte the byte before it; `ss_cpy_enc_*` of an empty source leaves the target as it was.
15. `sv_erase` past the end and `sv_cat_resize` of a vector to itself announce
    elements nobody wrote; so does `sv_push` of a value of the wrong size, which then fails. `sv_push` of an element
    of the vector itself reads it after the block has moved. Generic vectors
    of different element sizes count as of one type, and `aux_resize` then copies with the element size of the
    source (svector.c:277). `sv_find` from an offset whose product with the element size wraps
    (svector.c:462) searches from the start. `sv_ncmp` of equal vectors with more
    elements asked for than there are is -1. `sb_test` is not bound-checked ("Safe: bound
    checked", sbitset.h:25), and bits reserved by `sb_reserve` are not in use until `sb_clear`.

## 6. How the models were compared with the code

Random operation sequences were run through the C library and the states or
answers compared with those the specification allows: the tree (about 2 200
calls, node array and colours; the parts of `TreeInv`, which TLC cannot evaluate because it asserts that
functions exist, were tested on random histories of a transcription of the module before they were proved), the hash map (about 1 300 calls, buckets
included), the string maps (40 seeds of 300 calls, address and leak sanitizers on
the calls of `CoreSpec`), the strings (400 seeds of 400 calls of `SString!Next`,
the cached count recomputed after each, across the small/full header boundary).
For searches, sorts, replacements, case conversion and the encoders, the outcomes the modules
give, the wrong ones included, were compared with those of the library on
the inputs of disagreements 10 to 15.

## 7. Not modelled, and why

* `smap`: copies that change a map's type or are made onto their source, sort to vectors;
  `st_dup` (no typed call uses it). `shmap`: iteration over elements, which reads the packed array in order.
  Both: planned.
* `sstring`: comparison, look-ups of single bytes and characters, formatting, wide characters, file I/O (pure
  functions of their arguments, or outside). `schar`: the tables of case are data.
* `senc`: `\u` escapes and numeric references, and the width of packed integers.
* Hashes and CRC: bit arithmetic and generated tables (`HashMap` takes any hash function).
* `svector`: constant vectors over a client's array; floating-point sorts (libc).
* Element bytes and alignment; debugging; tests and build files.

## 8. Plan

Order of work: the memory layer everything grows through, then the two
containers with hand-kept indices and what they promise, then what elements own,
then strings, vectors, and the algorithms under them. Done: all modules of
section 2, and the proofs of section 4. Next:

1. The traversals of `TreeScan` on the trees `TreeInv` describes: the order of the report is that of the
   sets of keys `Shape` names, and `RBTreeShallowEnough` bounds the stack.
2. What section 7 calls planned: copies between maps of different types, `st_dup`, the iteration of `shmap`.
