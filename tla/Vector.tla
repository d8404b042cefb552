------------------------------- MODULE Vector -------------------------------
(***************************************************************************)
(* Vectors (svector.c): a sequence of elements of one type in one block.   *)
(*                                                                         *)
(* Nearly every call takes a source that may be the vector it writes, and  *)
(* may have to move the block first; the families cat/cpy/dup, erase and   *)
(* resize are one function each (aux_cat, aux_erase, aux_resize).  A copy  *)
(* of a vector of another type retypes the target and goes on using its    *)
(* block, whose room is then counted in the new element size.              *)
(*                                                                         *)
(* A vector is its type, its block in bytes (the header is SData's         *)
(* subject), the elements the header says there is room for, and the       *)
(* elements in use; what lies in the block past them is nobody's.          *)
(***************************************************************************)
EXTENDS Integers, SequencesExt

CONSTANTS
  Handle,    \* the client's variables of type srt_vector *
  Type,      \* element types
  ElemSize,  \* [Type -> bytes per element]
  Sub,       \* [Type -> sub_type]: all the generic types have the same
  Val,       \* elements, ordered as integers (vx.cmpf)
  Junk,      \* what memory nobody has written holds
  GrowPct,   \* SD_GROW_PCT
  SizeMax,   \* the largest size_t
  MaxLen,    \* bound: [Handle -> elements the client puts in a vector]
  ReqMax     \* bound: elements the client asks room for

ASSUME VectorAssumption ==
  /\ "none" \notin Type /\ ElemSize \in [Type -> Nat \ {0}]
  /\ DOMAIN Sub = Type
  /\ Val \subseteq Int /\ Junk \in Int \ Val
  /\ GrowPct \in Nat /\ SizeMax \in Nat \ {0}
  /\ MaxLen \in [Handle -> Nat] /\ ReqMax \in Nat
  /\ \A h \in Handle, t \in Type : (MaxLen[h] + 1) * ElemSize[t] <= SizeMax

VARIABLES
  vec,   \* the vector of each handle
  res    \* what the last call answered: S_FALSE, S_TRUE or an element

vars == <<vec, res>>

S_FALSE == 0
S_TRUE  == 1
Npos    == SizeMax

Blank == [type |-> "none", ext |-> FALSE, max |-> 0, block |-> 0, seq |-> << >>]
IsVec(h) == vec[h] # Blank

Least(a, b) == IF a < b THEN a ELSE b
Take(s, n) == SubSeq(s, 1, Least(n, Len(s)))
Drop(s, n) == SubSeq(s, n + 1, Len(s))

\* The size set to n: elements past those in use are announced as they are.
Announced(s, n) == [i \in 1 .. n |-> IF i <= Len(s) THEN s[i] ELSE Junk]

----------------------------------------------------------------------------
(* Room.                                                                   *)

\* sv_alloc_raw
Fresh(t, n, ext) ==
  [type |-> t, ext |-> ext, max |-> n, block |-> n * ElemSize[t], seq |-> << >>]

Grown(n) == n + (n * GrowPct) \div 100

\* sd_reserve: a buffer does not grow, and a reallocation may fail.
Reserved(x, n) ==
  IF n <= x.max \/ x.ext THEN {x}
  ELSE {x, [x EXCEPT !.max = Grown(n), !.block = Grown(n) * ElemSize[x.type]]}

\* aux_reserve: with no vector yet, one of the type of the source is made.
ReservedLike(x, src, n) ==
  IF x = Blank THEN {Fresh(src.type, n, FALSE)} ELSE Reserved(x, n)

\* The elements of src as x reads them: with its own element size.
ReadBy(x, src) ==
  IF x = Blank \/ ElemSize[x.type] = ElemSize[src.type] THEN src.seq
  ELSE [i \in DOMAIN src.seq |-> Junk]

----------------------------------------------------------------------------
(* The three families.  Each is the set of vectors a call may leave x as:  *)
(* self says that the source is the vector itself.                         *)

\* A mutant of Retyped: the room is kept as it was counted.
RetypedRoomKept(x, src) == [x EXCEPT !.type = src.type, !.seq = << >>]

\* The block is reused for elements of another size.
Retyped(x, src) ==
  [x EXCEPT !.type = src.type, !.seq = << >>,
            !.max = (x.max * ElemSize[x.type]) \div ElemSize[src.type]]

\* aux_cat: n elements of src at most, after those of x (cat) or in their place.
\* A concatenation of another type is ignored.
aux_cat(x, cat, src, n) ==
  LET ss     == Least(n, Len(src.seq))
      kept   == IF cat THEN x.seq ELSE << >>
      filled(y, s) == IF y.max >= Len(s) THEN [y EXCEPT !.seq = s] ELSE y
  IN  CASE x = Blank -> {[Fresh(src.type, Len(src.seq), FALSE)
                            EXCEPT !.seq = src.seq]}
        [] x # Blank /\ Sub[x.type] = Sub[src.type] ->
             {filled(y, kept \o Take(ReadBy(x, src), ss)) : y \in Reserved(x, Len(kept) + ss)}
        [] OTHER -> IF cat THEN {x}
                    ELSE {filled(y, Take(src.seq, ss)) : y \in Reserved(Retyped(x, src), ss)}

\* A mutant of aux_erase: in place, the size stays.
aux_eraseWhole(x, cat, src, self, off, n) ==
  LET from == ReadBy(x, src)
      ss0  == Len(from)
      kept == IF cat THEN x.seq ELSE << >>
      rest == Drop(from, Least(off + n, ss0))
      out  == kept \o Announced(from, off) \o rest
  IN  IF self
        THEN {[x EXCEPT !.seq = IF off + n > ss0 THEN Announced(@, off)
                                ELSE Announced(Take(@, off) \o rest, ss0)]}
        ELSE {IF y.max >= Len(out) THEN [y EXCEPT !.seq = out] ELSE y :
                y \in ReservedLike(x, src, Len(out))}

\* aux_erase: src without n elements from off.  In place the tail moves down;
\* else both parts are copied, after the elements of x (cat) or in their place.
\* No type is looked at.
aux_erase(x, cat, src, self, off, n) ==
  LET from == ReadBy(x, src)
      ss0  == Len(from)
      kept == IF cat THEN x.seq ELSE << >>
      rest == Drop(from, Least(off + n, ss0))
      out  == kept \o Announced(from, off) \o rest
  IN  IF self
        THEN {[x EXCEPT !.seq = IF off + n >= ss0 THEN Announced(@, off)
                                ELSE Take(@, off) \o rest]}
        ELSE {IF y.max >= Len(out) THEN [y EXCEPT !.seq = out] ELSE y :
                y \in ReservedLike(x, src, Len(out))}

\* A mutant of aux_resize: n is not limited to the elements there are.
aux_resizeUnlimited(x, cat, src, self, n) ==
  LET kept == IF cat THEN x.seq ELSE << >>
      size == Len(kept) + n
      out  == IF self THEN Announced(x.seq, size) ELSE Announced(kept \o ReadBy(x, src), size)
  IN  {IF y.max >= size THEN [y EXCEPT !.seq = out] ELSE y :
         y \in ReservedLike(x, src, size)}

\* aux_resize: the first n elements of src; it never adds any.  In place
\* nothing is copied: the size is set.  (The code counts the bytes to copy in
\* the element size of src; see Alike.)
aux_resize(x, cat, src, self, n) ==
  LET kept == IF cat THEN x.seq ELSE << >>
      size == Len(kept) + Least(n, Len(src.seq))
      out  == IF self THEN Announced(x.seq, size) ELSE kept \o Take(ReadBy(x, src), n)
  IN  {IF y.max >= size THEN [y EXCEPT !.seq = out] ELSE y :
         y \in ReservedLike(x, src, size)}

----------------------------------------------------------------------------
(* The calls.                                                              *)

Becomes(h, outcomes) ==
  /\ \E y \in outcomes : vec' = [vec EXCEPT ![h] = y]
  /\ res' = S_TRUE

sv_alloc(h, t, n, ext) == ~IsVec(h) /\ Becomes(h, {Fresh(t, n, ext)})
sv_free(h) == IsVec(h) /\ Becomes(h, {Blank})
sv_reserve(h, n) == IsVec(h) /\ Becomes(h, Reserved(vec[h], n))
sv_clear(h) == IsVec(h) /\ Becomes(h, {[vec[h] EXCEPT !.seq = << >>]})

sv_shrink(h) ==
  LET x == vec[h]
      n == Len(x.seq)
  IN  /\ IsVec(h)
      /\ Becomes(h, IF x.ext \/ n >= x.max THEN {x} ELSE
           {x, [x EXCEPT !.max = n, !.block = n * ElemSize[x.type]]})

sv_cpy(h, s) ==
  IsVec(s) /\ Becomes(h, aux_cat(vec[h], FALSE, vec[s], Len(vec[s].seq)))

\* A mutant of CatOne: the vector itself is taken as it has become.
CatOneCurrent(h, y, s) ==
  LET src == IF s = h /\ IsVec(h) THEN y ELSE vec[s]
  IN  aux_cat(y, TRUE, src, Len(src.seq))

\* A source that is the vector itself is read where the block now is, up to
\* the size the vector had before the call.
CatOne(h, y, s) ==
  LET src == IF s = h /\ IsVec(h) THEN y ELSE vec[s]
  IN  aux_cat(y, TRUE, src, Len(vec[s].seq))

\* sv_cat_aux, with two sources: each is added if it finds room.
sv_cat_aux(h, s1, s2) == UNION {CatOne(h, y, s2) : y \in CatOne(h, vec[h], s1)}

sv_cat(h, s1, s2) == IsVec(s1) /\ IsVec(s2) /\ Becomes(h, sv_cat_aux(h, s1, s2))

sv_erase(h, cat, s, off, n) ==
  IsVec(s) /\ Becomes(h, aux_erase(vec[h], cat, vec[s], h = s, off, n))

sv_resize(h, cat, s, n) ==
  IsVec(s) /\ Becomes(h, aux_resize(vec[h], cat, vec[s], h = s, n))

\* sv_sort keeps the elements, in some order: which one is Sorting's subject,
\* since the algorithms do not always sort.
Arranged(q) ==
  {[i \in DOMAIN q |-> q[p[i]]] : p \in Bijection(DOMAIN q, DOMAIN q)}

sv_sort(h) ==
  IsVec(h) /\ Becomes(h, {[vec[h] EXCEPT !.seq = q] : q \in Arranged(vec[h].seq)})

\* sv_set_aux, with a value of the given number of bytes.  Past the end the
\* size is raised to hold it.
sv_set(h, i, e, bytes) ==
  LET x    == vec[h]
      size == IF i < Len(x.seq) THEN Len(x.seq) ELSE i + 1
      put(y) == [y EXCEPT !.seq = [Announced(@, size) EXCEPT ![i + 1] = e]]
  IN  /\ IsVec(h)
      /\ IF bytes # ElemSize[x.type]
           THEN UNCHANGED vec /\ res' = S_FALSE
           ELSE \E y \in Reserved(x, size) :
                  /\ vec' = [vec EXCEPT ![h] = IF y.max < size THEN y ELSE put(y)]
                  /\ res' = IF y.max < size THEN S_FALSE ELSE S_TRUE

\* The size goes up before the bytes of the value are looked at.
Pushed(y, e, bytes) ==
  IF y.max <= Len(y.seq) THEN y
  ELSE [y EXCEPT !.seq = Append(@, IF bytes = ElemSize[y.type] THEN e ELSE Junk)]

\* sv_push_raw0, with one value.
sv_push(h, e, bytes) ==
  /\ IsVec(h)
  /\ \E y \in Reserved(vec[h], Len(vec[h].seq) + 1) :
       /\ vec' = [vec EXCEPT ![h] = Pushed(y, e, bytes)]
       /\ res' = IF y.max > Len(y.seq) /\ bytes = ElemSize[y.type]
                   THEN S_TRUE ELSE S_FALSE

\* sv_push of a pointer into the vector: it is read after the block moved.
sv_push_own(h, i) ==
  /\ IsVec(h) /\ i < Len(vec[h].seq)
  /\ \E y \in Reserved(vec[h], Len(vec[h].seq) + 1) :
       LET read == IF y.block = vec[h].block THEN vec[h].seq[i + 1] ELSE Junk
       IN  /\ vec' = [vec EXCEPT ![h] = Pushed(y, read, ElemSize[y.type])]
           /\ res' = IF y.max > Len(y.seq) THEN S_TRUE ELSE S_FALSE

sv_pop(h) ==
  /\ IsVec(h)
  /\ LET x == vec[h]
         n == Len(x.seq)
     IN  IF n = 0
           THEN UNCHANGED vec /\ res' = S_FALSE
           ELSE vec' = [vec EXCEPT ![h].seq = Take(@, n - 1)] /\ res' = x.seq[n]

----------------------------------------------------------------------------
(* Reading.                                                                *)

\* The first of the places found.
FirstOf(at) == IF at = {} THEN Npos ELSE CHOOSE i \in at : \A j \in at : i <= j

\* sv_find_aux: the byte offset the search starts from wraps.
sv_find(x, off, e) ==
  LET first == ((off * ElemSize[x.type]) % (SizeMax + 1)) \div ElemSize[x.type]
  IN  FirstOf({i \in first .. Len(x.seq) - 1 : x.seq[i + 1] = e})

\* A mutant of sv_ncmp: what one has and the other has not is not looked at.
sv_ncmpShort(x, xoff, y, yoff, n) ==
  LET left(s, off) == IF off < Len(s) THEN Len(s) - off ELSE 0
      m    == Least(n, Least(left(x.seq, xoff), left(y.seq, yoff)))
      diff == {i \in 1 .. m : x.seq[xoff + i] # y.seq[yoff + i]}
      i    == CHOOSE k \in diff : \A j \in diff : k <= j
  IN  IF diff # {} THEN (IF x.seq[xoff + i] < y.seq[yoff + i] THEN -1 ELSE 1)
      ELSE 0

\* sv_ncmp of elements of one byte, or ordered as their bytes are: the sign.
sv_ncmp(x, xoff, y, yoff, n) ==
  LET left(s, off) == IF off < Len(s) THEN Len(s) - off ELSE 0
      m    == Least(n, Least(left(x.seq, xoff), left(y.seq, yoff)))
      diff == {i \in 1 .. m : x.seq[xoff + i] # y.seq[yoff + i]}
      i    == CHOOSE k \in diff : \A j \in diff : k <= j
  IN  IF diff # {} THEN (IF x.seq[xoff + i] < y.seq[yoff + i] THEN -1 ELSE 1)
      ELSE IF m = n THEN 0
      ELSE IF Len(x.seq) > Len(y.seq) THEN 1 ELSE -1

\* sv_cmp of two elements; those past the end come after all others.
sv_cmp(x, a, b) ==
  LET n == Len(x.seq)
  IN  CASE a >= n /\ b >= n -> 0
        [] a >= n /\ b < n  -> 1
        [] a < n /\ b >= n  -> -1
        [] OTHER -> IF x.seq[a + 1] < x.seq[b + 1] THEN -1
                    ELSE IF x.seq[a + 1] > x.seq[b + 1] THEN 1 ELSE 0

----------------------------------------------------------------------------
(* The client: what it must not do is in the guards of Next (see README).   *)

Init == vec = [h \in Handle |-> Blank] /\ res = S_FALSE

\* Elements of one size; and, if the code does not see a difference of type.
Alike(h, s) ==
  IsVec(s) /\ (IsVec(h) => ElemSize[vec[h].type] = ElemSize[vec[s].type])
ToldApart(h, s) ==
  IsVec(h) /\ IsVec(s) /\ Sub[vec[h].type] = Sub[vec[s].type] => Alike(h, s)
SizeOf(h) == Len(vec[h].seq)
Fits(h) == Len(vec'[h].seq) <= MaxLen[h]

Memory(h) ==
  \/ \E t \in Type, n \in 0 .. ReqMax, ext \in BOOLEAN : sv_alloc(h, t, n, ext)
  \/ \E n \in 0 .. ReqMax : sv_reserve(h, n)
  \/ sv_free(h) \/ sv_shrink(h) \/ sv_clear(h)

Elements(h) ==
  \/ \E e \in Val : IsVec(h) /\ sv_push(h, e, ElemSize[vec[h].type])
  \/ \E i \in 0 .. SizeOf(h) - 1 : SizeOf(h) < vec[h].max /\ sv_push_own(h, i)
  \/ \E i \in 0 .. SizeOf(h), e \in Val, t \in Type : sv_set(h, i, e, ElemSize[t])
  \/ sv_pop(h) \/ sv_sort(h)

Whole(h) ==
  \E s \in Handle :
    \/ ToldApart(h, s) /\ sv_cpy(h, s)
    \/ \E s2 \in Handle :
         ToldApart(h, s) /\ ToldApart(h, s2) /\ ToldApart(s, s2) /\ sv_cat(h, s, s2)
    \/ \E cat \in BOOLEAN, off \in 0 .. SizeOf(s), n \in 0 .. MaxLen[s] \cup {Npos} :
         Alike(h, s) /\ sv_erase(h, cat, s, off, n)
    \/ \E cat \in BOOLEAN, n \in 0 .. MaxLen[s] + 1 :
         Alike(h, s) /\ ~(cat /\ h = s) /\ sv_resize(h, cat, s, n)

Next == \E h \in Handle : (Memory(h) \/ Elements(h) \/ Whole(h)) /\ Fits(h)

Spec == Init /\ [][Next]_vars

----------------------------------------------------------------------------
(* Properties.                                                             *)

\* A vector's room lies within its block and its elements within its room,
\* whatever it has been retyped to, and a caller's buffer is never outgrown.
TypeOK ==
  /\ \A h \in Handle : IsVec(h) =>
       /\ vec[h].type \in Type
       /\ vec[h].max * ElemSize[vec[h].type] <= vec[h].block
       /\ Len(vec[h].seq) <= vec[h].max
  /\ res \in Val \cup {S_TRUE, S_FALSE}

\* Every element a vector announces lies in its block (TypeOK) and was written
\* by a call: none is left over from a block that moved, shrank, was retyped or
\* never held it.
ElementsReal == TypeOK /\ \A h \in Handle : Junk \notin Range(vec[h].seq)

\* What a call adds from s: nothing when the types differ.
Given(h, s) ==
  IF IsVec(h) /\ Sub[vec[h].type] # Sub[vec[s].type] THEN << >> ELSE vec[s].seq

\* What a concatenation may leave: each source added or left out.
CatEnds(h, s1, s2) ==
  LET l   == vec[h].seq
      g1  == Given(h, s1)
      g2  == IF IsVec(h) \/ Sub[vec[s1].type] = Sub[vec[s2].type]
               THEN Given(h, s2) ELSE << >>
      all == l \o g1 \o g2
      ends == {y.seq : y \in sv_cat_aux(h, s1, s2)}
  IN  /\ ends \subseteq {l, l \o g1, l \o g2, all}
      /\ vec[h].max >= Len(all) => ends = {all}
      /\ ~vec[h].ext => all \in ends

\* A concatenation adds the elements its sources had when it was called, in
\* order, also when a source is the vector it grows.  A source that finds no room
\* is left out; none is when there was room for all, or the block could grow.
CatExact ==
  \A h, s1, s2 \in Handle :
    IsVec(s1) /\ IsVec(s2) /\ ToldApart(h, s1) /\ ToldApart(h, s2) /\ ToldApart(s1, s2)
      => CatEnds(h, s1, s2)

\* A copy of what is wanted from s.  A call that finds no room leaves the target
\* as it was, or empty if it had to change its type.
CopyDone(h, s, y, want) ==
  \/ y.seq = want
  \/ /\ h # s /\ IsVec(h) /\ y.max < Len(want)
     /\ y.seq = IF Sub[vec[h].type] = Sub[vec[s].type] \/ y.type = vec[h].type
                  THEN vec[h].seq ELSE << >>

\* A copy is the source: all of it, without the elements cut, or its first
\* ones.  In place, a cut always succeeds.
CopiesExact ==
  \A h, s \in Handle : IsVec(s) =>
    LET x == vec[h]
        l == vec[s].seq
    IN  /\ ToldApart(h, s) =>
             \A y \in aux_cat(x, FALSE, vec[s], Len(l)) : CopyDone(h, s, y, l)
        /\ Alike(h, s) =>
             \A n \in 0 .. MaxLen[s] + 1 :
               /\ \A y \in aux_resize(x, FALSE, vec[s], h = s, n) :
                    CopyDone(h, s, y, Take(l, n))
               /\ \A off \in 0 .. Len(l) :
                    \A y \in aux_erase(x, FALSE, vec[s], h = s, off, n) :
                      CopyDone(h, s, y, Take(l, off) \o Drop(l, Least(off + n, Len(l))))

\* The offsets whose bytes do not wrap around, within the vector or far past it.
Unwrapped(es) == {off \in 0 .. SizeMax : off * es <= SizeMax}

\* Look-ups and comparisons: the first element equal to the target from an
\* offset on, if the bytes of the offset do not wrap around or it is S_NPOS;
\* two stretches compare equal when both have the n elements and these are the
\* same.  (The bytes of other offsets may wrap to the start of the vector, and
\* the look-up then answers an element before the offset.)
ReadsExact ==
  \A h, s \in Handle : IsVec(h) /\ IsVec(s) =>
    /\ \A off \in Unwrapped(ElemSize[vec[h].type]) \cup {Npos}, e \in Val :
         sv_find(vec[h], off, e) =
           FirstOf({i \in 0 .. SizeOf(h) - 1 : i >= off /\ vec[h].seq[i + 1] = e})
    /\ \A i \in 0 .. SizeOf(h), j \in 0 .. SizeOf(s), n \in 0 .. MaxLen[h] :
         Alike(h, s) =>
           ((sv_ncmp(vec[h], i, vec[s], j, n) = 0) <=>
              /\ i + n <= SizeOf(h) /\ j + n <= SizeOf(s)
              /\ Take(Drop(vec[h].seq, i), n) = Take(Drop(vec[s].seq, j), n))
=============================================================================
