------------------------------ MODULE SString ------------------------------
(***************************************************************************)
(* Strings (sstring.c): bytes that are read as UTF-8, and a cache of the   *)
(* number of characters in them.  Every call that changes the bytes has to *)
(* update the cache, or to drop it, and most calls exist three times: in   *)
(* place (ss_trim), into another string (ss_cpy_trim) and at the end of    *)
(* one (ss_cat_trim), all through one aux_ function whose target may be    *)
(* its source.                                                             *)
(*                                                                         *)
(* Capacity is SData's: here growing succeeds or not.  Characters take one *)
(* byte or two.  Offsets fall between characters, as those a client gets   *)
(* from ss_find do, and are not past the end of the string.                *)
(***************************************************************************)
EXTENDS Integers, Sequences

CONSTANTS
  Var,      \* the strings of the client
  MaxLen    \* bound: bytes in a string

ASSUME SStringAssumption == MaxLen \in Nat \ {0}

VARIABLE str    \* of each Var: bytes, is_unicode_size_cached, unicode_size

Space == " "
Lead  == "L"      \* the first byte of a two-byte character ...
Tails == {"c", "d"}   \* ... and the second one
Char  == {<<Space>>, <<Lead, "c">>}

----------------------------------------------------------------------------
(* UTF-8.                                                                  *)

\* sc_utf8_char_size: a character cut by the end of the string counts as one.
CharSize(b, i) == IF b[i] = Lead /\ i < Len(b) THEN 2 ELSE 1

\* sc_unicode_count_to_utf8_size: the bytes of the first k characters from
\* `off' on, and how many characters there were: where the loop is after each turn.
CountToSize(b, off, k) ==
  LET turn[u \in 0 .. k] ==
        IF u = 0 THEN [at |-> off, count |-> 0]
        ELSE LET t == turn[u - 1]
             IN  IF t.at >= Len(b) THEN t
                 ELSE [at |-> t.at + CharSize(b, t.at + 1), count |-> t.count + 1]
  IN  [size |-> turn[k].at - off, count |-> turn[k].count]

\* sc_utf8_count_chars.
CountChars(b) == CountToSize(b, 0, Len(b)).count

\* Characters that are not cut at either end.
Whole(b) ==
  /\ \A i \in 1 .. Len(b) : b[i] = Lead => i < Len(b) /\ b[i + 1] \in Tails
  /\ \A i \in 1 .. Len(b) : b[i] \in Tails => i > 1 /\ b[i - 1] = Lead

\* Types; whatever calls are made, strings hold whole characters.
TypeOK ==
  \A s \in Var :
    /\ Len(str[s].bytes) <= MaxLen
    /\ Whole(str[s].bytes)
    /\ str[s].cached \in BOOLEAN
    /\ str[s].usize \in 0 .. MaxLen

----------------------------------------------------------------------------
(* The fields of a string.                                                 *)

\* ss_reset, ss_clear.
Cleared == [bytes |-> << >>, cached |-> TRUE, usize |-> 0]

\* set_unicode_size_cached(s, S_FALSE): the old count stays behind the flag.
Uncached(t) == [t EXCEPT !.cached = FALSE]

\* set_unicode_size.
Counted(t, k) == IF t.cached THEN [t EXCEPT !.usize = k] ELSE t

Sized(t, b) == [t EXCEPT !.bytes = b]

\* memmove within a buffer.
MemMove(b, to, from, n) ==
  [i \in 1 .. Len(b) |-> IF i - 1 \in to .. to + n - 1 THEN b[i - to + from] ELSE b[i]]

Prefix(b, n) == SubSeq(b, 1, n)
Suffix(b, off) == SubSeq(b, off + 1, Len(b))
Min2(m, n) == IF m < n THEN m ELSE n

----------------------------------------------------------------------------
(* The functions behind the calls: the string the target t becomes.  x is  *)
(* the source; same: it is the target; cat: the result goes to the end of  *)
(* the target; room: the memory needed is there.                           *)

At(t, cat) == IF cat THEN t.bytes ELSE << >>

\* A mutant of ss_cat_cn_raw: bytes of which the characters are not known.
ss_cat_cn_rawCached(t, b, k) ==
  IF b = << >> THEN t ELSE Counted(Sized(t, t.bytes \o b), t.usize + k)

\* ss_cat_cn_raw: k is 0 when the characters in b are not known.
ss_cat_cn_raw(t, b, k) ==
  LET r == Sized(t, t.bytes \o b)
  IN  IF b = << >> THEN t
      ELSE IF k > 0 THEN Counted(r, t.usize + k) ELSE Uncached(r)

\* ss_cpy_substr in place.
SubstrInPlace(t, off, n) ==
  LET b == t.bytes
      size == Min2(Len(b) - off, n)
  IN  IF n = 0 \/ off >= Len(b) THEN Cleared
      ELSE Uncached(Sized(t, Prefix(MemMove(b, 0, off, size), size)))

\* ss_cat_substr into another string, or the same one, which grows first.
ss_cat_substr(t, x, off, n) ==
  IF n = 0 \/ off >= Len(x.bytes) THEN t
  ELSE ss_cat_cn_raw(t, SubSeq(x.bytes, off + 1, Min2(off + n, Len(x.bytes))), 0)

\* ss_cpy_substr_u in place.
SubstrUInPlace(t, coff, n) ==
  LET b    == t.bytes
      off  == CountToSize(b, 0, coff).size
      part == CountToSize(b, off, n)
      cut  == Sized(t, Prefix(MemMove(b, 0, off, part.size), part.size))
  IN  IF n = 0 \/ off >= Len(b) THEN Cleared
      ELSE IF part.count = n THEN [cut EXCEPT !.cached = TRUE, !.usize = n]
      ELSE Uncached(cut)

\* ss_cat_substr_u into another string.
ss_cat_substr_u(t, x, coff, n) ==
  LET off  == CountToSize(x.bytes, 0, coff).size
      part == CountToSize(x.bytes, off, n)
  IN  IF off >= Len(x.bytes) THEN t
      ELSE ss_cat_cn_raw(t, SubSeq(x.bytes, off + 1, off + part.size), part.count)

aux_erase(t, x, same, cat, off, n) ==
  LET b == x.bytes
      tail == IF off + n > Len(b) THEN 0 ELSE Len(b) - off - n
  IN  Uncached(Sized(t,
        IF same
          THEN IF off + n >= Len(b) THEN Prefix(b, off)
               ELSE Prefix(MemMove(b, off, off + n, tail), Len(b) - n)
          ELSE At(t, cat) \o Prefix(b, off) \o SubSeq(b, off + n + 1, off + n + tail)))

\* The source must have characters from coff on: with none, the target is left
\* as it is, copied to or not.
aux_erase_u(t, x, same, cat, coff, n) ==
  LET b    == x.bytes
      head == CountToSize(b, 0, coff).size
      cut  == CountToSize(b, head, n)
      tail == Len(b) - cut.size - head
      out  == IF same
                THEN Prefix(MemMove(b, head, head + cut.size, tail), Len(b) - cut.size)
                ELSE At(t, cat) \o Prefix(b, head) \o Suffix(b, head + cut.size)
      before == IF same THEN 0 ELSE t.usize
  IN  IF t.usize > cut.count
        THEN Counted(Sized(t, out), before + t.usize - cut.count)
        ELSE Uncached(Sized(t, out))

Fill(n) == [i \in 1 .. n |-> Space]

aux_resize(t, x, same, cat, n) ==
  LET b == x.bytes
  IN  Uncached(Sized(t,
        IF same THEN IF Len(b) < n THEN b \o Fill(n - Len(b)) ELSE Prefix(b, n)
        ELSE At(t, cat) \o IF Len(b) < n THEN b \o Fill(n - Len(b)) ELSE Prefix(b, n)))

\* ss_len_u: the count, which is cached from then on.
ss_len_u(x) ==
  IF x.cached THEN x ELSE [x EXCEPT !.cached = TRUE, !.usize = CountChars(x.bytes)]

aux_resize_u(t, x, same, cat, n) ==
  LET b    == x.bytes
      have == ss_len_u(x).usize
      from == IF same THEN ss_len_u(t) ELSE IF cat THEN t ELSE Cleared
      kept == Prefix(b, CountToSize(b, 0, n).size)
      part == IF same THEN Sized(from, kept)
              ELSE Counted(Sized(from, from.bytes \o kept), from.usize + Min2(n, have))
  IN  IF n = have THEN IF same THEN from ELSE t
      ELSE IF have < n THEN ss_cat_cn_raw(part, Fill(n - have), 0)
      ELSE IF same THEN Counted(part, n) ELSE part

\* The count after trimming, if it can be had for free.
Trimmed(t, x, cat, b, spaces) ==
  IF t.cached /\ x.cached
    THEN Counted(Sized(t, b), (IF cat THEN t.usize ELSE 0) + x.usize - spaces)
    ELSE Uncached(Sized(t, b))

\* Spaces before and after: the loops stop at the first other byte, or the end.
Before(b) == LET stops == {i \in 0 .. Len(b) : i = Len(b) \/ b[i + 1] # Space}
             IN  CHOOSE i \in stops : \A j \in stops : i <= j
After(b) == LET stops == {i \in 0 .. Len(b) : i = 0 \/ b[i] # Space}
            IN  Len(b) - CHOOSE i \in stops : \A j \in stops : j <= i

\* A mutant of aux_ltrim: the size is cut and the bytes are not moved.
aux_ltrimUnmoved(t, x, same, cat) ==
  LET b == x.bytes
      i == Before(b)
  IN  IF b = << >> THEN IF cat THEN t ELSE Cleared
      ELSE Trimmed(t, x, cat, IF same THEN Prefix(b, Len(b) - i)
                              ELSE At(t, cat) \o Suffix(b, i), i)

aux_ltrim(t, x, same, cat) ==
  LET b == x.bytes
      i == Before(b)
      moved == IF i > 0 THEN MemMove(b, 0, i, Len(b) - i) ELSE b
  IN  IF b = << >> THEN IF cat THEN t ELSE Cleared
      ELSE Trimmed(t, x, cat, IF same THEN Prefix(moved, Len(b) - i)
                              ELSE At(t, cat) \o Suffix(b, i), i)

aux_rtrim(t, x, same, cat) ==
  LET b == x.bytes
      kept == Prefix(b, Len(b) - After(b))
  IN  IF b = << >> THEN IF cat THEN t ELSE Cleared
      ELSE Trimmed(t, x, cat, IF same THEN kept ELSE At(t, cat) \o kept, After(b))

\* A mutant of ss_popchar: the last byte is taken for the last character.
ss_popcharByte(t) ==
  IF t.bytes = << >> THEN t
  ELSE Counted(Sized(t, Prefix(t.bytes, Len(t.bytes) - 1)), t.usize - 1)

\* ss_popchar: back to the last byte a character may start with.
ss_popchar(t) ==
  LET starts == {i \in 1 .. Len(t.bytes) : t.bytes[i] \notin Tails}
      last   == CHOOSE i \in starts : \A j \in starts : j <= i
  IN  IF starts = {} THEN t
      ELSE Counted(Sized(t, Prefix(t.bytes, last - 1)),
                   IF t.usize >= 1 THEN t.usize - 1 ELSE 0)

----------------------------------------------------------------------------
(* Calls.                                                                  *)

Becomes(s, r) == Len(r.bytes) <= MaxLen /\ str' = [str EXCEPT ![s] = r]

\* The memory for the result may not be had; then the target is as `failed'.
Grows(s, r, failed) ==
  \/ Becomes(s, r)
  \/ Len(r.bytes) > Len(str[s].bytes) /\ str' = [str EXCEPT ![s] = failed]

\* Offsets between characters, and lengths that end there or past the end.
Offsets(b) == {i \in 0 .. Len(b) : i = Len(b) \/ b[i + 1] \notin Tails}
Lengths(b, off) == {n \in 0 .. MaxLen : off + n > Len(b) \/ off + n \in Offsets(b)}

\* One more source for ss_cat: the target itself has the size and the count it
\* had when the call began.
Also(s, r, x) ==
  IF x = s THEN ss_cat_cn_raw(r, Prefix(r.bytes, Len(str[s].bytes)), str[s].usize)
  ELSE ss_cat_cn_raw(r, str[x].bytes, str[x].usize)

ss_cat(s, x) == Grows(s, Also(s, str[s], x), str[s])
ss_cat2(s, x, y) ==
  Grows(s, IF str[x].bytes = << >> THEN str[s]
           ELSE Also(s, Also(s, str[s], x), y), str[s])

ss_cpy(s, x) ==
  IF s = x THEN UNCHANGED str ELSE Grows(s, Also(s, Cleared, x), Cleared)

\* ss_cat_cn, ss_cat_c, ss_cat_char: bytes of the client.
ss_cat_cn(s, b) == Grows(s, ss_cat_cn_raw(str[s], b, 0), str[s])

\* ss_cat_wn: a wide character.
ss_cat_wn(s, c) ==
  Grows(s, Counted(Sized(str[s], str[s].bytes \o c), str[s].usize + 1), str[s])

ss_clear(s) == Becomes(s, Cleared)

InPlace(s) ==
  LET t == str[s]
  IN  \/ \E off \in Offsets(t.bytes) : \E n \in Lengths(t.bytes, off) :
           \/ Becomes(s, SubstrInPlace(t, off, n))
           \/ Becomes(s, aux_erase(t, t, TRUE, FALSE, off, n))
      \/ \E coff \in 0 .. MaxLen, n \in 0 .. MaxLen :
           \/ Becomes(s, SubstrUInPlace(t, coff, n))
           \/ coff < CountChars(t.bytes) /\ Becomes(s, aux_erase_u(t, t, TRUE, FALSE, coff, n))
      \/ \E n \in Lengths(t.bytes, 0) : Grows(s, aux_resize(t, t, TRUE, FALSE, n), t)
      \/ \E n \in 0 .. MaxLen : Grows(s, aux_resize_u(t, t, TRUE, FALSE, n), ss_len_u(t))
      \/ Becomes(s, aux_ltrim(t, t, TRUE, FALSE))
      \/ Becomes(s, aux_rtrim(t, t, TRUE, FALSE))
      \/ LET r == aux_rtrim(t, t, TRUE, FALSE) IN Becomes(s, aux_ltrim(r, r, TRUE, FALSE))
      \/ Becomes(s, ss_popchar(t))
      \/ Becomes(s, ss_len_u(t))

\* From another string, to the end of s or in its place.
Into(s, x) ==
  LET t == str[s]
      o == str[x]
  IN  \E cat \in BOOLEAN :
        LET from == IF cat THEN t ELSE Cleared
        IN  \/ \E off \in Offsets(o.bytes) : \E n \in Lengths(o.bytes, off) :
                 \/ Grows(s, ss_cat_substr(from, o, off, n), from)
                 \/ Grows(s, aux_erase(t, o, FALSE, cat, off, n), t)
            \/ \E coff \in 0 .. MaxLen, n \in 0 .. MaxLen :
                 \/ Grows(s, ss_cat_substr_u(from, o, coff, n), from)
                 \/ /\ ~t.cached /\ coff < CountChars(o.bytes)
                    /\ Becomes(s, aux_erase_u(t, o, FALSE, cat, coff, n))
            \/ \E n \in Lengths(o.bytes, 0) : Grows(s, aux_resize(t, o, FALSE, cat, n), t)
            \/ Grows(s, aux_ltrim(t, o, FALSE, cat), t)
            \/ Grows(s, aux_rtrim(t, o, FALSE, cat), t)
            \/ LET r == aux_ltrim(t, o, FALSE, cat)
               IN  /\ Len(r.bytes) <= MaxLen
                   /\ Grows(s, aux_rtrim(r, r, TRUE, FALSE), aux_rtrim(t, t, TRUE, FALSE))

\* aux_resize_u caches the count of its source, too.
ResizeUInto(s, x) ==
  \E cat \in BOOLEAN, n \in 0 .. MaxLen :
    LET r == aux_resize_u(str[s], str[x], FALSE, cat, n)
    IN  \/ Len(r.bytes) <= MaxLen /\ str' = [str EXCEPT ![s] = r, ![x] = ss_len_u(@)]
        \/ Len(r.bytes) > Len(str[s].bytes) /\ str' = [str EXCEPT ![x] = ss_len_u(@)]

----------------------------------------------------------------------------

Init == str = [s \in Var |-> Cleared]

\* ss_cat and ss_cpy pass on the count a source has left behind its flag: the
\* client asks for ss_len_u first.
Known(x) == str[x].cached \/ str[x].usize = 0

Next ==
  \/ \E s \in Var, c \in Char : ss_cat_cn(s, c) \/ ss_cat_wn(s, c)
  \/ \E s \in Var : ss_clear(s) \/ InPlace(s)
  \/ \E s, x \in Var : Known(x) /\ (ss_cat(s, x) \/ ss_cpy(s, x))
  \/ \E s, x, y \in Var : Known(x) /\ Known(y) /\ ss_cat2(s, x, y)
  \/ \E s \in Var : \E x \in Var \ {s} : Into(s, x) \/ ResizeUInto(s, x)

Spec == Init /\ [][Next]_str

----------------------------------------------------------------------------
(* Properties.                                                             *)

\* The cached number of characters is that of the bytes, after any sequence of
\* calls that change one without looking at the other.
CacheExact ==
  \A s \in Var : str[s].cached => str[s].usize = CountChars(str[s].bytes)

\* `here' was left in place of the source, `there' of another string, and `end'
\* has at its end what t did not have.
Agree(t, here, there, end) ==
  here.bytes = there.bytes /\ end.bytes = t.bytes \o there.bytes

\* What the calls do to o, and with o to t.
AgreeOn(t, o) ==
  /\ \A off \in Offsets(o.bytes) : \A n \in Lengths(o.bytes, off) :
       /\ Agree(t, SubstrInPlace(o, off, n), ss_cat_substr(Cleared, o, off, n),
                ss_cat_substr(t, o, off, n))
       /\ Agree(t, aux_erase(o, o, TRUE, FALSE, off, n), aux_erase(t, o, FALSE, FALSE, off, n),
                aux_erase(t, o, FALSE, TRUE, off, n))
  /\ \A coff, n \in 0 .. MaxLen :
       /\ Agree(t, SubstrUInPlace(o, coff, n), ss_cat_substr_u(Cleared, o, coff, n),
                ss_cat_substr_u(t, o, coff, n))
       /\ coff < CountChars(o.bytes) =>
            Agree(t, aux_erase_u(o, o, TRUE, FALSE, coff, n),
                  aux_erase_u(t, o, FALSE, FALSE, coff, n),
                  aux_erase_u(t, o, FALSE, TRUE, coff, n))
  /\ \A n \in Lengths(o.bytes, 0) :
       Agree(t, aux_resize(o, o, TRUE, FALSE, n), aux_resize(t, o, FALSE, FALSE, n),
             aux_resize(t, o, FALSE, TRUE, n))
  /\ \A n \in (0 .. MaxLen) \ {CountChars(o.bytes)} :
       Agree(t, aux_resize_u(o, o, TRUE, FALSE, n), aux_resize_u(t, o, FALSE, FALSE, n),
             aux_resize_u(t, o, FALSE, TRUE, n))
  /\ Agree(t, aux_ltrim(o, o, TRUE, FALSE), aux_ltrim(t, o, FALSE, FALSE),
           aux_ltrim(t, o, FALSE, TRUE))
  /\ Agree(t, aux_rtrim(o, o, TRUE, FALSE), aux_rtrim(t, o, FALSE, FALSE),
           aux_rtrim(t, o, FALSE, TRUE))

\* A call has the same effect in place and into another string, though the one
\* moves bytes over themselves; and appends what it would have copied.
InPlaceAgrees == \A s, x \in Var : AgreeOn(str[s], str[x])
=============================================================================
