------------------------------ MODULE Rewriting ------------------------------
(***************************************************************************)
(* Case conversion and replacement (sstring.c): the calls on strings that  *)
(* read one buffer and write another at its own pace, and may be given one *)
(* buffer for both.                                                        *)
(*                                                                         *)
(* The letters are those of the Turkish mode, where upper and lower case   *)
(* differ in size: I and i take a byte, and dotless i and dotted I two.    *)
(* The strings are short, so that ss_find finds the first match (Search).  *)
(***************************************************************************)
EXTENDS SString

CONSTANT Pattern   \* the strings the client replaces, or replaces by

Dotless == <<Lead, "c">>
Dotted  == <<Lead, "d">>
Letter  == {<<"I">>, <<"i">>, Dotless, Dotted}

sc_tolower_tr == [c \in Letter |-> IF c = <<"I">> THEN Dotless ELSE IF c = Dotted THEN <<"i">> ELSE c]
sc_toupper_tr == [c \in Letter |-> IF c = <<"i">> THEN Dotted ELSE IF c = Dotless THEN <<"I">> ELSE c]

----------------------------------------------------------------------------
(* Case conversion.                                                        *)

\* sc_utf8_to_wc, as the bytes of the character at i (from 0) in b; a byte that
\* starts none is one.
LetterAt(b, i) ==
  IF CharSize(b, i + 1) = 2 /\ SubSeq(b, i + 1, i + 2) \in Letter
    THEN SubSeq(b, i + 1, i + 2) ELSE <<b[i + 1]>>

\* towX, and what is no letter stays as it is.
Cased(towX, c) == IF c \in Letter THEN towX[c] ELSE c

\* memcpy of c to `po' in b.
Put(b, po, c) ==
  [i \in 1 .. (IF po + Len(c) > Len(b) THEN po + Len(c) ELSE Len(b)) |->
     IF i \in po + 1 .. po + Len(c) THEN c[i - po] ELSE b[i]]

\* A mutant of CaseInPlace: it reads on where it writes on.
RECURSIVE CaseInPlaceLockstep(_, _, _, _, _)
CaseInPlaceLockstep(b, size, i, po, towX) ==
  IF i >= size THEN b
  ELSE LET d == Cased(towX, LetterAt(b, i))
       IN  CaseInPlaceLockstep(Put(b, po, d), size, i + Len(d), po + Len(d), towX)

\* The loop, reading b from i and writing it from po.
RECURSIVE CaseInPlace(_, _, _, _, _)
CaseInPlace(b, size, i, po, towX) ==
  IF i >= size THEN b
  ELSE LET c == LetterAt(b, i)
           d == Cased(towX, c)
       IN  CaseInPlace(Put(b, po, d), size, i + Len(c), po + Len(d), towX)

\* The loop, writing somewhere else.
RECURSIVE CaseOf(_, _)
CaseOf(b, towX) ==
  IF b = << >> THEN << >>
  ELSE LET c == LetterAt(b, 0) IN Cased(towX, c) \o CaseOf(Suffix(b, Len(c)), towX)

\* sc_utf8_calc_case_extra_size.
CaseExtra(b, towX) == Len(CaseOf(b, towX)) - Len(b)

\* The result with the number of characters, if it can be had for free.
Recased(t, x, cat, b) ==
  IF x.cached /\ (cat => t.cached)
    THEN [bytes |-> b, cached |-> TRUE, usize |-> x.usize + IF cat THEN t.usize ELSE 0]
    ELSE Uncached(Sized(t, b))

\* In place unless the string grows: then into a new one.
aux_toXcase(t, x, same, cat, towX) ==
  Recased(t, x, cat,
    IF same /\ ~cat /\ CaseExtra(x.bytes, towX) <= 0
      THEN Prefix(CaseInPlace(x.bytes, Len(x.bytes), 0, 0, towX),
                  Len(x.bytes) + CaseExtra(x.bytes, towX))
      ELSE At(t, cat) \o CaseOf(x.bytes, towX))

\* Some beginning of the string grows, although all of it does not: in place,
\* characters are then read after their bytes have been written.
Overtakes(b, towX) ==
  /\ CaseExtra(b, towX) <= 0
  /\ \E i \in 0 .. Len(b) : CaseExtra(Prefix(b, i), towX) > 0

----------------------------------------------------------------------------
(* Replacement.                                                            *)

NPOS == -1

\* ss_find: the first match from i on.
FindFrom(b, i, p) ==
  LET all == {k \in i .. Len(b) - Len(p) : SubSeq(b, k + 1, k + Len(p)) = p}
  IN  IF p = << >> \/ all = {} THEN NPOS ELSE CHOOSE k \in all : \A m \in all : k <= m

\* How many matches a scan from i finds.
RECURSIVE Found(_, _, _)
Found(b, i, p) ==
  LET k == FindFrom(b, i, p) IN IF k = NPOS THEN 0 ELSE 1 + Found(b, k + Len(p), p)

\* The loop, writing somewhere else: from i on, k being the next match.
RECURSIVE ReplacedFrom(_, _, _, _, _)
ReplacedFrom(b, i, k, p, q) ==
  IF k = NPOS THEN Suffix(b, i)
  ELSE SubSeq(b, i + 1, k) \o q
         \o ReplacedFrom(b, k + Len(p), FindFrom(b, k + Len(p), p), p, q)

\* The loop in place, writing from o on; what stays is cut off at the end.
RECURSIVE ReplaceInPlace(_, _, _, _, _, _)
ReplaceInPlace(b, i, o, k, p, q) ==
  IF k = NPOS THEN Prefix(MemMove(b, o, i, Len(b) - i), o + Len(b) - i)
  ELSE LET moved == MemMove(b, o, i, k - i)
           next  == k + Len(p)
           done  == Put(moved, o + k - i, q)
       IN  ReplaceInPlace(done, next, o + k - i + Len(q), FindFrom(done, next, p), p, q)

\* The first match, searched for from i + off on.  i is off, but when matches have
\* been counted it is what ended the count, S_NPOS: the search then starts from
\* the byte before off, which for 0 is the last of the header and no character.
FirstMatch(b, off, p, q) ==
  FindFrom(b, IF Len(q) < Len(p) THEN off + off ELSE IF off = 0 THEN 0 ELSE off - 1, p)

\* With nothing to replace, and not shrinking, the target stays as it is, copied
\* to or not.  A string that shrinks is rewritten in place even when it was to be
\* appended to itself.
aux_replace(t, x, same, cat, off, p, q) ==
  LET b == x.bytes
      first == FirstMatch(b, off, p, q)
      out == Prefix(b, off) \o ReplacedFrom(b, off, first, p, q)
  IN  IF Len(q) >= Len(p)
        THEN IF Found(b, off, p) = 0 THEN t ELSE Uncached(Sized(t, At(t, cat) \o out))
      ELSE IF same THEN Uncached(Sized(t, ReplaceInPlace(b, off, off, first, p, q)))
      ELSE Uncached(Sized(t, At(t, cat) \o out))

\* The match starts before off: the length of what is copied before it wraps.
StartsEarly(b, off, p, q) ==
  /\ Len(q) >= Len(p) /\ Found(b, off, p) > 0
  /\ FirstMatch(b, off, p, q) \in 0 .. off - 1

----------------------------------------------------------------------------
(* Calls.                                                                  *)

Cases == {sc_tolower_tr, sc_toupper_tr}

\* ss_tolower, ss_cpy_tolower, ss_cat_tolower and the like.
Recase(s, x) ==
  \E cat \in BOOLEAN, towX \in Cases :
    /\ s = x /\ ~cat => ~Overtakes(str[x].bytes, towX)
    /\ Grows(s, aux_toXcase(str[s], str[x], s = x, cat, towX), str[s])

\* ss_replace, ss_cpy_replace, ss_cat_replace.
Replace(s, x) ==
  \E cat \in BOOLEAN, off \in Offsets(str[x].bytes), p, q \in Pattern :
    /\ ~StartsEarly(str[x].bytes, off, p, q)
    /\ Grows(s, aux_replace(str[s], str[x], s = x, cat, off, p, q), str[s])

RewritingNext ==
  \/ \E s \in Var, c \in Letter : ss_cat_cn(s, c)
  \/ \E s \in Var : ss_clear(s) \/ Becomes(s, ss_len_u(str[s]))
  \/ \E s, x \in Var : Recase(s, x) \/ Replace(s, x)

----------------------------------------------------------------------------
(* Properties.                                                             *)

\* What replacing means: from the left, and never in what was put in.
RECURSIVE Replaced(_, _, _)
Replaced(b, p, q) ==
  IF Len(b) < Len(p) \/ p = << >> THEN b
  ELSE IF Prefix(b, Len(p)) = p THEN q \o Replaced(Suffix(b, Len(p)), p, q)
  ELSE <<b[1]>> \o Replaced(Suffix(b, 1), p, q)

\* Case conversion and replacement do the same in place, where they write over
\* what they have yet to read, as into another string; and replacement does what
\* it means, in place or not, from any offset on: when what is put in is not
\* shorter, unless a match starts right before the offset; when it is, unless one
\* starts before twice the offset.
RewritesExact ==
  \A x \in Var :
    LET o == str[x]
        b == o.bytes
    IN  /\ \A towX \in Cases : ~Overtakes(b, towX) =>
             aux_toXcase(o, o, TRUE, FALSE, towX).bytes = CaseOf(b, towX)
        /\ \A off \in Offsets(b), p, q \in Pattern :
             LET k == FindFrom(b, off, p)
                 meant == Prefix(b, off) \o Replaced(Suffix(b, off), p, q)
                 sound == IF Len(q) < Len(p) THEN k = NPOS \/ k >= off + off
                                             ELSE ~StartsEarly(b, off, p, q)
             IN  sound =>
                   /\ aux_replace(o, o, TRUE, FALSE, off, p, q).bytes = meant
                   /\ k # NPOS \/ Len(q) < Len(p) =>
                        \A s \in Var : aux_replace(str[s], o, FALSE, TRUE, off, p, q).bytes
                                         = str[s].bytes \o meant
=============================================================================
