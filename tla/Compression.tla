----------------------------- MODULE Compression -----------------------------
(***************************************************************************)
(* LZ77 compression (saux/senc.c): senc_lz finds earlier occurrences of    *)
(* the next four bytes with a table of one position per hash value, and    *)
(* sdec_lz copies them, which may be over themselves.                      *)
(*                                                                         *)
(* The stream is a sequence of numbers: the packed integers of the code    *)
(* (s_st_pk_u64), each as one number, and the bytes of literals.           *)
(***************************************************************************)
EXTENDS Integers, Sequences

CONSTANTS
  Byte,       \* the bytes the client compresses
  MaxSize,    \* bound: how many
  HashElems,  \* positions in the table
  FarRef,     \* short references over more than this are not made; 500000
  MaxChunk    \* blocks are not doubled beyond; 8192

\* What the constants are.
CompressionAssumption ==
  /\ Byte \subseteq Nat /\ MaxSize \in Nat
  /\ HashElems \in Nat \ {0} /\ FarRef \in Nat /\ MaxChunk \in Nat \ {0}

VARIABLE plain

\* What a stream of operations is made of: LZOP_LITV, LZOP_REFVX, LZOP_REFVV.
senc_lz_store_lit(s) == <<(Len(s) - 1) * 4 + 3>> \o s
senc_lz_store_ref(dist, len) ==
  IF len - 4 < 4 THEN <<(dist - 1) * 8 + (len - 4) * 2>>
  ELSE <<(len - 4) * 4 + 1, dist - 1>>

----------------------------------------------------------------------------
(* senc_lz_aux.                                                            *)

Four(s, i) == SubSeq(s, i + 1, i + 4)

\* senc_lz_hash and hash_mask: any function of the four bytes would do.
senc_lz_hash(w) == (w[1] + 2 * w[2] + 3 * w[3] + w[4]) % HashElems

\* senc_lz_match: how much is the same from i and from j on.
senc_lz_match(s, i, j) ==
  LET n[k \in 0 .. Len(s) - i] ==
        IF k < Len(s) - i /\ s[i + k + 1] = s[j + k + 1] THEN n[k + 1] ELSE k
  IN  n[0]

\* Literals, if there are any, from plit up to i.
Flush(s, plit, i) ==
  IF i > plit THEN senc_lz_store_lit(SubSeq(s, plit + 1, i)) ELSE << >>

RECURSIVE Compress(_, _, _, _)
Compress(s, i, plit, refs) ==
  IF i > Len(s) - 4 THEN Flush(s, plit, Len(s))
  ELSE LET h    == senc_lz_hash(Four(s, i))
           last == refs[h]
           now  == [refs EXCEPT ![h] = i]
           len  == senc_lz_match(s, i + 4, last + 4) + 4
           dist == i - last
       IN  IF Four(s, i) # Four(s, last) \/ (dist > FarRef /\ len = 4)
             THEN Compress(s, i + 1, plit, now)
             ELSE Flush(s, plit, i) \o senc_lz_store_ref(dist, len)
                    \o Compress(s, i + len, i + len, now)

\* The header, and everything at once when it is shorter than five bytes.
senc_lz(s) ==
  IF s = << >> THEN << >>
  ELSE <<Len(s)>> \o IF Len(s) < 5 THEN senc_lz_store_lit(s)
                     ELSE Compress(s, 1, 0, [h \in 0 .. HashElems - 1 |-> 0])

----------------------------------------------------------------------------
(* sdec_lz.                                                                *)

\* The last dist bytes of o, and what has been made of them so far.
Segment(o, dist, made) == SubSeq(o, Len(o) - dist + 1, Len(o)) \o made

\* s_reccpy where the copy overlaps: blocks double in size, up to MaxChunk, as
\* long as a whole one fits; then they stay as large, and the last one is cut.
RECURSIVE Doubling(_, _, _, _, _)
Doubling(o, dist, n, made, chunk) ==
  LET from == Segment(o, dist, made)
      i    == Len(made)
  IN  IF chunk < MaxChunk /\ i + chunk < n
        THEN Doubling(o, dist, n, made \o SubSeq(from, 1, chunk), 2 * chunk)
      ELSE IF i < n - chunk
        THEN Doubling(o, dist, n, made \o SubSeq(from, 1, chunk), chunk)
      ELSE made \o SubSeq(from, 1, n - i)

\* A mutant of s_reccpy: an overlapping copy reads what is not written yet.
s_reccpyFlat(o, dist, n) ==
  o \o [k \in 1 .. n |-> IF k <= dist THEN Segment(o, dist, << >>)[k] ELSE 0]

\* s_reccpy: n bytes from dist back.
s_reccpy(o, dist, n) ==
  IF dist >= n THEN o \o SubSeq(Segment(o, dist, << >>), 1, n)
  ELSE o \o Doubling(o, dist, n, Segment(o, dist, << >>), dist)

\* The loop over the operations, which ends early when one would write more
\* than the header announced.
RECURSIVE Decompress(_, _, _)
Decompress(s, o, top) ==
  IF s = << >> THEN o
  ELSE LET op   == Head(s)
           rest == Tail(s)
       IN  IF op % 2 = 0
             THEN LET len == ((op \div 2) % 4) + 4
                  IN  IF Len(o) + len > top THEN o
                      ELSE Decompress(rest, s_reccpy(o, op \div 8 + 1, len), top)
           ELSE IF op % 4 = 3
             THEN LET len == op \div 4 + 1
                  IN  IF Len(o) + len > top THEN o
                      ELSE Decompress(SubSeq(rest, len + 1, Len(rest)), o \o SubSeq(rest, 1, len), top)
           ELSE LET len == op \div 4 + 4
                IN  IF Len(o) + len > top THEN o
                    ELSE Decompress(Tail(rest), s_reccpy(o, Head(rest) + 1, len), top)

sdec_lz(s) == IF Len(s) < 3 THEN << >> ELSE Decompress(Tail(s), << >>, Head(s))

----------------------------------------------------------------------------
(* A client that compresses what it has, one more byte at a time.          *)

CompressionInit == plain = << >>

More == Len(plain) < MaxSize /\ \E x \in Byte : plain' = Append(plain, x)

\* What is compressed comes back, whatever repeats in it: at any distance,
\* overlapping itself or not, with positions lost to others of the same hash.
RoundTrip == sdec_lz(senc_lz(plain)) = plain
=============================================================================
