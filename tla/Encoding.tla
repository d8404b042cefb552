------------------------------ MODULE Encoding ------------------------------
(***************************************************************************)
(* The text encodings (saux/senc.c) and the call of sstring.c that applies *)
(* them: hexadecimal, base64, and the escapes of XML, JSON, URLs and       *)
(* quotes.  Encoders write from the end of the buffer backwards, because   *)
(* what they write is longer than what they read, and decoders forwards:   *)
(* either may have one buffer for both.                                    *)
(*                                                                         *)
(* Bytes are numbers.  A codec takes blocks of bytes, of three in base64   *)
(* and of one elsewhere; the last block may be shorter.                    *)
(***************************************************************************)
EXTENDS SString, SequencesExt

CONSTANTS
  Alphabet,   \* the bytes the client has, for each codec
  MaxIn,      \* bound: how many of them, for each codec
  Past        \* bytes that may be in a buffer after the string

VARIABLES codec, input

Codec == {"hex", "b64", "xml", "json", "url", "quote"}

----------------------------------------------------------------------------
(* The alphabets.                                                          *)

\* n2h_l, and n2h_u for URLs.
n2h(upper, n) == IF n < 10 THEN 48 + n ELSE (IF upper THEN 55 ELSE 87) + n

\* h2n: what is no digit counts as 0.
hex2nibble(h) ==
  LET k == (h - 48) % 64
  IN  IF k <= 9 THEN k ELSE IF k \in 17 .. 22 THEN k - 7
      ELSE IF k \in 49 .. 54 THEN k - 39 ELSE 0

b64e(n) == IF n < 26 THEN 65 + n ELSE IF n < 52 THEN 71 + n
           ELSE IF n < 62 THEN n - 4 ELSE IF n = 62 THEN 43 ELSE 47
b64d(c) == IF \E n \in 0 .. 63 : b64e(n) = c THEN CHOOSE n \in 0 .. 63 : b64e(n) = c ELSE 0

Equals == 61
Quote  == 34

\* The escapes: &quot; &amp; &apos; &lt; &gt; and \b \t \n \f \r \" \\ \/ .
Escapes(c) ==
  CASE c = "xml"  -> [x \in {34, 38, 39, 60, 62} |->
                        CASE x = 34 -> <<38, 113, 117, 111, 116, 59>>
                          [] x = 38 -> <<38, 97, 109, 112, 59>>
                          [] x = 39 -> <<38, 97, 112, 111, 115, 59>>
                          [] x = 60 -> <<38, 108, 116, 59>>
                          [] x = 62 -> <<38, 103, 116, 59>>]
    [] c = "json" -> [x \in {8, 9, 10, 12, 13, 34, 92, 47} |->
                        <<92, CASE x = 8 -> 98 [] x = 9 -> 116 [] x = 10 -> 110
                                [] x = 12 -> 102 [] x = 13 -> 114 [] OTHER -> x>>]

Escaped(c) == IF c = "json" THEN DOMAIN Escapes(c) \ {47} ELSE DOMAIN Escapes(c)

Unreserved == (48 .. 57) \cup (65 .. 90) \cup (97 .. 122) \cup {45, 95, 46, 126}

----------------------------------------------------------------------------
(* Encoding.                                                               *)

Block(c) == IF c = "b64" THEN 3 ELSE 1

\* EB64C1 to EB64C4, with what is missing as 0 and its digits as '='.
Base64(s) ==
  LET at(k) == IF k <= Len(s) THEN s[k] ELSE 0
      digit(k) == CASE k = 1 -> at(1) \div 4
                    [] k = 2 -> (at(1) % 4) * 16 + at(2) \div 16
                    [] k = 3 -> (at(2) % 16) * 4 + at(3) \div 64
                    [] k = 4 -> at(3) % 64
  IN  [k \in 1 .. 4 |-> IF k <= Len(s) + 1 THEN b64e(digit(k)) ELSE Equals]

\* What a block becomes.
Coded(c, s) ==
  LET x == s[1]
  IN  CASE c = "b64"   -> Base64(s)
        [] c = "hex"   -> <<n2h(FALSE, x \div 16), n2h(FALSE, x % 16)>>
        [] c = "url"   -> IF x \in Unreserved THEN s
                          ELSE <<37, n2h(TRUE, x \div 16), n2h(TRUE, x % 16)>>
        [] c = "quote" -> IF x = Quote THEN <<x, x>> ELSE s
        [] OTHER       -> IF x \in Escaped(c) THEN Escapes(c)[x] ELSE s

\* The blocks of b, and the encoder's answer when it has no buffer: the size.
Blocks(c, b) ==
  [k \in 1 .. (Len(b) + Block(c) - 1) \div Block(c) |->
     SubSeq(b, (k - 1) * Block(c) + 1, Min2(k * Block(c), Len(b)))]
ReqSize(c, b) == FoldLeft(LAMBDA n, s : n + Len(Coded(c, s)), 0, Blocks(c, b))

\* memcpy of s to offset j.
Store(buf, j, s) == [k \in DOMAIN buf |-> IF k \in j + 1 .. j + Len(s) THEN s[k - j] ELSE buf[k]]

\* A mutant of EncodeBack: the short block is the first one.
RECURSIVE EncodeBackWhole(_, _, _, _)
EncodeBackWhole(c, buf, i, j) ==
  IF i = 0 THEN buf
  ELSE LET n == Block(c)
           first == IF i < n THEN 0 ELSE i - n
           s == Coded(c, SubSeq(buf, first + 1, i))
       IN  EncodeBackWhole(c, Store(buf, j - Len(s), s), first, j - Len(s))

\* From the end backwards: i bytes are left to read, j to write.
RECURSIVE EncodeBack(_, _, _, _)
EncodeBack(c, buf, i, j) ==
  IF i = 0 THEN buf
  ELSE LET n == Block(c)
           first == IF i % n = 0 THEN i - n ELSE i - (i % n)
           s == Coded(c, SubSeq(buf, first + 1, i))
       IN  EncodeBack(c, Store(buf, j - Len(s), s), first, j - Len(s))

\* In place, in a buffer that has grown, and into another one.
EncodeInPlace(c, b) ==
  LET size == ReqSize(c, b)
  IN  EncodeBack(c, [k \in 1 .. size |-> IF k <= Len(b) THEN b[k] ELSE 0], Len(b), size)
Encode(c, b) == FlattenSeq([k \in DOMAIN Blocks(c, b) |-> Coded(c, Blocks(c, b)[k])])

----------------------------------------------------------------------------
(* Decoding.                                                               *)

\* The escape that is at i (from 0) in buf, of which size bytes are the string:
\* its last byte may be the one after them.
EscapedAt(c, buf, size, i) ==
  {x \in DOMAIN Escapes(c) :
     LET e == Escapes(c)[x]
     IN  i + Len(e) - 1 <= size /\ SubSeq(buf, i + 1, i + Len(e)) = e}

\* What is at i, and how many bytes it takes.
Decoded(c, buf, size, i) ==
  LET at(k) == buf[i + k + 1]
      plain == [out |-> <<at(0)>>, used |-> 1]
  IN  CASE c = "hex" -> IF i + 2 > size THEN [out |-> << >>, used |-> 1]
                        ELSE [out |-> <<hex2nibble(at(0)) * 16 + hex2nibble(at(1))>>, used |-> 2]
        [] c = "b64" ->
             LET v(k) == b64d(at(k))
                 last == i + 4 = size
                 three == <<(v(0) * 4 + v(1) \div 16) % 256,
                            (v(1) * 16 + v(2) \div 4) % 256, (v(2) * 64 + v(3)) % 256>>
             IN  [out |-> IF last /\ at(2) = Equals THEN Prefix(three, 1)
                          ELSE IF last /\ at(3) = Equals THEN Prefix(three, 2) ELSE three,
                  used |-> 4]
        [] c = "url" -> IF at(0) = 37 /\ i + 3 <= size
                          THEN [out |-> <<hex2nibble(at(1)) * 16 + hex2nibble(at(2))>>, used |-> 3]
                          ELSE plain
        [] c = "quote" -> IF i + 1 < size /\ at(0) = Quote /\ at(1) = Quote
                            THEN [plain EXCEPT !.used = 2] ELSE plain
        [] OTHER -> LET found == EscapedAt(c, buf, size, i)
                    IN  IF found = {} THEN plain
                        ELSE LET x == CHOOSE y \in found : TRUE
                             IN  [out |-> <<x>>, used |-> Len(Escapes(c)[x])]

\* In place: i bytes have been read, j written.
RECURSIVE DecodeOn(_, _, _, _, _)
DecodeOn(c, buf, size, i, j) ==
  IF i >= size THEN Prefix(buf, j)
  ELSE LET d == Decoded(c, buf, size, i)
       IN  DecodeOn(c, Store(buf, j, d.out), size, i + d.used, j + Len(d.out))
DecodeInPlace(c, b, past) == DecodeOn(c, Append(b, past), Len(b), 0, 0)

\* Into another buffer.
RECURSIVE DecodeFrom(_, _, _, _)
DecodeFrom(c, buf, size, i) ==
  IF i >= size THEN << >>
  ELSE LET d == Decoded(c, buf, size, i) IN d.out \o DecodeFrom(c, buf, size, i + d.used)
Decode(c, b, past) == DecodeFrom(c, Append(b, past), Len(b), 0)

----------------------------------------------------------------------------
(* ss_enc_b64, ss_cpy_enc_b64, ss_cat_enc_b64 and the like: nothing happens *)
(* when there is nothing to encode.                                        *)

aux_toenc(t, x, same, cat, c) ==
  LET out == IF same /\ ~cat THEN EncodeInPlace(c, x.bytes) ELSE Encode(c, x.bytes)
  IN  IF ReqSize(c, x.bytes) = 0 THEN t ELSE Uncached(Sized(t, At(t, cat) \o out))

\* A client that encodes and decodes what it has, one more byte at a time.
EncodingInit == codec \in Codec /\ input = << >>

Type ==
  /\ Len(input) < MaxIn[codec]
  /\ \E x \in Alphabet[codec] : input' = Append(input, x)
  /\ UNCHANGED codec

\* The string ends within an escape that the next byte would complete.
CutShort(c, b) ==
  /\ c \in {"xml", "json"}
  /\ \E x \in DOMAIN Escapes(c) :
       LET n == Len(Escapes(c)[x]) - 1
       IN  n <= Len(b) /\ Suffix(b, Len(b) - n) = Prefix(Escapes(c)[x], n)

\* Encoding in place writes nothing that is still to be read, fills the size
\* that was announced, and appends what it would have put in place; decoding
\* undoes it, whatever is in the buffer after the string; decoding anything
\* (base64: four of the first 128 bytes at a time) in place is decoding it
\* elsewhere, and reads no byte after the string unless that completes an
\* escape.
CodesExact ==
  LET b == input
      t == [Cleared EXCEPT !.bytes = <<0>>]
      x == [Cleared EXCEPT !.bytes = b]
      enc == Encode(codec, b)
  IN  /\ aux_toenc(x, x, TRUE, FALSE, codec).bytes = enc
      /\ aux_toenc(t, x, FALSE, TRUE, codec).bytes = <<0>> \o enc
      /\ \A p \in Past :
           /\ Decode(codec, enc, p) = b
           /\ DecodeInPlace(codec, enc, p) = b
           /\ (codec = "b64" => Len(b) % 4 = 0 /\ \A k \in DOMAIN b : b[k] < 128) =>
              /\ DecodeInPlace(codec, b, p) = Decode(codec, b, p)
              /\ CutShort(codec, b) \/ Decode(codec, b, p) = Decode(codec, b, 0)
=============================================================================
