------------------------------ MODULE MCSString ------------------------------
(***************************************************************************)
(* TLC instance of the string modules, each of them a subject of its own.  *)
(*   MCSStringOps    every call on two strings of a few bytes; case and    *)
(*                   replacement on strings of four and two bytes; every   *)
(*                   text of two bytes to search, and longer ones with a   *)
(*                   period of two; codes of up to seven bytes;            *)
(*                   compression of up to ten                              *)
(*   MCSStringSearch the search alone, which misses a match                *)
(***************************************************************************)
EXTENDS Encoding

CONSTANT Subjects

Patterns == {<< >>, <<"I">>, <<"i", "i">>}

Words(n) == UNION {[1 .. k -> {1, 2}] : k \in 0 .. n}
Texts == Words(8)
  \cup {<<1, 2, 1, 2, 1, 2, 1, 2>> \o w : w \in Words(7)}
  \cup {<<2, 3, 2, 3, 2, 3, 2, 3>> \o w : w \in [1 .. 4 -> {1, 2, 3}]}
Targets == {<<1>>, <<1, 1>>, <<1, 2>>, <<1, 3>>, <<1, 1, 2>>, <<1, 1, 1>>, <<1, 2, 1>>, <<1, 2, 2>>}

\* The bytes include & < l t ; and \ n / and % 4 A and a quote.
Alphabets == [c \in Codec |->
  CASE c = "hex" -> {0, 65, 171, 255} [] c = "b64" -> {61, 122, 255}
    [] c = "xml" -> {38, 60, 108, 116, 59} [] c = "json" -> {92, 110, 10, 47, 120}
    [] c = "url" -> {37, 52, 65, 32} [] c = "quote" -> {34, 120}]
InSizes == [c \in Codec |-> IF c \in {"hex", "json"} THEN 4 ELSE IF c = "quote" THEN 7 ELSE 5]

VARIABLES subject, text, target, call, ss, off, mode, s, current, coll, switched, found, refs,
          plain

Find == INSTANCE Search WITH
  Text <- Texts, Target <- Targets, MaxOff <- 1, MaxRefs <- 2, Span <- 3
Rewrite == INSTANCE Rewriting WITH Pattern <- Patterns
LZ == INSTANCE Compression WITH
  Byte <- {1, 2}, MaxSize <- 10, HashElems <- 3, FarRef <- 4, MaxChunk <- 4

ASSUME Find!SearchAssumption /\ LZ!CompressionAssumption

codes == <<codec, input>>
others == <<text, target, call, ss, off, mode, s, current, coll, switched, found, refs>>

MCInit ==
  /\ subject \in Subjects
  /\ Init
  /\ IF subject = "search" THEN Find!Init
     ELSE /\ text = << >> /\ target = <<1>> /\ call = "none" /\ ss = 0 /\ off = 0 /\ mode = "no"
          /\ s = 0 /\ current = 0 /\ coll = Find!NoCollision /\ switched = FALSE
          /\ found = Find!S_NPOS /\ refs = << >>
  /\ IF subject = "codes" THEN EncodingInit ELSE codec = "hex" /\ input = << >>
  /\ LZ!CompressionInit

MCNext ==
  /\ UNCHANGED subject
  /\ \/ subject = "strings" /\ Next /\ UNCHANGED <<others, codes, plain>>
     \/ /\ subject = "rewrite" /\ Rewrite!RewritingNext /\ Len(str'["v2"].bytes) <= 2
        /\ UNCHANGED <<others, codes, plain>>
     \/ subject = "search" /\ Find!Next /\ UNCHANGED <<str, codes, plain>>
     \/ subject = "codes" /\ Type /\ UNCHANGED <<str, others, plain>>
     \/ subject = "lz" /\ LZ!More /\ UNCHANGED <<str, others, codes>>

MCSpec == MCInit /\ [][MCNext]_<<subject, str, others, codes, plain>>
  /\ WF_<<subject, str, others, codes, plain>>(
       subject = "search" /\ Find!Step /\ UNCHANGED <<subject, str, codes, plain>>)

\* Search's properties: a search that keeps to one mode finds the first match,
\* and what is found is a match; the parts of a split make up the text; calls
\* return.
FindExact == Find!FindExact
SplitExact == Find!SplitExact
CallsReturn == Find!CallsReturn

\* ss_find finds the first target there is.
FindsFirst == Find!FindsFirst

\* Rewriting's property: the same in place as elsewhere, and what was meant.
RewritesExact == subject = "rewrite" => Rewrite!RewritesExact

\* The properties of Encoding and Compression: what is encoded or compressed
\* comes back, in place or not.
CodesReturn ==
  /\ subject = "codes" => CodesExact
  /\ subject = "lz" => LZ!RoundTrip

\* SString's property of its own calls.
CallsAgree == subject = "strings" => InPlaceAgrees
=============================================================================
