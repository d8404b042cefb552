------------------------------ MODULE MCStrMap -----------------------------
(***************************************************************************)
(* TLC instances of StrMap, with the sizes of the code (64-bit).           *)
(*   MCStrMapOps    what the code gets right, on trees and hash maps of one*)
(*                  and of two strings                                     *)
(*   MCStrMapLeak   the strings of an element that is set again, or deleted*)
(*   MCStrMapLoss   a key and a value that do not fit together             *)
(***************************************************************************)
EXTENDS StrMap

Str(i, n) == [id |-> i, len |-> n]
Empty     == Str(0, 0)

\* Of each length: within an element with another string, alone, and on the heap.
Keys   == {Str(1, 10), Str(2, 30), Str(3, 50)}
Values == {Empty, Str(4, 12), Str(5, 60)}

AllPairs  == Keys \X Values
SomePairs == {<<Str(1, 10), Str(4, 12)>>, <<Str(1, 10), Str(5, 60)>>,
              <<Str(3, 50), Str(4, 12)>>, <<Str(3, 50), Str(5, 60)>>}
TightPairs == {<<Str(1, 10), Str(4, 12)>>, <<Str(1, 10), Str(7, 26)>>}

AllTypes == [hash : BOOLEAN, two : BOOLEAN]
Trees    == [hash : {FALSE}, two : {TRUE}]
=============================================================================
