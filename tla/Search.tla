------------------------------- MODULE Search --------------------------------
(***************************************************************************)
(* ss_find and ss_split (sstring.c) on the search of saux/ssearch.c: a     *)
(* sum over a window of the text is moved along by what enters and leaves  *)
(* it, and bytes are compared where it is that of the target.  When too    *)
(* many comparisons fail close together, the search changes from a sum of  *)
(* bytes to one of pairs of bytes.                                         *)
(*                                                                         *)
(* A step is one iteration of a loop; loops unrolled sixteen times compare *)
(* after each of the sixteen, too.  Offsets count from 0, as in the code.  *)
(***************************************************************************)
EXTENDS Integers, Sequences

CONSTANTS
  Text,      \* the strings the client searches
  Target,    \* the strings it looks for, none of them empty
  MaxOff,    \* bound: the largest offset it starts from
  MaxRefs,   \* bound: references it has room for
  Span       \* collisions count together within this many targets; 10

\* What the constants are.
SearchAssumption ==
  /\ Text \subseteq Seq(Nat) /\ Target \subseteq Seq(Nat) \ {<< >>}
  /\ MaxOff \in Nat /\ MaxRefs \in Nat /\ Span \in Nat

VARIABLES
  text, target,
  call,      \* the call in progress: "none", "ss_find" or "ss_split"
  ss,        \* how much of the text is searched
  off,       \* where the search started
  mode,      \* "no", "fast" (ss_find_csum_fast), "slow" (.._slow) or "done"
  s,         \* the end of the window
  current,   \* the sum over it
  coll,      \* csum_collision_off, csum_collision_count
  switched,  \* ss_find_csum_fast gave up for the slow search
  found,     \* what the search returned
  refs       \* ss_split: the offset and size of each substring so far

search == <<ss, off, mode, s, current, coll, switched, found>>
vars == <<text, target, call, search, refs>>

S_NPOS == -1
ts == Len(target)

\* memcmp of the target with the text at i.
At(i) == i + ts <= Len(text) /\ SubSeq(text, i + 1, i + ts) = target

----------------------------------------------------------------------------
(* The sums.                                                               *)

\* FCSUM_FAST and FCSUM_SLOW, of byte i of string p.
CSum(m, p, i) == IF m = "fast" THEN p[i + 1] ELSE 2 * (1 + p[i]) + p[i + 1]

\* The sum over the ts bytes of p from i on; the first one is in no sum of its
\* own.
SumAt(m, p, i) ==
  LET sum[k \in 1 .. ts] == IF k = 1 THEN 0 ELSE sum[k - 1] + CSum(m, p, i + k - 1)
  IN  sum[ts]

\* A mutant of WindowMove: the byte that leaves is the one before.
WindowMoveEarly(m) == CSum(m, text, s) - CSum(m, text, s - ts)

\* S_FWINDOW_MOVE.
WindowMove(m) == CSum(m, text, s) - CSum(m, text, s + 1 - ts)

----------------------------------------------------------------------------
(* The search.                                                             *)

Return(r) == mode' = "done" /\ found' = r

NoCollision == [off |-> 0, count |-> 0]

\* S_FIND_SET_START and S_FIND_CSUM_PIPELINE1 to 3: memchr for the first byte,
\* and the first window.  from is where a search in mode m starts, within the
\* first `size' bytes.
Starts(m, from, size) ==
  LET heads == {i \in from .. size - 1 : text[i + 1] = target[1]}
  IN  \/ heads = {} /\ Return(S_NPOS) /\ UNCHANGED <<s, current>>
      \/ \E head \in heads :
           /\ \A i \in heads : head <= i
           /\ IF size - head < ts THEN Return(S_NPOS) /\ UNCHANGED <<s, current>>
              ELSE IF At(head) THEN Return(head) /\ UNCHANGED <<s, current>>
              ELSE /\ mode' = m
                   /\ s' = head + ts
                   /\ current' = SumAt(m, text, head)
                   /\ UNCHANGED found

\* ss_findr, and ss_findr_cn.
ss_findr(from, max_off) ==
  LET size == IF max_off < Len(text) THEN max_off ELSE Len(text)
  IN  /\ ss' = size /\ off' = from
      /\ coll' = NoCollision /\ switched' = FALSE
      /\ IF size = 0 \/ from + ts > size
           THEN Return(S_NPOS) /\ UNCHANGED <<s, current>>
           ELSE Starts("fast", from, size)

\* A mutant of Resume: the search starts over, in the same mode.
ResumeOver(e) == Starts("fast", off, ss)

\* The slow search takes over where the window ends: what starts within the
\* window is not looked at again.
Resume(e) == Starts("slow", e, ss)

\* S_FCSUM_RETURN_CHECK_W_ALGORITHM_SWITCH, after a comparison failed in a
\* window with this end and this sum.
Collided(e, sum) ==
  LET first == coll.off = 0
  IN  IF ~first /\ e - coll.off <= ts * Span /\ coll.count + 1 > 2 + (ts \div 2)
        THEN switched' = TRUE /\ coll' = NoCollision /\ Resume(e)
        ELSE /\ coll' = IF first \/ e - coll.off > ts * Span
                         THEN [off |-> IF first THEN e - off ELSE e, count |-> 1]
                         ELSE [coll EXCEPT !.count = @ + 1]
             /\ s' = e /\ current' = sum
             /\ UNCHANGED <<mode, switched, found>>

\* S_FIND_CSUM_SEARCH2, S_FSEARCH.
Window ==
  /\ mode \in {"fast", "slow"} /\ s < ss
  /\ UNCHANGED <<ss, off>>
  /\ LET sum == current + WindowMove(mode)
         hit == sum = SumAt(mode, target, 0)
     IN  IF hit /\ At(s + 1 - ts)
           THEN Return(s + 1 - ts) /\ s' = s + 1 /\ current' = sum /\ UNCHANGED <<coll, switched>>
         ELSE IF hit /\ mode = "fast" THEN Collided(s + 1, sum)
         ELSE s' = s + 1 /\ current' = sum /\ UNCHANGED <<mode, coll, switched, found>>

Exhausted ==
  /\ mode \in {"fast", "slow"} /\ s >= ss
  /\ Return(S_NPOS)
  /\ UNCHANGED <<ss, off, s, current, coll, switched>>

----------------------------------------------------------------------------
(* The calls.                                                              *)

\* ss_find is ss_findr up to the end.
FindCalled ==
  /\ call = "none"
  /\ call' = "ss_find" /\ refs' = << >>
  /\ \E from \in 0 .. MaxOff, max_off \in {Len(text), Len(text) - 1} :
       max_off >= 0 /\ ss_findr(from, max_off)

\* ss_split: the first substring starts at 0.
SplitCalled ==
  /\ call = "none" /\ text # << >>
  /\ call' = "ss_split" /\ refs' = << >>
  /\ ss_findr(0, Len(text))

\* A mutant of SplitNext: the separator is taken for one byte.
SplitNextByte ==
  /\ call = "ss_split" /\ mode = "done"
  /\ LET end == IF found = S_NPOS THEN Len(text) ELSE found
     IN  IF Len(refs) < MaxRefs
           THEN /\ refs' = Append(refs, [off |-> off, size |-> end - off])
                /\ IF found = S_NPOS \/ found + 1 >= Len(text)
                     THEN call' = "none" /\ UNCHANGED search
                     ELSE call' = call /\ ss_findr(found + 1, Len(text))
           ELSE call' = "none" /\ UNCHANGED <<refs, search>>

\* The body of ss_split's loop once ss_find has answered; it may run out of
\* references.
SplitNext ==
  /\ call = "ss_split" /\ mode = "done"
  /\ LET end == IF found = S_NPOS THEN Len(text) ELSE found
     IN  IF Len(refs) < MaxRefs
           THEN /\ refs' = Append(refs, [off |-> off, size |-> end - off])
                /\ IF found = S_NPOS \/ found + ts >= Len(text)
                     THEN call' = "none" /\ UNCHANGED search
                     ELSE call' = call /\ ss_findr(found + ts, Len(text))
           ELSE call' = "none" /\ UNCHANGED <<refs, search>>

FindReturns ==
  /\ call = "ss_find" /\ mode = "done"
  /\ call' = "none"
  /\ UNCHANGED <<search, refs>>

Init ==
  /\ text \in Text /\ target \in Target
  /\ call = "none" /\ ss = 0 /\ off = 0 /\ mode = "no" /\ s = 0 /\ current = 0
  /\ coll = NoCollision /\ switched = FALSE /\ found = S_NPOS /\ refs = << >>

Step ==
  /\ UNCHANGED <<text, target>>
  /\ \/ (Window \/ Exhausted) /\ UNCHANGED <<call, refs>>
     \/ FindReturns \/ SplitNext

Call == UNCHANGED <<text, target>> /\ mode = "no" /\ (FindCalled \/ SplitCalled)

Next == Call \/ Step

Spec == Init /\ [][Next]_vars /\ WF_vars(Step)

----------------------------------------------------------------------------
(* Properties.                                                             *)

\* Where the target first is, from the start of the search on.
First ==
  LET all == {i \in off .. ss - ts : At(i)}
  IN  IF all = {} THEN S_NPOS ELSE CHOOSE i \in all : \A j \in all : i <= j

\* What is found is a target, within the part that is searched.
FoundIsTarget ==
  mode = "done" /\ found # S_NPOS => off <= found /\ found + ts <= ss /\ At(found)

\* The sum that is moved along stays the sum over the window, in either mode;
\* a search that has not changed modes has passed no target, so that it answers
\* the first there is; and what any search finds is a target.
FindExact ==
  /\ mode \in {"fast", "slow"} => current = SumAt(mode, text, s - ts)
  /\ mode \in {"fast", "slow"} /\ ~switched => \A i \in off .. s - ts : ~At(i)
  /\ mode = "done" /\ ~switched => found = First
  /\ FoundIsTarget

\* ss_split neither loses nor repeats a byte: each substring ends where a
\* separator starts, the next one starts after it, and the last one ends with
\* the text, unless there was no reference left or the text ends in a separator.
SplitExact ==
  /\ \A k \in 1 .. Len(refs) - 1 :
       /\ At(refs[k].off + refs[k].size)
       /\ refs[k + 1].off = refs[k].off + refs[k].size + ts
  /\ refs # << >> => refs[1].off = 0
  /\ call = "none" /\ refs # << >> =>
       LET last == refs[Len(refs)]
       IN  \/ last.off + last.size = Len(text)
           \/ At(last.off + last.size)
              /\ (last.off + last.size + ts = Len(text) \/ Len(refs) = MaxRefs)

\* Every call returns: the search moves on at each step, also when it starts
\* again in the other mode.
CallsReturn == call # "none" ~> call = "none"

\* ss_find finds the first target there is.
FindsFirst == mode = "done" => found = First
=============================================================================
