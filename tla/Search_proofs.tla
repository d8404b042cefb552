---------------------------- MODULE Search_proofs ----------------------------
(***************************************************************************)
(* For every text and target: what a search finds is a target, in either   *)
(* of its modes and across their change; in one mode it finds the first;   *)
(* and ss_split neither loses nor repeats a byte.                          *)
(***************************************************************************)
EXTENDS Search, SequenceTheorems, WellFoundedInduction, TLAPS

Searching == mode \in {"fast", "slow"}

TypeInv ==
  /\ text \in Seq(Nat) /\ target \in Seq(Nat) /\ target # << >>
  /\ call \in {"none", "ss_find", "ss_split"}
  /\ mode \in {"no", "fast", "slow", "done"}
  /\ ss \in Nat /\ ss <= Len(text) /\ off \in Nat /\ s \in Nat /\ found \in Int
  /\ refs \in Seq([off : Nat, size : Nat]) /\ Len(refs) <= MaxRefs

\* The window has not moved back behind the start of the search.
WindowInside == Searching => off <= s - ts

LastEnd == refs[Len(refs)].off + refs[Len(refs)].size

\* While ss_split runs, the search started where the last separator ended.
SplitOnTrack ==
  call = "ss_split" =>
    /\ mode # "no" /\ ss = Len(text) /\ off <= Len(text)
    /\ refs = << >> => off = 0
    /\ refs # << >> => At(LastEnd) /\ off = LastEnd + ts

NoRefs == call = "ss_find" \/ mode = "no" => refs = << >>

IInv ==
  /\ TypeInv /\ WindowInside /\ FoundIsTarget
  /\ SplitOnTrack /\ NoRefs /\ SplitExact

----------------------------------------------------------------------------
(* The search, wherever it is started from.                                *)

\* What a step of the search keeps.
Kept ==
  /\ mode' \in {"fast", "slow", "done"}
  /\ s' \in Nat /\ found' \in Int
  /\ mode' \in {"fast", "slow"} => off' <= s' - ts
  /\ mode' = "done" /\ found' # S_NPOS =>
       off' <= found' /\ found' + ts <= ss' /\ At(found')

\* The target has a length, and is not empty.
LEMMA TargetLength ==
  ASSUME TypeInv
  PROVE  ts \in Nat /\ ts > 0 /\ Len(text) \in Nat
BY LenProperties, EmptySeq DEF TypeInv, ts

\* What is not too short fits.
LEMMA Fits ==
  ASSUME NEW size \in Nat, NEW i \in Nat, NEW n \in Nat, ~ (size - i < n)
  PROVE  i + n <= size
OBVIOUS

\* The first window, or the answer without one.
LEMMA StartsKept ==
  ASSUME TypeInv, NEW m \in {"fast", "slow"}, NEW from \in Nat,
         Starts(m, from, ss'), ss' \in Nat, off' \in Nat, off' <= from
  PROVE  Kept
<1>1. ts \in Nat /\ s \in Nat /\ found \in Int
  BY TargetLength DEF TypeInv
<1>2. CASE Return(S_NPOS) /\ UNCHANGED <<s, current>>
  BY <1>1, <1>2 DEF Kept, Return, S_NPOS
<1>3. ASSUME NEW head \in from .. ss' - 1, ~ (ss' - head < ts),
             At(head), Return(head), UNCHANGED <<s, current>>
      PROVE  Kept
  <2>1. mode' = "done" /\ found' = head /\ s' \in Nat
    BY <1>1, <1>3 DEF Return
  <2>2. head \in Nat /\ off' <= head /\ head + ts <= ss'
    <3>1. head \in Nat /\ off' <= head /\ ss' \in Nat
      OBVIOUS
    <3>2. ~ (ss' - head < ts)
      BY <1>3
    <3>. QED
      BY <1>1, <3>1, <3>2, Fits
  <2>3. At(found')
    BY <1>3, <2>1 DEF At
  <2>. QED
    BY <2>1, <2>2, <2>3 DEF Kept
<1>4. ASSUME NEW head \in from .. ss' - 1, mode' = m, s' = head + ts, UNCHANGED found
      PROVE  Kept
  <2>1. head \in Nat /\ off' <= head
    BY <1>4
  <2>2. s' \in Nat /\ off' <= s' - ts
    BY <1>1, <1>4, <2>1
  <2>3. found' \in Int
    BY <1>1, <1>4
  <2>. QED
    BY <1>4, <2>2, <2>3 DEF Kept
<1>. QED
  BY <1>2, <1>3, <1>4 DEF Starts

\* A search that starts.
LEMMA FindrKept ==
  ASSUME TypeInv, NEW from \in Nat, NEW max_off \in Nat, ss_findr(from, max_off)
  PROVE  Kept /\ ss' \in Nat /\ ss' <= Len(text) /\ off' = from
              /\ (max_off = Len(text) => ss' = Len(text))
<1>1. ts \in Nat /\ Len(text) \in Nat /\ s \in Nat
  BY TargetLength DEF TypeInv
<1>2. ss' \in Nat /\ ss' <= Len(text) /\ off' = from
      /\ (max_off = Len(text) => ss' = Len(text))
  BY <1>1 DEF ss_findr
<1>3. ASSUME Return(S_NPOS), UNCHANGED <<s, current>>
      PROVE  Kept
  BY <1>1, <1>3 DEF Kept, Return, S_NPOS
<1>4. ASSUME Starts("fast", from, ss')
      PROVE  Kept
  BY <1>2, <1>4, StartsKept
<1>. QED
  BY <1>2, <1>3, <1>4 DEF ss_findr

\* A failed comparison.
LEMMA CollidedKept ==
  ASSUME TypeInv, WindowInside, Searching, s < ss, ss' = ss, off' = off,
         NEW sum, Collided(s + 1, sum)
  PROVE  Kept
<1>1. ts \in Nat /\ s \in Nat /\ off \in Nat /\ ss \in Nat /\ ts > 0 /\ found \in Int
  BY TargetLength DEF TypeInv
<1>2. off <= s - ts
  BY DEF WindowInside
<1>3. CASE Resume(s + 1)
  <2>1. Starts("slow", s + 1, ss')
    BY <1>3 DEF Resume
  <2>2. off' <= s + 1 /\ s + 1 \in Nat /\ off' \in Nat /\ ss' \in Nat
    BY <1>1, <1>2
  <2>. QED
    BY <2>1, <2>2, StartsKept
<1>4. CASE s' = s + 1 /\ UNCHANGED <<mode, found>>
  BY <1>1, <1>2, <1>4 DEF Kept, Searching
<1>. QED
  BY <1>3, <1>4 DEF Collided

\* The window moves.
LEMMA WindowKept ==
  ASSUME TypeInv, WindowInside, Window
  PROVE  Kept /\ ss' = ss /\ off' = off
<1>1. ts \in Nat /\ s \in Nat /\ off \in Nat /\ ss \in Nat /\ ts > 0 /\ found \in Int
  BY TargetLength DEF TypeInv
<1>2. Searching /\ s < ss /\ ss' = ss /\ off' = off
  BY DEF Window, Searching
<1>3. off <= s - ts
  BY <1>2 DEF WindowInside
<1>4. CASE At(s + 1 - ts) /\ Return(s + 1 - ts) /\ s' = s + 1
  BY <1>1, <1>2, <1>3, <1>4 DEF Kept, Return, At, S_NPOS
<1>5. ASSUME NEW sum, Collided(s + 1, sum)
      PROVE  Kept
  BY <1>2, <1>5, CollidedKept
<1>6. CASE s' = s + 1 /\ UNCHANGED <<mode, found>>
  BY <1>1, <1>2, <1>3, <1>6 DEF Kept, Searching
<1>. QED
  BY <1>2, <1>4, <1>5, <1>6 DEF Window

\* The window has reached the end.
LEMMA ExhaustedKept ==
  ASSUME TypeInv, Exhausted
  PROVE  Kept /\ ss' = ss /\ off' = off
BY DEF Kept, Exhausted, Return, TypeInv, S_NPOS

----------------------------------------------------------------------------
(* Each action keeps the invariant.                                        *)

\* What a search step keeps, put back into the invariant.
LEMMA KeptGives ==
  ASSUME Kept, UNCHANGED <<text, target>>
  PROVE  WindowInside' /\ FoundIsTarget' /\ mode' # "no"
BY DEF Kept, WindowInside, Searching, FoundIsTarget, At, ts

\* A step of the search leaves the rest of the invariant as it is.
LEMMA StepWithin ==
  ASSUME IInv, Kept, ss' = ss, off' = off, UNCHANGED <<text, target, call, refs>>,
         mode # "no"
  PROVE  IInv'
<1>1. TypeInv'
  BY DEF IInv, TypeInv, Kept
<1>2. WindowInside' /\ FoundIsTarget' /\ mode' # "no"
  BY KeptGives
<1>3. SplitOnTrack'
  BY <1>2 DEF IInv, SplitOnTrack, LastEnd, At, ts
<1>4. NoRefs'
  BY <1>2 DEF IInv, NoRefs
<1>5. SplitExact'
  BY DEF IInv, SplitExact, At, ts
<1>. QED
  BY <1>1, <1>2, <1>3, <1>4, <1>5 DEF IInv

\* The steps of the loop.
LEMMA SearchIInv ==
  ASSUME IInv, Window \/ Exhausted, UNCHANGED <<text, target, call, refs>>
  PROVE  IInv'
<1>1. Kept /\ ss' = ss /\ off' = off
  BY WindowKept, ExhaustedKept DEF IInv
<1>2. mode # "no"
  BY DEF Window, Exhausted
<1>. QED
  BY <1>1, <1>2, StepWithin

\* A call that starts, on no references.
LEMMA CallIInv ==
  ASSUME SearchAssumption, IInv, Call
  PROVE  IInv'
<1>1. TypeInv /\ Len(text) \in Nat
  BY TargetLength DEF IInv
<1>2. PICK from \in Nat, max_off \in Nat : ss_findr(from, max_off)
        /\ (call' = "ss_split" => from = 0 /\ max_off = Len(text))
  <2>1. CASE FindCalled
    <3>1. PICK from \in 0 .. MaxOff, max_off \in {Len(text), Len(text) - 1} :
            max_off >= 0 /\ ss_findr(from, max_off)
      BY <2>1 DEF FindCalled
    <3>2. from \in Nat /\ max_off \in Nat
      BY <1>1, <3>1
    <3>. QED
      BY <2>1, <3>1, <3>2 DEF FindCalled
  <2>2. CASE SplitCalled
    BY <1>1, <2>2 DEF SplitCalled
  <2>. QED
    BY <2>1, <2>2 DEF Call
<1>3. Kept /\ ss' \in Nat /\ ss' <= Len(text) /\ off' = from
      /\ (max_off = Len(text) => ss' = Len(text))
  BY <1>1, <1>2, FindrKept
<1>4. /\ UNCHANGED <<text, target>> /\ refs' = << >>
      /\ call' \in {"ss_find", "ss_split"}
  BY DEF Call, FindCalled, SplitCalled
<1>5. WindowInside' /\ FoundIsTarget' /\ mode' # "no"
  BY <1>3, <1>4, KeptGives
<1>6. TypeInv'
  <2>1. refs' \in Seq([off : Nat, size : Nat]) /\ Len(refs') <= MaxRefs
    BY <1>4, EmptySeq DEF SearchAssumption
  <2>2. off' \in Nat /\ mode' \in {"no", "fast", "slow", "done"}
    BY <1>2, <1>3 DEF Kept
  <2>. QED
    BY <1>1, <1>3, <1>4, <2>1, <2>2 DEF TypeInv, Kept
<1>7. SplitOnTrack'
  BY <1>1, <1>2, <1>3, <1>4, <1>5 DEF SplitOnTrack
<1>8. NoRefs' /\ SplitExact'
  BY <1>4 DEF NoRefs, SplitExact
<1>. QED
  BY <1>5, <1>6, <1>7, <1>8 DEF IInv

\* ss_find returns.
LEMMA FindReturnsIInv ==
  ASSUME IInv, FindReturns, UNCHANGED <<text, target>>
  PROVE  IInv'
<1>1. /\ call = "ss_find" /\ call' = "none"
      /\ UNCHANGED <<text, target, ss, off, mode, s, found, refs>>
  BY DEF FindReturns, search
<1>2. refs = << >>
  BY <1>1 DEF IInv, NoRefs
<1>3. TypeInv' /\ WindowInside' /\ FoundIsTarget'
  BY <1>1 DEF IInv, TypeInv, WindowInside, Searching, FoundIsTarget, At, ts
<1>4. SplitOnTrack' /\ NoRefs' /\ SplitExact'
  BY <1>1, <1>2 DEF SplitOnTrack, NoRefs, SplitExact
<1>. QED
  BY <1>3, <1>4 DEF IInv

\* The substring that ss_split adds.
Piece == [off |-> off, size |-> (IF found = S_NPOS THEN Len(text) ELSE found) - off]

\* It is one: a search that found a separator did so from off on, and one that
\* found none started within the text.
LEMMA PieceFits ==
  ASSUME IInv, call = "ss_split", mode = "done"
  PROVE  /\ Piece \in [off : Nat, size : Nat]
         /\ Piece.off = off
         /\ found = S_NPOS => Piece.off + Piece.size = Len(text)
         /\ found # S_NPOS =>
              /\ found \in Nat /\ found + ts <= Len(text)
              /\ Piece.off + Piece.size = found /\ At(found)
<1>1. /\ off \in Nat /\ off <= Len(text) /\ Len(text) \in Nat /\ ts \in Nat
      /\ ss = Len(text) /\ ts > 0
  BY TargetLength DEF IInv, TypeInv, SplitOnTrack
<1>2. CASE found = S_NPOS
  BY <1>1, <1>2 DEF Piece
<1>3. CASE found # S_NPOS
  <2>1. off <= found /\ found + ts <= ss /\ At(found)
    BY <1>3 DEF IInv, FoundIsTarget
  <2>2. found \in Int
    BY DEF IInv, TypeInv
  <2>3. found \in Nat /\ found - off \in Nat /\ found + ts <= Len(text)
    BY <1>1, <2>1, <2>2
  <2>4. Piece = [off |-> off, size |-> found - off]
    BY <1>3 DEF Piece
  <2>. QED
    BY <1>1, <1>3, <2>1, <2>3, <2>4
<1>. QED
  BY <1>2, <1>3

\* A piece goes where the chain of those before it points.
LEMMA ChainGrows ==
  ASSUME IInv, call = "ss_split", mode = "done",
         UNCHANGED <<text, target>>, refs' = Append(refs, Piece)
  PROVE  /\ refs' \in Seq([off : Nat, size : Nat]) /\ refs' # << >>
         /\ refs'[Len(refs')] = Piece
         /\ refs'[1].off = 0
         /\ \A k \in 1 .. Len(refs') - 1 :
              /\ At(refs'[k].off + refs'[k].size)
              /\ refs'[k + 1].off = refs'[k].off + refs'[k].size + ts
<1>. DEFINE Ref == [off : Nat, size : Nat]
            n == Len(refs)
<1>1. Piece \in Ref /\ Piece.off = off
  BY PieceFits
<1>2. refs \in Seq(Ref)
  BY DEF IInv, TypeInv
<1>3. n \in Nat /\ (refs # << >> => n > 0)
  BY <1>2, LenProperties, EmptySeq
<1>4. /\ refs' \in Seq(Ref) /\ Len(refs') = n + 1
      /\ \A i \in 1 .. n : refs'[i] = refs[i]
      /\ refs'[n + 1] = Piece
  BY <1>1, <1>2, AppendProperties
<1>5. refs' # << >>
  BY <1>3, <1>4, EmptySeq
<1>6. /\ refs = << >> => off = 0
      /\ refs # << >> => At(LastEnd) /\ off = LastEnd + ts
  BY DEF IInv, SplitOnTrack
<1>7. refs'[1].off = 0
  <2>1. CASE refs = << >>
    <3>1. n = 0
      BY <2>1, EmptySeq
    <3>. QED
      BY <1>1, <1>4, <1>6, <2>1, <3>1
  <2>2. CASE refs # << >>
    BY <1>3, <1>4, <2>2 DEF IInv, SplitExact
  <2>. QED
    BY <2>1, <2>2
<1>8. ASSUME NEW k \in 1 .. n
      PROVE  /\ At(refs'[k].off + refs'[k].size)
             /\ refs'[k + 1].off = refs'[k].off + refs'[k].size + ts
  <2>1. refs'[k] = refs[k]
    BY <1>3, <1>4
  <2>2. CASE k = n
    <3>1. refs # << >>
      BY <1>3, <2>2, EmptySeq
    <3>2. At(LastEnd) /\ off = LastEnd + ts
      BY <1>6, <3>1
    <3>3. LastEnd = refs[k].off + refs[k].size
      BY <2>2 DEF LastEnd
    <3>4. refs'[k + 1] = Piece
      BY <1>4, <2>2
    <3>. QED
      BY <1>1, <2>1, <3>2, <3>3, <3>4
  <2>3. CASE k # n
    <3>1. k \in 1 .. n - 1 /\ k + 1 \in 1 .. n
      BY <1>3, <2>3
    <3>2. refs'[k + 1] = refs[k + 1]
      BY <1>4, <3>1
    <3>3. /\ At(refs[k].off + refs[k].size)
          /\ refs[k + 1].off = refs[k].off + refs[k].size + ts
      BY <3>1 DEF IInv, SplitExact
    <3>. QED
      BY <2>1, <3>2, <3>3
  <2>. QED
    BY <2>2, <2>3
<1>9. Len(refs') - 1 = n
  BY <1>3, <1>4
<1>. QED
  BY <1>4, <1>5, <1>7, <1>8, <1>9

\* ss_split takes a substring, and goes on or ends.
LEMMA SplitNextIInv ==
  ASSUME SearchAssumption, IInv, SplitNext, UNCHANGED <<text, target>>
  PROVE  IInv'
<1>1. call = "ss_split" /\ mode = "done"
  BY DEF SplitNext
<1>2. TypeInv /\ FoundIsTarget /\ WindowInside
  BY DEF IInv
<1>3. /\ ss = Len(text) /\ Len(text) \in Nat /\ ts \in Nat /\ ts > 0
      /\ Len(refs) \in Nat /\ Len(refs) <= MaxRefs /\ MaxRefs \in Nat
  BY <1>1, <1>2, TargetLength, LenProperties
     DEF IInv, SplitOnTrack, TypeInv, SearchAssumption
<1>4. CASE ~ (Len(refs) < MaxRefs)
  \* No room: the references stay, and the last ends in a separator.
  <2>1. call' = "none" /\ UNCHANGED <<refs, ss, off, mode, s, found>>
    BY <1>4 DEF SplitNext, search
  <2>2. TypeInv'
    BY <1>2, <2>1 DEF TypeInv
  <2>3. WindowInside' /\ FoundIsTarget'
    BY <1>2, <2>1 DEF WindowInside, Searching, FoundIsTarget, At, ts
  <2>4. SplitOnTrack' /\ NoRefs'
    BY <1>1, <2>1 DEF SplitOnTrack, NoRefs
  <2>5. Len(refs) = MaxRefs
    BY <1>3, <1>4
  <2>6. SplitExact'
    BY <1>1, <2>1, <2>5 DEF IInv, SplitOnTrack, SplitExact, LastEnd, At, ts
  <2>. QED
    BY <2>2, <2>3, <2>4, <2>6 DEF IInv
<1>5. CASE Len(refs) < MaxRefs
  <2>1. refs' = Append(refs, Piece)
    BY <1>5 DEF SplitNext, Piece
  <2>2. /\ refs' \in Seq([off : Nat, size : Nat]) /\ refs' # << >>
        /\ refs'[Len(refs')] = Piece
        /\ refs'[1].off = 0
        /\ \A k \in 1 .. Len(refs') - 1 :
             /\ At(refs'[k].off + refs'[k].size)
             /\ refs'[k + 1].off = refs'[k].off + refs'[k].size + ts
    BY <1>1, <2>1, ChainGrows
  <2>3. Len(refs') <= MaxRefs
    BY <1>2, <1>3, <1>5, <2>1, PieceFits, <1>1, AppendProperties DEF TypeInv
  <2>4. LastEnd' = Piece.off + Piece.size
    BY <2>2 DEF LastEnd
  <2>5. /\ found = S_NPOS => LastEnd' = Len(text)
        /\ found # S_NPOS => /\ found \in Nat /\ found + ts <= Len(text)
                             /\ LastEnd' = found /\ At(found)
    BY <1>1, <2>4, PieceFits
  <2>6. CASE call' = "none" /\ UNCHANGED search
                /\ (found = S_NPOS \/ found + ts >= Len(text))
    \* The last one.
    <3>1. UNCHANGED <<ss, off, mode, s, found>>
      BY <2>6 DEF search
    <3>2. TypeInv'
      BY <1>2, <2>2, <2>3, <2>6, <3>1 DEF TypeInv
    <3>3. WindowInside' /\ FoundIsTarget'
      BY <1>2, <3>1 DEF WindowInside, Searching, FoundIsTarget, At, ts
    <3>4. SplitOnTrack' /\ NoRefs'
      BY <1>1, <2>6, <3>1 DEF SplitOnTrack, NoRefs
    <3>5. LastEnd' = Len(text) \/ (At(LastEnd') /\ LastEnd' + ts = Len(text))
      BY <1>3, <2>5, <2>6
    <3>6. SplitExact'
      BY <2>2, <3>5 DEF SplitExact, LastEnd, At, ts
    <3>. QED
      BY <3>2, <3>3, <3>4, <3>6 DEF IInv
  <2>7. CASE call' = call /\ ss_findr(found + ts, Len(text))
                /\ ~ (found = S_NPOS \/ found + ts >= Len(text))
    \* The search goes on after the separator.
    <3>1. found \in Nat /\ LastEnd' = found /\ At(found) /\ found + ts <= Len(text)
      BY <2>5, <2>7
    <3>2. found + ts \in Nat
      BY <1>3, <3>1
    <3>3. Kept /\ ss' \in Nat /\ ss' <= Len(text) /\ off' = found + ts
          /\ ss' = Len(text)
      BY <1>2, <1>3, <2>7, <3>2, FindrKept
    <3>4. WindowInside' /\ FoundIsTarget' /\ mode' # "no"
      BY <3>3, KeptGives
    <3>5. TypeInv'
      BY <1>2, <2>2, <2>3, <2>7, <3>2, <3>3 DEF TypeInv, Kept
    <3>6. SplitOnTrack'
      BY <2>2, <3>1, <3>3, <3>4 DEF SplitOnTrack, At, ts
    <3>7. NoRefs'
      BY <1>1, <2>7, <3>4 DEF NoRefs
    <3>8. SplitExact'
      BY <1>1, <2>2, <2>7 DEF SplitExact, At, ts
    <3>. QED
      BY <3>4, <3>5, <3>6, <3>7, <3>8 DEF IInv
  <2>. QED
    BY <1>5, <2>6, <2>7 DEF SplitNext
<1>. QED
  BY <1>3, <1>4, <1>5

\* The invariant holds at the start, ...
LEMMA InitIInv ==
  ASSUME SearchAssumption, Init
  PROVE  IInv
<1>1. refs = << >> /\ refs \in Seq([off : Nat, size : Nat]) /\ Len(refs) = 0
  BY EmptySeq DEF Init
<1>2. text \in Seq(Nat) /\ target \in Seq(Nat) /\ target # << >>
  BY DEF Init, SearchAssumption
<1>3. Len(text) \in Nat /\ MaxRefs \in Nat
  BY <1>2, LenProperties DEF SearchAssumption
<1>4. TypeInv
  BY <1>1, <1>2, <1>3 DEF Init, TypeInv, S_NPOS
<1>. QED
  BY <1>1, <1>4 DEF Init, IInv, WindowInside, Searching, FoundIsTarget,
                    SplitOnTrack, NoRefs, SplitExact

\* ... and every step keeps it.
LEMMA NextIInv ==
  ASSUME SearchAssumption, IInv, [Next]_vars
  PROVE  IInv'
<1>1. CASE UNCHANGED vars
  BY <1>1 DEF vars, search, IInv, TypeInv, WindowInside, Searching, FoundIsTarget,
              SplitOnTrack, NoRefs, SplitExact, LastEnd, At, ts
<1>2. CASE Call
  BY <1>2, CallIInv
<1>3. CASE Step
  BY <1>3, SearchIInv, FindReturnsIInv, SplitNextIInv DEF Step
<1>. QED
  BY <1>1, <1>2, <1>3 DEF Next

----------------------------------------------------------------------------
(* Induction over the naturals.                                            *)

\* The order of the naturals is well-founded, as a set of pairs.
LEMMA NatOrder == IsWellFoundedOn({p \in Nat \X Nat : p[1] < p[2]}, Nat)
BY NatLessThanWellFounded DEF OpToRel

\* A set of naturals that is not empty has a least element.
LEMMA LeastNat ==
  ASSUME NEW T, T \subseteq Nat, T # {}
  PROVE  \E x \in T : \A y \in T : x <= y
<1>1. PICK x \in T : \A y \in T : <<y, x>> \notin {p \in Nat \X Nat : p[1] < p[2]}
  BY NatOrder, WFMin
<1>2. ASSUME NEW y \in T PROVE x <= y
  <2>1. <<y, x>> \in Nat \X Nat
    OBVIOUS
  <2>2. ~ (y < x)
    BY <1>1, <2>1
  <2>. QED
    BY <2>2
<1>. QED
  BY <1>2

\* What holds of 0, and of i + 1 when it holds of i, holds up to n.
LEMMA UpTo ==
  ASSUME NEW n \in Nat, NEW S, 0 \in S, \A i \in 0 .. n - 1 : i \in S => i + 1 \in S
  PROVE  \A i \in 0 .. n : i \in S
<1>. DEFINE T == (0 .. n) \ S
<1>1. SUFFICES ASSUME T # {} PROVE FALSE
  OBVIOUS
<1>2. PICK x \in T : \A y \in T : x <= y
  <2>1. T \subseteq Nat
    OBVIOUS
  <2>. HIDE DEF T
  <2>. QED
    BY <1>1, <2>1, LeastNat
<1>3. x # 0 /\ x \in 1 .. n
  BY <1>2
<1>4. x - 1 \in 0 .. n - 1 /\ x - 1 \notin T
  BY <1>2, <1>3
<1>5. x - 1 \in S
  BY <1>4
<1>6. (x - 1) + 1 \in S
  BY <1>4, <1>5
<1>. QED
  BY <1>3, <1>6

----------------------------------------------------------------------------
(* The sum over a window.                                                  *)

\* Its partial sums.
Sums(m, p, i, n, F) ==
  F = [k \in 1 .. n |-> IF k = 1 THEN 0 ELSE F[k - 1] + CSum(m, p, i + k - 1)]

\* There are partial sums of any length.
LEMMA SumsExist ==
  ASSUME NEW m, NEW p, NEW i, NEW n \in Nat \ {0}
  PROVE  \E F : Sums(m, p, i, n, F)
<1>. DEFINE S == {k \in Nat : \E F : Sums(m, p, i, k + 1, F)}
<1>1. 0 \in S
  <2>1. Sums(m, p, i, 0 + 1, [k \in 1 .. 1 |-> 0])
    BY DEF Sums
  <2>. QED
    BY <2>1
<1>2. ASSUME NEW k \in 0 .. n - 2, k \in S
      PROVE  k + 1 \in S
  <2>1. PICK F : Sums(m, p, i, k + 1, F)
    BY <1>2
  <2>. DEFINE G == [u \in 1 .. k + 2 |-> IF u = k + 2 THEN F[k + 1] + CSum(m, p, i + u - 1)
                                         ELSE F[u]]
  <2>2. ASSUME NEW u \in 1 .. k + 2
        PROVE  G[u] = IF u = 1 THEN 0 ELSE G[u - 1] + CSum(m, p, i + u - 1)
    <3>1. \A j \in 1 .. k + 1 :
            F[j] = IF j = 1 THEN 0 ELSE F[j - 1] + CSum(m, p, i + j - 1)
      BY <2>1 DEF Sums
    <3>2. CASE u = k + 2
      <4>1. u # 1 /\ u - 1 = k + 1 /\ k + 1 \in 1 .. k + 2 /\ k + 1 # k + 2
        BY <3>2
      <4>2. G[k + 1] = F[k + 1] /\ G[u] = F[k + 1] + CSum(m, p, i + u - 1)
        BY <3>2, <4>1
      <4>. QED
        BY <4>1, <4>2
    <3>3. CASE u # k + 2
      <4>1. u \in 1 .. k + 1 /\ (u # 1 => u - 1 \in 1 .. k + 1 /\ u - 1 # k + 2)
        BY <3>3
      <4>2. G[u] = F[u] /\ (u # 1 => G[u - 1] = F[u - 1])
        BY <3>3, <4>1
      <4>3. F[u] = IF u = 1 THEN 0 ELSE F[u - 1] + CSum(m, p, i + u - 1)
        BY <3>1, <4>1
      <4>. QED
        BY <4>2, <4>3
    <3>. QED
      BY <3>2, <3>3
  <2>3. G = [u \in 1 .. k + 2 |-> G[u]]
    OBVIOUS
  <2>. HIDE DEF G
  <2>4. G = [u \in 1 .. k + 2 |-> IF u = 1 THEN 0 ELSE G[u - 1] + CSum(m, p, i + u - 1)]
    BY <2>2, <2>3
  <2>5. k + 2 = (k + 1) + 1
    OBVIOUS
  <2>6. Sums(m, p, i, (k + 1) + 1, G)
    BY <2>4, <2>5 DEF Sums
  <2>. QED
    BY <2>6
<1>3. PICK e \in Nat : e = n - 1
  OBVIOUS
<1>. HIDE DEF S
<1>4. \A k \in 0 .. e - 1 : k \in S => k + 1 \in S
  BY <1>2, <1>3
<1>5. \A k \in 0 .. e : k \in S
  BY <1>1, <1>4, UpTo
<1>6. e \in S
  BY <1>5
<1>7. PICK F : Sums(m, p, i, e + 1, F)
  BY <1>6 DEF S
<1>8. e + 1 = n
  BY <1>3
<1>. QED
  BY <1>7, <1>8

\* SumAt is the last of them.
SumOf(m, p, i, n, F) == Sums(m, p, i, n, F) /\ SumAt(m, p, i) = F[n]

LEMMA SumAtIs ==
  ASSUME NEW m, NEW p, NEW i, NEW n \in Nat \ {0}, n = ts
  PROVE  \E F : SumOf(m, p, i, n, F)
<1>. DEFINE sum[k \in 1 .. n] == IF k = 1 THEN 0 ELSE sum[k - 1] + CSum(m, p, i + k - 1)
<1>1. \E F : F = [k \in 1 .. n |-> IF k = 1 THEN 0 ELSE F[k - 1] + CSum(m, p, i + k - 1)]
  <2>1. \E F : Sums(m, p, i, n, F)
    BY SumsExist
  <2>. QED
    BY <2>1 DEF Sums
<1>2. sum = [k \in 1 .. n |-> IF k = 1 THEN 0 ELSE sum[k - 1] + CSum(m, p, i + k - 1)]
  BY <1>1, Zenon
<1>3. SumAt(m, p, i) = sum[n]
  BY DEF SumAt
<1>4. PICK F : F = sum
  OBVIOUS
<1>. HIDE DEF sum
<1>5. Sums(m, p, i, n, F)
  BY <1>2, <1>4 DEF Sums
<1>. QED
  BY <1>3, <1>4, <1>5 DEF SumOf

\* What a byte, or a pair of them, adds.
LEMMA CSumNat ==
  ASSUME NEW m, NEW p \in Seq(Nat), NEW j \in Nat \ {0}, j + 1 <= Len(p)
  PROVE  CSum(m, p, j) \in Nat
<1>1. j \in 1 .. Len(p) /\ j + 1 \in 1 .. Len(p)
  BY LenProperties
<1>2. p[j] \in Nat /\ p[j + 1] \in Nat
  BY <1>1, ElementOfSeq
<1>. QED
  BY <1>2 DEF CSum

\* The partial sums, one by one.
OneByOne(m, p, i, n, F) ==
  /\ F[1] = 0
  /\ \A k \in 1 .. n : F[k] \in Int
  /\ \A k \in 1 .. n - 1 : F[k + 1] = F[k] + CSum(m, p, i + k)

LEMMA SumsStep ==
  ASSUME NEW m, NEW p \in Seq(Nat), NEW i \in Nat, NEW n \in Nat \ {0},
         i + n <= Len(p), NEW F, Sums(m, p, i, n, F)
  PROVE  OneByOne(m, p, i, n, F)
<1>1. \A k \in 1 .. n : F[k] = IF k = 1 THEN 0 ELSE F[k - 1] + CSum(m, p, i + k - 1)
  BY DEF Sums
<1>2. F[1] = 0
  BY <1>1
<1>3. ASSUME NEW k \in 1 .. n - 1
      PROVE  F[k + 1] = F[k] + CSum(m, p, i + k)
  <2>1. k + 1 \in 1 .. n /\ k + 1 # 1 /\ (k + 1) - 1 = k /\ i + (k + 1) - 1 = i + k
    OBVIOUS
  <2>2. F[k + 1] = F[(k + 1) - 1] + CSum(m, p, i + (k + 1) - 1)
    BY <1>1, <2>1
  <2>. QED
    BY <2>1, <2>2
<1>4. ASSUME NEW k \in 1 .. n PROVE F[k] \in Int
  <2>. DEFINE S == {u \in Nat : F[u + 1] \in Int}
  <2>1. 0 \in S
    BY <1>2
  <2>2. PICK e \in Nat : e = n - 1
    OBVIOUS
  <2>3. ASSUME NEW u \in 0 .. e - 1, u \in S PROVE u + 1 \in S
    <3>1. PICK j : j = u + 1
      OBVIOUS
    <3>2. j \in 1 .. n - 1 /\ F[j] \in Int
      BY <2>2, <2>3, <3>1
    <3>3. i + j \in Nat \ {0} /\ (i + j) + 1 <= Len(p)
      BY <3>2, LenProperties
    <3>4. CSum(m, p, i + j) \in Nat
      BY <3>3, CSumNat
    <3>5. F[j + 1] = F[j] + CSum(m, p, i + j)
      BY <1>3, <3>2
    <3>6. F[j + 1] \in Int
      BY <3>2, <3>4, <3>5
    <3>. QED
      BY <3>1, <3>6
  <2>. HIDE DEF S
  <2>4. \A u \in 0 .. e : u \in S
    BY <2>1, <2>3, UpTo
  <2>5. k - 1 \in 0 .. e /\ (k - 1) + 1 = k
    BY <2>2
  <2>6. k - 1 \in S
    BY <2>4, <2>5
  <2>7. F[(k - 1) + 1] \in Int
    BY <2>6 DEF S
  <2>. QED
    BY <2>5, <2>7
<1>. QED
  BY <1>2, <1>3, <1>4 DEF OneByOne

\* The sum over the next window, from what enters and what leaves.
LEMMA SumMoves ==
  ASSUME NEW m, NEW p \in Seq(Nat), NEW i \in Nat, NEW n \in Nat \ {0}, n = ts,
         NEW j, j = i + 1, j + n <= Len(p)
  PROVE  /\ SumAt(m, p, j) = SumAt(m, p, i) + (CSum(m, p, i + n) - CSum(m, p, j))
         /\ SumAt(m, p, i) \in Int
<1>1. PICK F : SumOf(m, p, i, n, F)
  BY SumAtIs
<1>2. PICK G : SumOf(m, p, j, n, G)
  BY SumAtIs
<1>3. Len(p) \in Nat /\ j \in Nat /\ i + n <= Len(p)
  BY LenProperties
<1>4. /\ F[1] = 0 /\ \A k \in 1 .. n : F[k] \in Int
      /\ \A k \in 1 .. n - 1 : F[k + 1] = F[k] + CSum(m, p, i + k)
  <2>1. OneByOne(m, p, i, n, F)
    BY <1>1, <1>3, SumsStep DEF SumOf
  <2>. QED
    BY <2>1 DEF OneByOne
<1>5. /\ G[1] = 0 /\ \A k \in 1 .. n : G[k] \in Int
      /\ \A k \in 1 .. n - 1 : G[k + 1] = G[k] + CSum(m, p, j + k)
  <2>1. OneByOne(m, p, j, n, G)
    BY <1>2, <1>3, SumsStep DEF SumOf
  <2>. QED
    BY <2>1 DEF OneByOne
<1>6. \A k \in 1 .. n : CSum(m, p, i + k) \in Nat
  <2>1. ASSUME NEW k \in 1 .. n PROVE CSum(m, p, i + k) \in Nat
    <3>1. PICK q : q = i + k
      OBVIOUS
    <3>2. q \in Nat \ {0} /\ q + 1 <= Len(p)
      BY <1>3, <3>1
    <3>. QED
      BY <3>1, <3>2, CSumNat
  <2>. QED
    BY <2>1
<1>. DEFINE S == {u \in Nat : G[u + 1] + CSum(m, p, j) = F[u + 1] + CSum(m, p, i + (u + 1))}
<1>7. 0 \in S
  <2>1. i + (0 + 1) = j /\ 0 + 1 = 1
    OBVIOUS
  <2>2. G[1] + CSum(m, p, j) = F[1] + CSum(m, p, j)
    BY <1>4, <1>5
  <2>. QED
    BY <2>1, <2>2
<1>8. PICK e \in Nat : e = n - 1
  OBVIOUS
<1>9. ASSUME NEW u \in 0 .. e - 1, u \in S PROVE u + 1 \in S
  <2>1. PICK k : k = u + 1
    OBVIOUS
  <2>2. k \in 1 .. n - 1 /\ k \in 1 .. n /\ k + 1 \in 1 .. n /\ 1 \in 1 .. n
    BY <1>8, <2>1
  <2>3. G[k] + CSum(m, p, j) = F[k] + CSum(m, p, i + k)
    BY <1>9, <2>1
  <2>4. j + k = i + (k + 1)
    BY <2>2
  <2>5. G[k + 1] = G[k] + CSum(m, p, i + (k + 1)) /\ F[k + 1] = F[k] + CSum(m, p, i + k)
    BY <1>4, <1>5, <2>2, <2>4
  <2>6. /\ CSum(m, p, i + k) \in Nat /\ CSum(m, p, i + (k + 1)) \in Nat
        /\ CSum(m, p, i + 1) \in Nat
    BY <1>6, <2>2
  <2>7. PICK a, b, c : /\ a = CSum(m, p, i + k) /\ b = CSum(m, p, i + (k + 1))
                       /\ c = CSum(m, p, j)
    OBVIOUS
  <2>8. a \in Nat /\ b \in Nat /\ c \in Nat /\ F[k] \in Int /\ G[k] \in Int
    BY <1>4, <1>5, <2>2, <2>6, <2>7
  <2>9. G[k + 1] + c = F[k + 1] + b
    BY <2>3, <2>5, <2>7, <2>8
  <2>10. G[(u + 1) + 1] + CSum(m, p, j) = F[(u + 1) + 1] + CSum(m, p, i + ((u + 1) + 1))
    BY <2>1, <2>7, <2>9
  <2>11. u + 1 \in Nat
    OBVIOUS
  <2>. QED
    BY <2>10, <2>11
<1>. HIDE DEF S
<1>10. \A u \in 0 .. e : u \in S
  BY <1>7, <1>9, UpTo
<1>11. e \in S
  BY <1>10
<1>12. G[e + 1] + CSum(m, p, j) = F[e + 1] + CSum(m, p, i + (e + 1))
  BY <1>11 DEF S
<1>13. e + 1 = n /\ n \in 1 .. n /\ 1 \in 1 .. n
  BY <1>8
<1>14. CSum(m, p, i + n) \in Nat /\ CSum(m, p, i + 1) \in Nat /\ F[n] \in Int /\ G[n] \in Int
  BY <1>4, <1>5, <1>6, <1>13
<1>15. PICK a, c : a = CSum(m, p, i + n) /\ c = CSum(m, p, j)
  OBVIOUS
<1>16. G[n] + c = F[n] + a /\ a \in Nat /\ c \in Nat
  BY <1>12, <1>13, <1>14, <1>15
<1>17. G[n] = F[n] + (a - c)
  <2>1. PICK f, g : f = F[n] /\ g = G[n]
    OBVIOUS
  <2>2. f \in Int /\ g \in Int /\ g + c = f + a
    BY <1>14, <1>16, <2>1
  <2>3. g = f + (a - c)
    BY <1>16, <2>2
  <2>. QED
    BY <2>1, <2>3
<1>18. SumAt(m, p, j) = SumAt(m, p, i) + (a - c) /\ SumAt(m, p, i) \in Int
  BY <1>1, <1>2, <1>14, <1>17 DEF SumOf
<1>. QED
  BY <1>15, <1>18, Zenon

\* The same n bytes from i and from j on.
SameBytes(p, i, q, j, n) == \A k \in 1 .. n : p[i + k] = q[j + k]

\* Where bytes are the same, sums are.
LEMMA SumsSame ==
  ASSUME NEW m, NEW n \in Nat \ {0}, n = ts,
         NEW p \in Seq(Nat), NEW i \in Nat, i + n <= Len(p),
         NEW q \in Seq(Nat), NEW j \in Nat, j + n <= Len(q),
         SameBytes(p, i, q, j, n)
  PROVE  SumAt(m, p, i) = SumAt(m, q, j)
<1>1. PICK F : SumOf(m, p, i, n, F)
  BY SumAtIs
<1>2. PICK G : SumOf(m, q, j, n, G)
  BY SumAtIs
<1>3. /\ F[1] = 0
      /\ \A k \in 1 .. n - 1 : F[k + 1] = F[k] + CSum(m, p, i + k)
  <2>1. OneByOne(m, p, i, n, F)
    BY <1>1, SumsStep DEF SumOf
  <2>. QED
    BY <2>1 DEF OneByOne
<1>4. /\ G[1] = 0
      /\ \A k \in 1 .. n - 1 : G[k + 1] = G[k] + CSum(m, q, j + k)
  <2>1. OneByOne(m, q, j, n, G)
    BY <1>2, SumsStep DEF SumOf
  <2>. QED
    BY <2>1 DEF OneByOne
<1>5. \A k \in 1 .. n - 1 : CSum(m, p, i + k) = CSum(m, q, j + k)
  <2>1. ASSUME NEW k \in 1 .. n - 1 PROVE CSum(m, p, i + k) = CSum(m, q, j + k)
    <3>1. k \in 1 .. n /\ k + 1 \in 1 .. n
      OBVIOUS
    <3>2. p[i + k] = q[j + k] /\ p[i + (k + 1)] = q[j + (k + 1)]
      BY <3>1 DEF SameBytes
    <3>3. i + (k + 1) = (i + k) + 1 /\ j + (k + 1) = (j + k) + 1
      OBVIOUS
    <3>. QED
      BY <3>2, <3>3 DEF CSum
  <2>. QED
    BY <2>1
<1>. DEFINE S == {u \in Nat : F[u + 1] = G[u + 1]}
<1>6. 0 \in S
  BY <1>3, <1>4
<1>7. PICK e \in Nat : e = n - 1
  OBVIOUS
<1>8. ASSUME NEW u \in 0 .. e - 1, u \in S PROVE u + 1 \in S
  <2>1. PICK k : k = u + 1
    OBVIOUS
  <2>2. k \in 1 .. n - 1 /\ F[k] = G[k]
    BY <1>7, <1>8, <2>1
  <2>3. /\ F[k + 1] = F[k] + CSum(m, p, i + k)
        /\ G[k + 1] = G[k] + CSum(m, q, j + k)
        /\ CSum(m, p, i + k) = CSum(m, q, j + k)
    BY <1>3, <1>4, <1>5, <2>2, Zenon
  <2>4. F[k + 1] = G[k + 1]
    BY <2>2, <2>3, Zenon
  <2>. QED
    BY <2>1, <2>4
<1>. HIDE DEF S
<1>9. \A u \in 0 .. e : u \in S
  BY <1>6, <1>8, UpTo
<1>10. e \in S
  BY <1>9
<1>11. F[e + 1] = G[e + 1] /\ e + 1 = n
  BY <1>7, <1>10 DEF S
<1>. QED
  BY <1>1, <1>2, <1>11 DEF SumOf

\* A target has the bytes of the target, ...
LEMMA AtBytes ==
  ASSUME TypeInv, NEW i \in Nat, At(i)
  PROVE  /\ i + ts <= Len(text)
         /\ \A k \in 1 .. ts : text[i + k] = target[k]
<1>1. PICK n \in Nat : n = ts
  BY TargetLength
<1>2. PICK p \in Seq(Nat) : p = text
  BY DEF TypeInv
<1>3. i + n <= Len(p) /\ SubSeq(p, i + 1, i + n) = target
  BY <1>1, <1>2 DEF At
<1>4. \A k \in (i + 1) .. (i + n) : p[k] \in Nat
  <2>1. ASSUME NEW k \in (i + 1) .. (i + n) PROVE p[k] \in Nat
    <3>1. k \in 1 .. Len(p)
      BY <1>1, <1>3, LenProperties
    <3>. QED
      BY <3>1, ElementOfSeq
  <2>. QED
    BY <2>1
<1>5. PICK a \in Int, b \in Int : a = i + 1 /\ b = i + n
  BY <1>1
<1>6. \A k \in 1 .. b - a + 1 : SubSeq(p, a, b)[k] = p[a + k - 1]
  BY <1>4, <1>5, SubSeqProperties
<1>7. ASSUME NEW k \in 1 .. n PROVE p[i + k] = target[k]
  <2>1. k \in 1 .. b - a + 1 /\ a + k - 1 = i + k
    BY <1>1, <1>5
  <2>. QED
    BY <1>3, <1>5, <1>6, <2>1
<1>. QED
  BY <1>1, <1>2, <1>3, <1>7

\* ... so that its sum is that of the target.
LEMMA AtSum ==
  ASSUME TypeInv, NEW m, NEW i \in Nat, At(i)
  PROVE  SumAt(m, text, i) = SumAt(m, target, 0)
<1>1. PICK n : n = ts
  OBVIOUS
<1>2. PICK p, q : p = text /\ q = target
  OBVIOUS
<1>3. n \in Nat \ {0} /\ p \in Seq(Nat) /\ q \in Seq(Nat)
  BY <1>1, <1>2, TargetLength DEF TypeInv
<1>4. i + n <= Len(p) /\ \A k \in 1 .. n : p[i + k] = q[k]
  BY <1>1, <1>2, AtBytes
<1>5. PICK j \in Nat : j = 0
  OBVIOUS
<1>6. j + n <= Len(q)
  BY <1>1, <1>2, <1>3, <1>5 DEF ts
<1>7. SameBytes(p, i, q, j, n)
  BY <1>3, <1>4, <1>5 DEF SameBytes
<1>8. SumAt(m, p, i) = SumAt(m, q, j)
  BY <1>1, <1>3, <1>4, <1>6, <1>7, SumsSame
<1>. QED
  BY <1>2, <1>5, <1>8

----------------------------------------------------------------------------
(* The first match.                                                        *)

\* The least member of a set of offsets; S_NPOS of none.
Least(A) == IF A = {} THEN S_NPOS ELSE CHOOSE i \in A : \A j \in A : i <= j

\* No member of A lies below f, which is one.
Lowest(A, f) == A \subseteq Int /\ f \in A /\ \A j \in A : f <= j

\* It is the one that is lowest.
LEMMA LeastIs ==
  ASSUME NEW A, NEW f, Lowest(A, f)
  PROVE  Least(A) = f
<1>. USE DEF Lowest
<1>1. \A i \in A : (\A j \in A : i <= j) => i = f
  OBVIOUS
<1>2. (CHOOSE i \in A : \A j \in A : i <= j) = f
  BY <1>1
<1>. QED
  BY <1>2 DEF Least

\* The places where the target is.
Places == {i \in off .. ss - ts : At(i)}

\* First is the least of the places.
LEMMA FirstLeast == First = Least(Places) /\ First' = Least(Places')
BY DEF First, Least, Places

\* The sum is that of the window, and a search that has not changed modes has
\* passed no target and answers the first.
Exact ==
  /\ Searching => s <= ss /\ current = SumAt(mode, text, s - ts)
  /\ Searching /\ ~switched => \A i \in off .. s - ts : ~At(i)
  /\ mode = "done" /\ ~switched => found = First

\* The invariant of the searches.
FindInv == IInv /\ Exact

\* A search that ends with nothing left to find.
LEMMA EndsWithout ==
  ASSUME mode' = "done", found' = S_NPOS,
         ~switched' => \A i \in off' .. ss' - ts' : ~At(i)'
  PROVE  Exact'
<1>1. ~switched' => Places' = {}
  BY DEF Places
<1>2. ~switched' => First' = S_NPOS
  BY <1>1, FirstLeast DEF Least
<1>. QED
  BY <1>2 DEF Exact, Searching

\* A search that ends with the first target there is.
LEMMA EndsWith ==
  ASSUME mode' = "done", ss' \in Int, ts' \in Int, off' \in Int,
         ~switched' => /\ found' \in off' .. ss' - ts' /\ At(found)'
                       /\ \A i \in off' .. ss' - ts' : At(i)' => found' <= i
  PROVE  Exact'
<1>1. ASSUME ~switched' PROVE First' = found'
  <2>1. PICK A, f : A = Places' /\ f = found'
    OBVIOUS
  <2>2. Places' = {i \in off' .. ss' - ts' : At(i)'}
    BY DEF Places
  <2>5. A \subseteq Int /\ \A j \in A : f <= j
    <3>1. ASSUME NEW j \in A PROVE j \in Int /\ f <= j
      <4>1. j \in off' .. ss' - ts' /\ At(j)'
        BY <2>1, <2>2
      <4>2. found' <= j
        BY <1>1, <4>1, Zenon
      <4>. QED
        BY <2>1, <4>1, <4>2
    <3>. QED
      BY <3>1
  <2>6. f \in A
    <3>1. f \in off' .. ss' - ts' /\ At(f)'
      BY <1>1, <2>1 DEF At
    <3>. QED
      BY <2>1, <2>2, <3>1
  <2>4. Lowest(A, f)
    BY <2>5, <2>6 DEF Lowest
  <2>3. Least(A) = f
    BY <2>4, LeastIs
  <2>. QED
    BY <2>1, <2>3, FirstLeast
<1>. QED
  BY <1>1 DEF Exact, Searching

\* Where the text and the target stay, targets stay.
LEMMA AtStays ==
  ASSUME UNCHANGED <<text, target>>
  PROVE  ts' = ts /\ \A i : At(i)' <=> At(i)
BY DEF At, ts

\* The sum over n bytes, where n is no part of the state.
Sum(m, p, i, n) ==
  LET sum[k \in 1 .. n] == IF k = 1 THEN 0 ELSE sum[k - 1] + CSum(m, p, i + k - 1)
  IN  sum[n]

\* SumAt is that sum, now ...
LEMMA SumNow == ASSUME NEW m, NEW p, NEW i PROVE SumAt(m, p, i) = Sum(m, p, i, ts)
BY DEF SumAt, Sum

\* ... and in the next state.
LEMMA SumNext == SumAt(mode, text, s - ts)' = Sum(mode', text', s' - ts', ts')
BY DEF SumAt, Sum

\* The first window: what comes before the first byte of a target is none.
LEMMA StartsExact ==
  ASSUME TypeInv, UNCHANGED <<text, target>>, NEW m \in {"fast", "slow"}, NEW from \in Nat,
         Starts(m, from, ss'), ss' \in Nat, ss' <= Len(text), off' \in Nat,
         switched' \/ off' = from
  PROVE  Exact'
<1>1. PICK n, size : n = ts /\ size = ss'
  OBVIOUS
<1>2. n \in Nat /\ n > 0 /\ size \in Nat /\ ts' = n
  BY <1>1, TargetLength, AtStays
<1>3. \A i : At(i)' <=> At(i)
  BY AtStays
<1>. DEFINE heads == {i \in from .. size - 1 : text[i + 1] = target[1]}
<1>4. ASSUME NEW i \in from .. size - n, At(i) PROVE i \in heads
  <2>1. i \in Nat /\ i \in from .. size - 1
    BY <1>2
  <2>2. 1 \in 1 .. ts
    BY <1>1, <1>2
  <2>3. text[i + 1] = target[1]
    BY <1>4, <2>1, <2>2, AtBytes
  <2>. QED
    BY <2>1, <2>3
<1>5. heads \subseteq Int
  OBVIOUS
<1>6. \/ heads = {} /\ Return(S_NPOS)
      \/ \E head \in heads :
           /\ \A i \in heads : head <= i
           /\ IF size - head < n THEN Return(S_NPOS)
              ELSE IF At(head) THEN Return(head)
              ELSE mode' = m /\ s' = head + n /\ current' = SumAt(m, text, head)
  BY <1>1 DEF Starts
<1>. HIDE DEF heads
<1>7. CASE heads = {} /\ Return(S_NPOS)
  <2>1. mode' = "done" /\ found' = S_NPOS
    BY <1>7 DEF Return
  <2>2. ASSUME ~switched', NEW i \in off' .. ss' - ts' PROVE ~At(i)'
    BY <1>1, <1>2, <1>3, <1>4, <1>7, <2>2
  <2>. QED
    BY <2>1, <2>2, EndsWithout
<1>8. ASSUME NEW head \in heads, \A i \in heads : head <= i,
             IF size - head < n THEN Return(S_NPOS)
             ELSE IF At(head) THEN Return(head)
             ELSE mode' = m /\ s' = head + n /\ current' = SumAt(m, text, head)
      PROVE  Exact'
  <2>1. head \in from .. size - 1
    BY DEF heads
  <2>2. CASE size - head < n
    <3>1. mode' = "done" /\ found' = S_NPOS
      BY <1>8, <2>2 DEF Return
    <3>2. ASSUME ~switched', NEW i \in off' .. ss' - ts' PROVE ~At(i)'
      <4>1. i \in from .. size - n
        BY <1>1, <1>2, <3>2
      <4>2. ~ (head <= i)
        BY <1>2, <2>1, <2>2, <4>1
      <4>. QED
        BY <1>3, <1>4, <1>8, <4>1, <4>2
    <3>. QED
      BY <3>1, <3>2, EndsWithout
  <2>3. CASE ~ (size - head < n) /\ At(head)
    <3>1. mode' = "done" /\ found' = head
      BY <1>8, <2>3 DEF Return
    <3>2. ASSUME ~switched'
          PROVE  /\ found' \in off' .. ss' - ts' /\ At(found)'
                 /\ \A i \in off' .. ss' - ts' : At(i)' => found' <= i
      <4>1. head \in from .. size - n /\ off' .. ss' - ts' = from .. size - n
        <5>1. off' = from /\ ss' = size /\ ts' = n
          BY <1>1, <1>2, <3>2
        <5>2. head \in from .. size - n
          BY <1>2, <2>1, <2>3
        <5>. QED
          BY <5>1, <5>2
      <4>2. At(found)'
        BY <2>3, <3>1 DEF At, ts
      <4>3. ASSUME NEW i \in from .. size - n, At(i)' PROVE head <= i
        <5>1. i \in heads
          BY <1>3, <1>4, <4>3
        <5>. QED
          BY <1>8, <5>1
      <4>. QED
        BY <3>1, <4>1, <4>2, <4>3
    <3>3. ss' \in Int /\ ts' \in Int /\ off' \in Int
      BY <1>1, <1>2
    <3>. QED
      BY <3>1, <3>2, <3>3, EndsWith
  <2>4. CASE ~ (size - head < n) /\ ~At(head)
    <3>1. mode' = m /\ s' = head + n /\ current' = SumAt(m, text, head)
      BY <1>8, <2>4
    <3>2. s' - ts' = head /\ s' <= ss'
      <4>1. s' = head + n /\ ts' = n /\ ss' = size
        BY <1>1, <1>2, <3>1
      <4>2. head \in Int /\ head + n <= size
        BY <1>2, <2>1, <2>4
      <4>3. (head + n) - n = head
        BY <1>2, <4>2
      <4>. QED
        BY <4>1, <4>2, <4>3
    <3>3. current' = SumAt(mode, text, s - ts)'
      <4>1. current' = Sum(m, text, head, ts)
        BY <3>1, SumNow
      <4>2. s' - ts' = head /\ text' = text /\ mode' = m /\ ts' = ts
        BY <1>1, <1>2, <3>1, <3>2
      <4>3. current' = Sum(mode', text', s' - ts', ts')
        BY <4>1, <4>2, Zenon
      <4>. QED
        BY <4>3, SumNext
    <3>4. ASSUME ~switched', NEW i \in off' .. s' - ts' PROVE ~At(i)'
      <4>1. i \in from .. head
        BY <3>2, <3>4
      <4>2. CASE i = head
        BY <1>3, <2>4, <4>2
      <4>3. CASE i # head
        <5>1. i \in from .. size - n /\ ~ (head <= i)
          BY <1>2, <2>1, <2>4, <4>1, <4>3
        <5>. QED
          BY <1>3, <1>4, <1>8, <5>1
      <4>. QED
        BY <4>2, <4>3
    <3>. QED
      BY <3>1, <3>2, <3>3, <3>4 DEF Exact, Searching
  <2>. QED
    BY <2>2, <2>3, <2>4
<1>. QED
  BY <1>6, <1>7, <1>8

\* A search that starts.
LEMMA FindrExact ==
  ASSUME TypeInv, UNCHANGED <<text, target>>,
         NEW from \in Nat, NEW max_off \in Nat, ss_findr(from, max_off)
  PROVE  Exact'
<1>1. ss' \in Nat /\ ss' <= Len(text) /\ off' = from
  BY FindrKept
<1>2. CASE Starts("fast", from, ss')
  BY <1>1, <1>2, StartsExact
<1>3. CASE (ss' = 0 \/ from + ts > ss') /\ Return(S_NPOS)
  <2>1. mode' = "done" /\ found' = S_NPOS
    BY <1>3 DEF Return
  <2>2. ts' = ts /\ ts \in Nat /\ ts > 0
    BY TargetLength, AtStays
  <2>3. ASSUME NEW i \in off' .. ss' - ts' PROVE FALSE
    <3>1. PICK n, size : n = ts /\ size = ss'
      OBVIOUS
    <3>2. n \in Nat /\ size \in Nat /\ n > 0 /\ (size = 0 \/ from + n > size)
      BY <1>1, <1>3, <2>2, <3>1
    <3>3. i \in from .. size - n
      BY <1>1, <2>2, <2>3, <3>1
    <3>. QED
      BY <3>2, <3>3
  <2>. QED
    BY <2>1, <2>3, EndsWithout
<1>. QED
  BY <1>2, <1>3 DEF ss_findr

\* The window moves on by one byte, and is no target.
LEMMA MovesOn ==
  ASSUME TypeInv, WindowInside, Exact, Searching, s < ss, ~At(s + 1 - ts),
         UNCHANGED <<text, target, ss, off, mode, switched>>,
         s' = s + 1, current' = SumAt(mode, text, s + 1 - ts)
  PROVE  Exact'
<1>1. s \in Nat /\ off \in Nat /\ ss \in Nat /\ ts \in Nat /\ ts' = ts /\ off <= s - ts
  BY TargetLength, AtStays DEF TypeInv, WindowInside
<1>2. s' - ts' = s + 1 - ts /\ s' <= ss'
  BY <1>1
<1>3. current' = SumAt(mode, text, s - ts)'
  <2>1. PICK i : i = s + 1 - ts
    OBVIOUS
  <2>2. current' = Sum(mode, text, i, ts)
    BY <2>1, SumNow
  <2>3. current' = Sum(mode', text', s' - ts', ts')
    BY <1>1, <1>2, <2>1, <2>2, Zenon
  <2>. QED
    BY <2>3, SumNext
<1>4. ASSUME ~switched', NEW i \in off' .. s' - ts' PROVE ~At(i)'
  <2>1. i \in off .. s + 1 - ts /\ ~switched
    BY <1>2, <1>4
  <2>2. CASE i = s + 1 - ts
    <3>1. ~At(i)
      BY <2>2
    <3>. QED
      BY <3>1, AtStays
  <2>3. CASE i # s + 1 - ts
    <3>1. i \in off .. s - ts
      BY <1>1, <2>1, <2>3
    <3>2. ~At(i)
      BY <2>1, <3>1 DEF Exact
    <3>. QED
      BY <3>2, AtStays
  <2>. QED
    BY <2>2, <2>3
<1>. QED
  BY <1>2, <1>3, <1>4 DEF Exact, Searching

\* A failed comparison, and perhaps the change of mode.
LEMMA CollidedExact ==
  ASSUME TypeInv, WindowInside, Exact, Searching, s < ss, ~At(s + 1 - ts),
         UNCHANGED <<text, target, ss, off>>,
         NEW sum, sum = SumAt(mode, text, s + 1 - ts), Collided(s + 1, sum)
  PROVE  Exact'
<1>1. CASE switched' = TRUE /\ Resume(s + 1)
  <2>1. PICK e \in Nat : e = s + 1
    BY DEF TypeInv
  <2>2. Starts("slow", e, ss') /\ switched'
    BY <1>1, <2>1 DEF Resume
  <2>3. ss' \in Nat /\ ss' <= Len(text) /\ off' \in Nat
    BY DEF TypeInv
  <2>. QED
    BY <2>2, <2>3, StartsExact
<1>2. CASE s' = s + 1 /\ current' = sum /\ UNCHANGED <<mode, switched, found>>
  BY <1>2, MovesOn
<1>. QED
  BY <1>1, <1>2 DEF Collided

\* The window moves: where its sum differs from that of the target it is none.
LEMMA WindowExact ==
  ASSUME TypeInv, WindowInside, Exact, Window, UNCHANGED <<text, target>>
  PROVE  Exact'
<1>1. Searching /\ s < ss /\ UNCHANGED <<ss, off>>
  BY DEF Window, Searching
<1>2. /\ s \in Nat /\ off \in Nat /\ ss \in Nat /\ ss <= Len(text) /\ Len(text) \in Nat
      /\ ts \in Nat /\ ts > 0 /\ off <= s - ts
  BY <1>1, TargetLength DEF TypeInv, WindowInside
<1>3. PICK i \in Nat, j \in Nat : i = s - ts /\ j = i + 1
  BY <1>2
<1>4. j = s + 1 - ts /\ s = i + ts /\ j + ts <= Len(text)
  BY <1>1, <1>2, <1>3
<1>5. PICK sum : sum = current + WindowMove(mode)
  OBVIOUS
<1>6. sum = SumAt(mode, text, j)
  <2>1. PICK m, p, n : m = mode /\ p = text /\ n = ts
    OBVIOUS
  <2>2. p \in Seq(Nat) /\ n \in Nat \ {0} /\ j + n <= Len(p)
    BY <1>2, <1>4, <2>1 DEF TypeInv
  <2>3. SumAt(m, p, j) = SumAt(m, p, i) + (CSum(m, p, i + n) - CSum(m, p, j))
    BY <1>3, <2>1, <2>2, SumMoves
  <2>4. current = SumAt(m, p, i)
    BY <1>1, <1>3, <2>1 DEF Exact
  <2>5. i + n = s
    BY <1>4, <2>1
  <2>6. WindowMove(mode) = CSum(m, p, s) - CSum(m, p, j)
    BY <1>4, <2>1 DEF WindowMove
  <2>. QED
    BY <1>5, <2>1, <2>3, <2>4, <2>5, <2>6
<1>7. At(j) => sum = SumAt(mode, target, 0)
  BY <1>6, AtSum
<1>8. CASE sum = SumAt(mode, target, 0) /\ At(j) /\ Return(j)
  <2>1. mode' = "done" /\ found' = j
    BY <1>8 DEF Return
  <2>2. ss' = ss /\ off' = off /\ ts' = ts /\ switched' = switched
    BY <1>1, <1>4, <1>5, <1>8, AtStays DEF Window
  <2>3. ASSUME ~switched'
        PROVE  /\ found' \in off' .. ss' - ts' /\ At(found)'
               /\ \A k \in off' .. ss' - ts' : At(k)' => found' <= k
    <3>1. j \in off' .. ss' - ts'
      BY <1>1, <1>2, <1>3, <1>4, <2>2
    <3>2. At(found)'
      BY <1>8, <2>1 DEF At, ts
    <3>3. ASSUME NEW k \in off' .. ss' - ts', At(k)' PROVE j <= k
      <4>1. At(k) /\ k \in Int /\ off <= k /\ ~switched
        BY <2>2, <2>3, <3>3, AtStays
      <4>2. k \notin off .. s - ts
        BY <1>1, <4>1 DEF Exact
      <4>. QED
        BY <1>2, <1>3, <4>1, <4>2
    <3>. QED
      BY <2>1, <3>1, <3>2, <3>3
  <2>4. ss' \in Int /\ ts' \in Int /\ off' \in Int
    BY <1>2, <2>2
  <2>. QED
    BY <2>1, <2>3, <2>4, EndsWith
<1>9. CASE ~At(j) /\ Collided(s + 1, sum)
  <2>1. ~At(s + 1 - ts) /\ sum = SumAt(mode, text, s + 1 - ts)
    BY <1>4, <1>6, <1>9
  <2>. QED
    BY <1>1, <1>9, <2>1, CollidedExact
<1>10. CASE ~At(j) /\ s' = s + 1 /\ current' = sum /\ UNCHANGED <<mode, switched>>
  <2>1. ~At(s + 1 - ts) /\ current' = SumAt(mode, text, s + 1 - ts)
    BY <1>4, <1>6, <1>10
  <2>. QED
    BY <1>1, <1>10, <2>1, MovesOn
<1>. QED
  BY <1>4, <1>5, <1>7, <1>8, <1>9, <1>10 DEF Window

\* The window has reached the end without a match.
LEMMA ExhaustedExact ==
  ASSUME TypeInv, Exact, Exhausted, UNCHANGED <<text, target>>
  PROVE  Exact'
<1>1. /\ Searching /\ s >= ss /\ mode' = "done" /\ found' = S_NPOS
      /\ UNCHANGED <<ss, off, switched>>
  BY DEF Exhausted, Searching, Return
<1>2. s = ss
  BY <1>1 DEF TypeInv, Exact
<1>3. ASSUME ~switched', NEW i \in off' .. ss' - ts' PROVE ~At(i)'
  <2>1. i \in off .. s - ts /\ ~switched
    BY <1>1, <1>2, <1>3, AtStays
  <2>2. ~At(i)
    BY <1>1, <2>1 DEF Exact
  <2>. QED
    BY <2>2, AtStays
<1>. QED
  BY <1>1, <1>3, EndsWithout

\* Where the search is left alone, so is what is known of it.
LEMMA SearchKept ==
  ASSUME Exact, UNCHANGED <<text, target>>, UNCHANGED search
  PROVE  Exact'
<1>1. /\ UNCHANGED <<ss, off, mode, s, current, switched, found>>
      /\ ts' = ts
  BY AtStays DEF search
<1>2. ASSUME Searching PROVE current' = SumAt(mode, text, s - ts)'
  <2>1. PICK i : i = s - ts
    OBVIOUS
  <2>2. current' = Sum(mode, text, i, ts)
    BY <1>1, <1>2, <2>1, SumNow DEF Exact
  <2>3. current' = Sum(mode', text', s' - ts', ts')
    BY <1>1, <2>1, <2>2, Zenon
  <2>. QED
    BY <2>3, SumNext
<1>3. ASSUME Searching, ~switched, NEW i \in off' .. s' - ts' PROVE ~At(i)'
  <2>1. i \in off .. s - ts
    BY <1>1, <1>3
  <2>2. ~At(i)
    BY <1>3, <2>1 DEF Exact
  <2>. QED
    BY <2>2, AtStays
<1>4. First' = First
  <2>1. Places' = Places
    <3>1. Places' = {i \in off' .. ss' - ts' : At(i)'}
      BY DEF Places
    <3>2. \A i \in off' .. ss' - ts' : At(i)' <=> At(i)
      BY AtStays
    <3>. QED
      BY <1>1, <3>1, <3>2 DEF Places
  <2>. QED
    BY <2>1, FirstLeast
<1>. QED
  BY <1>1, <1>2, <1>3, <1>4 DEF Exact, Searching

\* Every step keeps it.
LEMMA NextExact ==
  ASSUME SearchAssumption, FindInv, [Next]_vars
  PROVE  FindInv'
<1>1. IInv'
  BY NextIInv DEF FindInv
<1>2. TypeInv /\ WindowInside /\ Exact
  BY DEF FindInv, IInv
<1>3. CASE UNCHANGED vars
  <2>1. UNCHANGED <<text, target>> /\ UNCHANGED search
    BY <1>3 DEF vars
  <2>. QED
    BY <1>1, <1>2, <2>1, SearchKept DEF FindInv
<1>4. CASE Call
  <2>1. Len(text) \in Nat
    BY <1>2, TargetLength
  <2>2. PICK from \in Nat, max_off \in Nat : ss_findr(from, max_off)
    <3>1. CASE FindCalled
      <4>1. PICK from \in 0 .. MaxOff, max_off \in {Len(text), Len(text) - 1} :
              max_off >= 0 /\ ss_findr(from, max_off)
        BY <3>1 DEF FindCalled
      <4>2. from \in Nat /\ max_off \in Nat
        BY <2>1, <4>1
      <4>. QED
        BY <4>1, <4>2
    <3>2. CASE SplitCalled
      BY <2>1, <3>2 DEF SplitCalled
    <3>. QED
      BY <1>4, <3>1, <3>2 DEF Call
  <2>3. UNCHANGED <<text, target>>
    BY <1>4 DEF Call
  <2>. QED
    BY <1>1, <1>2, <2>2, <2>3, FindrExact DEF FindInv
<1>5. CASE Step
  <2>1. UNCHANGED <<text, target>>
    BY <1>5 DEF Step
  <2>2. CASE Window \/ Exhausted
    BY <1>1, <1>2, <2>1, <2>2, WindowExact, ExhaustedExact DEF FindInv
  <2>3. CASE FindReturns
    BY <1>1, <1>2, <2>1, <2>3, SearchKept DEF FindReturns, FindInv
  <2>4. CASE SplitNext
    <3>1. CASE UNCHANGED search
      BY <1>1, <1>2, <2>1, <3>1, SearchKept DEF FindInv
    <3>2. CASE found # S_NPOS /\ ss_findr(found + ts, Len(text))
      <4>1. call = "ss_split" /\ mode = "done"
        BY <2>4 DEF SplitNext
      <4>2. found \in Nat /\ ts \in Nat /\ Len(text) \in Nat
        BY <1>2, <3>2, <4>1, PieceFits, TargetLength DEF FindInv
      <4>3. PICK from, max_off : from = found + ts /\ max_off = Len(text)
        OBVIOUS
      <4>5. from \in Nat /\ max_off \in Nat
        BY <4>2, <4>3
      <4>4. ss_findr(from, max_off)
        BY <3>2, <4>3
      <4>. QED
        BY <1>1, <1>2, <2>1, <4>4, <4>5, FindrExact DEF FindInv
    <3>. QED
      BY <2>4, <3>1, <3>2 DEF SplitNext
  <2>. QED
    BY <1>1, <1>5, <2>2, <2>3, <2>4 DEF Step, FindInv
<1>. QED
  BY <1>1, <1>3, <1>4, <1>5, <1>2 DEF Next, FindInv

----------------------------------------------------------------------------
(* The theorems.                                                           *)

\* ss_find and ss_split never take for the target what is not one, and never
\* one outside the part they search, also when the search changes modes.
THEOREM SearchFindsTarget ==
  ASSUME SearchAssumption
  PROVE  Spec => []FoundIsTarget
<1>1. Init => IInv
  BY InitIInv
<1>2. IInv /\ [Next]_vars => IInv'
  BY NextIInv
<1>3. IInv => FoundIsTarget
  BY DEF IInv
<1>. QED
  BY <1>1, <1>2, <1>3, PTL DEF Spec

\* The substrings ss_split gives and the separators between them are the text:
\* no byte is lost, none is in two, wherever the references run out.
THEOREM SplitIsExact ==
  ASSUME SearchAssumption
  PROVE  Spec => []SplitExact
<1>1. Init => IInv
  BY InitIInv
<1>2. IInv /\ [Next]_vars => IInv'
  BY NextIInv
<1>3. IInv => SplitExact
  BY DEF IInv
<1>. QED
  BY <1>1, <1>2, <1>3, PTL DEF Spec

\* The sum that is moved along stays that of the window, in both modes, and a
\* search that has not changed modes answers the first match, for every text,
\* target and offset: nothing is passed over by comparing sums first.
THEOREM SearchFindExact ==
  ASSUME SearchAssumption
  PROVE  Spec => []FindExact
<1>1. Init => FindInv
  BY InitIInv DEF Init, FindInv, Exact, Searching
<1>2. FindInv /\ [Next]_vars => FindInv'
  BY NextExact
<1>3. FindInv => FindExact
  BY DEF FindInv, Exact, FindExact, IInv, Searching
<1>. QED
  BY <1>1, <1>2, <1>3, PTL DEF Spec
=============================================================================
