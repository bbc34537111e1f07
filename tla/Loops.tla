-------------------------------- MODULE Loops --------------------------------
(***************************************************************************)
(* Loops over sequences, in a form that the proof system can reason about: *)
(* recursive functions where SelectSeq and FoldLeft would stand.           *)
(***************************************************************************)
EXTENDS Naturals, Sequences

\* The elements of s that are in T, in their order: what a loop does not pass over.
Keep(s, T) ==
  LET kept[n \in 0..Len(s)] ==
        IF n = 0 THEN <<>>
        ELSE IF s[n] \in T THEN Append(kept[n - 1], s[n]) ELSE kept[n - 1]
  IN  kept[Len(s)]

\* What a loop over s makes of start, if step[e] is what the turn with the element e makes
\* of what there is.
FoldWith(step, start, s) ==
  LET after[n \in 0..Len(s)] == IF n = 0 THEN start ELSE step[s[n]][after[n - 1]]
  IN  after[Len(s)]

Total(numbers) == FoldWith([n \in Nat |-> [sum \in Nat |-> sum + n]], 0, numbers)
=============================================================================
