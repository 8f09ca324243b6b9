-------------------------------- MODULE Text --------------------------------
(***************************************************************************)
(* What the scanners of this program share: a loop over the positions of a *)
(* text with an accumulator, written as a recursive function because the   *)
(* folds of the libraries walk over sets of positions.                     *)
(***************************************************************************)
EXTENDS Integers, SequencesExt

(* The accumulator after a step for each position first..last. *)
Scan(Step(_, _), base, first, last) ==
    LET acc[i \in Int] == IF i < first THEN base ELSE Step(acc[i - 1], i)
    IN  acc[last]

(* The positions of a character in a text. *)
Positions(t, c) == {i \in 1..Len(t) : t[i] = c}

(* What comes before the first c, and what comes after it. *)
Before(t, c) == IF Positions(t, c) = {} THEN t ELSE SubSeq(t, 1, Min(Positions(t, c)) - 1)
After(t, c)  == IF Positions(t, c) = {} THEN <<>> ELSE SubSeq(t, Min(Positions(t, c)) + 1, Len(t))
=============================================================================
