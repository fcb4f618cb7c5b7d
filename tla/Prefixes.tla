------------------------------ MODULE Prefixes ------------------------------
(***************************************************************************)
(* What two sequences have in common: the loops of src/specdecode that     *)
(* compare a cached sequence with a new one from the start.                *)
(***************************************************************************)
EXTENDS Integers, Sequences

Smaller(a, b) == IF a < b THEN a ELSE b

\* The length of the longest common prefix.
CommonLength(s, t) ==
  CHOOSE n \in 0..Smaller(Len(s), Len(t)) :
    /\ SubSeq(s, 1, n) = SubSeq(t, 1, n)
    /\ n < Smaller(Len(s), Len(t)) => s[n + 1] # t[n + 1]
=============================================================================
