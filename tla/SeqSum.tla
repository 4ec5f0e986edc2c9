------------------------------- MODULE SeqSum -------------------------------
(***************************************************************************)
(* The sum of a sequence of numbers, as the loops of the code add up the   *)
(* elements of a list from its head.                                       *)
(***************************************************************************)
EXTENDS Integers, Sequences

SumSeq(s) ==
    LET total[i \in 0..Len(s)] == IF i = 0 THEN 0 ELSE total[i - 1] + s[i]
    IN  total[Len(s)]
=============================================================================
