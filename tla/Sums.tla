-------------------------------- MODULE Sums --------------------------------
(***************************************************************************)
(* The sums of sequences of numbers, as recursive functions.               *)
(***************************************************************************)
EXTENDS Integers, Sequences

TotalUpTo(s) ==
    LET total[n \in 0..Len(s)] == IF n = 0 THEN 0 ELSE total[n - 1] + s[n]
    IN  total
Total(s) == TotalUpTo(s)[Len(s)]
=============================================================================
