-------------------------------- MODULE Sums --------------------------------
(***************************************************************************)
(* The sum of a sequence of numbers, as a recursive function of how many   *)
(* of them have been added, so that proofs can reason about it.            *)
(***************************************************************************)
EXTENDS Integers, Sequences

SumOf(numbers) ==
    LET sum[i \in 0 .. Len(numbers)] == IF i = 0 THEN 0 ELSE sum[i - 1] + numbers[i]
    IN  sum[Len(numbers)]
=============================================================================
