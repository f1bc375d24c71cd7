-------------------------------- MODULE Sums --------------------------------
(***************************************************************************)
(* A sum as a loop of the code computes it, value after value.  It is a    *)
(* recursive function, and not a fold of an operator, for the sake of the  *)
(* theorems about it.                                                      *)
(***************************************************************************)
EXTENDS Integers

\* The sum of the first n values of f.
SumTo(f, n) == LET sum[k \in 0..n] == IF k = 0 THEN 0 ELSE sum[k - 1] + f[k]
               IN  sum[n]
=============================================================================
