-------------------------------- MODULE Sums --------------------------------
(* The sum of a function over a finite set, for totals over rows or holdings. *)
EXTENDS FiniteSetsExt

SumOf(f, S) == MapThenSumSet(LAMBDA x : f[x], S)
=============================================================================
