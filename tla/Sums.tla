-------------------------------- MODULE Sums --------------------------------
(* The sum of a function's values on a finite set, as sum() gives it. *)
EXTENDS Integers, FiniteSets, FiniteSetsExt

Total(f, S) == MapThenSumSet(LAMBDA x : f[x], S)
=============================================================================
