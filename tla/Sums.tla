-------------------------------- MODULE Sums --------------------------------
(* The sum of the values of a function, in which the models state their     *)
(* totals (reduce with an addition, or SUM of a query, in the code).         *)
EXTENDS Integers, FiniteSetsExt

Sum(f) == MapThenSumSet(LAMBDA x : f[x], DOMAIN f)
=============================================================================
