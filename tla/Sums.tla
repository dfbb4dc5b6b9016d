-------------------------------- MODULE Sums --------------------------------
(***************************************************************************)
(* The total of a column: the sum of the values of a function.             *)
(***************************************************************************)
EXTENDS FiniteSetsExt

SumOver(f) == MapThenSumSet(LAMBDA x : f[x], DOMAIN f)
=============================================================================
