-------------------------------- MODULE Sums --------------------------------
(***************************************************************************)
(* The sum of the values a function takes on a set.  The function is a     *)
(* value and no operator, so that theorems about sums can quantify over    *)
(* it: SumTheorems.                                                        *)
(***************************************************************************)
EXTENDS Integers, FiniteSetsExt

SumOver(S, f) == MapThenSumSet(LAMBDA x : f[x], S)

\* All that a function has, a balance sheet's total.
Total(f) == SumOver(DOMAIN f, f)
=============================================================================
