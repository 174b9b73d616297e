-------------------------------- MODULE Sums --------------------------------
(* Sums over finite sets.                                                   *)
EXTENDS Integers, Functions

SumOver(S, f) == FoldFunctionOnSet(+, 0, f, S)
=============================================================================
