--------------------------- MODULE MCJobAcceptance ---------------------------
(***************************************************************************)
(* Model-checking instance of JobAcceptance.                               *)
(***************************************************************************)
EXTENDS JobAcceptance, TLC

CallSymmetry == Permutations(Call) \union Permutations(Sweeper)
=============================================================================
