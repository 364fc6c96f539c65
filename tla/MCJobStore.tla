------------------------------ MODULE MCJobStore ------------------------------
(***************************************************************************)
(* Model-checking instance of JobStore: one job, two lease tokens.         *)
(***************************************************************************)
EXTENDS JobStore, TLC

TokenSymmetry == Permutations(Token)
=============================================================================
