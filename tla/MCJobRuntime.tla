----------------------------- MODULE MCJobRuntime -----------------------------
(***************************************************************************)
(* Model-checking instances of JobRuntime.                                 *)
(***************************************************************************)
EXTENDS JobRuntime, TLC

ActorSymmetry ==
  Permutations(Token) \union Permutations(Consumer) \union Permutations(Sweeper)
=============================================================================
