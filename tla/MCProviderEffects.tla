-------------------------- MODULE MCProviderEffects --------------------------
(***************************************************************************)
(* Model-checking instance of ProviderEffects.                             *)
(***************************************************************************)
EXTENDS ProviderEffects, TLC

ActorSymmetry == Permutations(Execution) \union Permutations(Reconciler)
=============================================================================
