---------------------------- MODULE MCObjectStore ----------------------------
(***************************************************************************)
(* Model-checking instance of ObjectStore.                                 *)
(***************************************************************************)
EXTENDS ObjectStore, TLC

StoreSymmetry == Permutations(Object) \union Permutations(Call) \union Permutations(Key)
=============================================================================
