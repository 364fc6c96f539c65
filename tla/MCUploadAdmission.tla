-------------------------- MODULE MCUploadAdmission --------------------------
(***************************************************************************)
(* Model-checking instance of UploadAdmission.                             *)
(***************************************************************************)
EXTENDS UploadAdmission, TLC

RequestSymmetry == Permutations(Request)
=============================================================================
