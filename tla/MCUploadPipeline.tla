-------------------------- MODULE MCUploadPipeline --------------------------
(***************************************************************************)
(* Model-checking instance of UploadPipeline.                              *)
(***************************************************************************)
EXTENDS UploadPipeline, TLC

PipelineSymmetry == Permutations(Call) \union Permutations(Request)
=============================================================================
