-------------------------- MODULE MCWritePipeline --------------------------
(* WritePipeline on a small instance.                                       *)
EXTENDS WritePipeline

WriteSymmetry == Permutations(Writes) \cup Permutations(Users)

=============================================================================
