-------------------------- MODULE MCRegistryUpload --------------------------
(* Finite instances of RegistryUpload for TLC.                             *)
EXTENDS RegistryUpload, TLC

ProcSymmetry == Permutations(Proc)

=============================================================================
