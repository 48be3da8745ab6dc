----------------------------- MODULE MCNameList -----------------------------
(* Finite instances of NameList for TLC.                                   *)
EXTENDS NameList, TLC

ProcSymmetry == Permutations(Proc)

=============================================================================
