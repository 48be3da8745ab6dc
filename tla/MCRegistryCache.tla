--------------------------- MODULE MCRegistryCache ---------------------------
(* Finite instances of RegistryCache for TLC.                              *)
EXTENDS RegistryCache, TLC

CONSTANTS c1, c2

\* Both sources are .wsl, so that two sources can meet in one cache file.
MCSameExt == [c \in Content |-> "wsl"]

\* One source of each format, so that one version has two cache files.
MCMixedExt == (c1 :> "wsl") @@ (c2 :> "swsl")

ProcSymmetry == Permutations(Proc)

=============================================================================
