----------------------------- MODULE MCInstall -----------------------------
(* Finite instances of Install for TLC.                                    *)
EXTENDS Install, TLC

CONSTANTS w1, w2, m1, m2

(* The second workflow shares one module with the first.                   *)
SharedNeeds == [w \in Workflow |-> IF w = w1 THEN {m1, m2} ELSE {m2}]

ContentSymmetry == Permutations(Content)

=============================================================================
