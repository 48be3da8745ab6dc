----------------------------- MODULE MCScaffold -----------------------------
(* Finite instances of Scaffold for TLC.                                   *)
EXTENDS Scaffold, TLC

CONSTANTS n1, n2, i1, m1, m2

(* Two names of one file, as my-flow and my_flow.                          *)
OneCamel == [n \in Name |-> i1]

(* The first and the last of the files; the others are written alike.      *)
FirstAndLast == <<"go.mod", "docker-compose.yml">>

(* Users do not edit kue's metadata.                                       *)
Sources == {<<k, i1>> : k \in {"module", "workflow"}} \cup {Manifest}

WithMetadata == Sources \cup {Meta("workflow", n1)}

(* The name of the second method ends with that of the first.              *)
SecondEndsWithFirst == {<<m2, m1>>}

=============================================================================
