------------------------------- MODULE InPlace -------------------------------
(***************************************************************************)
(* What kue promises of a project in which it puts one thing after the     *)
(* other in place (workflows with their imports, modules with their shims  *)
(* and calls): what is reported is in place, and what is in place stays,   *)
(* whatever is put beside it and however that fails.                       *)
(*                                                                         *)
(* The promise ends when the write of a file that several things share is  *)
(* cut short.                                                              *)
(***************************************************************************)
CONSTANTS
    Item,
    Renewed         \* items that are taken out to be put in place again

VARIABLES
    placed,         \* items in place
    reported,       \* items reported to be in place
    cut             \* a write of a shared file was cut short

vars == <<placed, reported, cut>>

Init ==
    /\ placed \in SUBSET Item
    /\ reported = {}
    /\ cut = FALSE

(* Items come into place; a new command takes back what an earlier one has *)
(* reported, or a part of it.                                              *)
Put ==
    /\ ~cut
    /\ \E S \in SUBSET Item : placed' = placed \cup S
    /\ \E R \in SUBSET reported : reported' = R
    /\ UNCHANGED cut

Report(i) ==
    /\ ~cut
    /\ i \in placed
    /\ reported' = reported \cup {i}
    /\ UNCHANGED <<placed, cut>>

(* Only an item whose report was taken back may be out of place again.     *)
Renew(i) ==
    /\ ~cut
    /\ i \in Renewed \ reported
    /\ placed' = placed \ {i}
    /\ UNCHANGED <<reported, cut>>

CutShort == ~cut /\ cut' = TRUE

AfterCut == cut /\ cut' = TRUE

Next ==
    \/ Put
    \/ \E i \in Item : Report(i) \/ Renew(i)
    \/ CutShort
    \/ AfterCut

Spec == Init /\ [][Next]_vars

=============================================================================
