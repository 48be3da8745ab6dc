------------------------------- MODULE FreshRun -------------------------------
(***************************************************************************)
(* What `kue run <name>` promises, with no cache in sight: a run takes the *)
(* source its owner publishes at one moment of the run, and executes that  *)
(* source or nothing.                                                      *)
(***************************************************************************)
CONSTANTS Proc, Owner, Content, None

VARIABLES
    current,    \* what each owner publishes
    holding,    \* the source a run has taken
    ran         \* the source a run has executed

vars == <<current, holding, ran>>

Init ==
    /\ current = [o \in Owner |-> None]
    /\ holding = [p \in Proc |-> None]
    /\ ran = [p \in Proc |-> None]

Publish(o, c) ==
    /\ current' = [current EXCEPT ![o] = c]
    /\ UNCHANGED <<holding, ran>>

Begin(p) ==
    /\ holding' = [holding EXCEPT ![p] = None]
    /\ ran' = [ran EXCEPT ![p] = None]
    /\ UNCHANGED current

Take(p, o) ==
    /\ holding[p] = None
    /\ current[o] # None
    /\ holding' = [holding EXCEPT ![p] = current[o]]
    /\ UNCHANGED <<current, ran>>

Run(p) ==
    /\ holding[p] # None
    /\ ran[p] = None
    /\ ran' = [ran EXCEPT ![p] = holding[p]]
    /\ UNCHANGED <<current, holding>>

Next ==
    \/ \E o \in Owner, c \in Content : Publish(o, c)
    \/ \E p \in Proc : Begin(p) \/ Run(p)
    \/ \E p \in Proc, o \in Owner : Take(p, o)

Spec == Init /\ [][Next]_vars

=============================================================================
