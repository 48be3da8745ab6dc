----------------------------- MODULE MCPackages -----------------------------
(* Finite instances of Packages for TLC.                                   *)
EXTENDS Packages, TLC

CONSTANTS core, redis, m1, m2, p1, p2

Apart == (m1 :> core) @@ (m2 :> redis)
Together == [m \in Module |-> core]

(* The name of redis begins with that of core, as std-core and std do.     *)
RedisIsLonger == {<<redis, core>>}

(* The modules.go that a project is created with.                          *)
Standard == [EmptySource EXCEPT !.block = TRUE, !.init = TRUE, !.enable = TRUE]
NoBlock == [Standard EXCEPT !.block = FALSE]
NoEnable == [Standard EXCEPT !.enable = FALSE]

Created == {Absent, Standard, NoBlock}
OneShape == {Standard}
Unusual == {NoEnable}

Described ==
    {Absent, Blank} \cup
    {[version |-> v, fields |-> {"name", "rest"}, parses |-> TRUE] : v \in {None, 1}}
WithModules == {[version |-> 1, fields |-> Field, parses |-> TRUE]}
NotJson == {[version |-> 1, fields |-> {"name", "rest"}, parses |-> FALSE]}

(* Answers to a look-up: the package under "data", or beside it.           *)
Answer(ok, text, refused, data) ==
    [ok |-> ok, text |-> text, refused |-> refused, data |-> data]

Details == {Answer(TRUE, "object", FALSE, d) : d \in {"fields", "items", "absent"}}

(* The status says that there is none, or the text does.                   *)
Denied ==
    [ok : {FALSE}, text : {"none", "plain", "object"}, refused : BOOLEAN,
     data : {"absent", "fields"}]
    \cup {Answer(TRUE, "none", FALSE, "absent"), Answer(TRUE, "object", TRUE, "absent")}
    \cup {Answer(TRUE, "object", FALSE, d) : d \in Void}

(* It is told in words, or by a "data" that is null.                       *)
DeniedInWords == Denied \cup {Answer(TRUE, "plain", FALSE, "absent")}
DeniedByNull == Denied \cup {Answer(TRUE, "object", FALSE, "absent")}

=============================================================================
