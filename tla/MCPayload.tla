------------------------------ MODULE MCPayload ------------------------------
(* Finite instances of Payload for TLC.  Workflows a and b lie in the root, *)
(* c and d in a directory cli; ka and kb are classes of actions.            *)
EXTENDS Payload, TLC

CONSTANTS a, b, c, d, e, ra, rb, rc, cc, bx, root, cli, ka, kb, ma, mb

InDir == [s \in Stem |-> IF s \in {a, b, e} THEN root ELSE cli]

(* ra, rb and rc are a, b and cli/c seen from the root, where cc, c, is     *)
(* none.  From cli, ra is cli/a: d, and cc is cli/c.  bx is b with its      *)
(* extension, or an alias or a comment after it.  e stands for the names    *)
(* that no workflow has.                                                   *)
Leads ==
    [x \in Dir |-> IF x = root THEN (ra :> a) @@ (rb :> b) @@ (rc :> c) @@ (cc :> e) @@ (bx :> e)
                   ELSE (ra :> d) @@ (rb :> e) @@ (rc :> e) @@ (cc :> c) @@ (bx :> e)]
Parsed ==
    [r \in Ref |-> IF r = bx THEN [path |-> rb, ext |-> "wsl"] ELSE [path |-> r, ext |-> None]]
Linked == (ka :> ma) @@ (kb :> mb)

-----------------------------------------------------------------------------
Import(r) == [kind |-> "import", ref |-> r]
Extends(r) == [kind |-> "extends", ref |-> r]

NoFile == [f \in File |-> Absent]
NoLocal == [x \in Class |-> None]
Alone ==
    [files |-> [NoFile EXCEPT ![<<a, "wsl">>] = <<>>], top |-> <<a, "wsl">>, rooted |-> FALSE,
     gomod |-> <<>>, uses |-> {}, vendored |-> [x \in Module |-> {}], local |-> NoLocal]

Texts(x, y) == {<<>>} \cup {<<u>> : u \in x} \cup {<<u, v>> : u \in x, v \in y}
Imports == {Import(r) : r \in {ra, rb, rc}}
Maybe == {Absent} \cup Texts(Imports, {Extends(rc)})

(* Workflows that import from the root and extend in the root and below it. *)
Referring ==
    {p \in {[Alone EXCEPT !.rooted = TRUE, !.top = t,
                          !.files = [NoFile EXCEPT ![<<a, "wsl">>] = x, ![<<b, "wsl">>] = y,
                                                   ![<<c, "wsl">>] = z, ![<<d, "wsl">>] = u,
                                                   ![<<b, "swsl">>] = w]] :
                t \in {<<a, "wsl">>, <<c, "wsl">>},
                x \in {Absent} \cup Texts({Import(rb), Import(rc), Extends(rb), Extends(bx)}, {Import(rc)}),
                y \in Maybe,
                z \in Texts(Imports \cup {Extends(ra)}, {Import(ra)}),
                u \in {Absent, <<Extends(cc)>>},
                w \in {Absent, <<>>}} :
        p.files[p.top] # Absent}

Entry(v, p, x) == [verb |-> v, opens |-> FALSE, path |-> p, version |-> x, arrow |-> FALSE]
Arrow(v, p, x) == [Entry(v, p, x) EXCEPT !.arrow = TRUE]
Open(v) == [Entry(v, None, None) EXCEPT !.opens = TRUE]
Close == Entry("close", None, None)

(* Files of go.mod whose blocks are of requirements and of replacements.    *)
Using ==
    {[Alone EXCEPT !.uses = {ka, kb}, !.gomod = <<own>> \o req \o rep,
                   !.vendored = [x \in Module |-> IF x = ma THEN v ELSE {}], !.local = q] :
        own \in {Entry("module", mb, None), Entry("exclude", ma, 1)},
        req \in {<<>>, <<Entry("require", ma, 1)>>,
                 <<Open("require"), Entry("entry", ma, 2), Entry("entry", mb, 1), Close>>},
        rep \in {<<>>, <<Arrow("replace", mb, None)>>,
                 <<Open("replace"), Arrow("entry", ma, None), Close>>},
        v \in {{}, {ka}},
        q \in {NoLocal, (ka :> None) @@ (kb :> mb)}}

Described == Referring \cup Using

-----------------------------------------------------------------------------
(* One project each for what kue does not do.                               *)
With(x, y) == {[Alone EXCEPT !.rooted = TRUE, !.top = x, !.files = y]}

ExtendsInDirectory ==
    With(<<c, "wsl">>, [NoFile EXCEPT ![<<c, "wsl">>] = <<Extends(ra)>>, ![<<d, "wsl">>] = <<>>])
Shadowed ==
    With(<<c, "wsl">>, [NoFile EXCEPT ![<<c, "wsl">>] = <<Extends(ra)>>, ![<<d, "wsl">>] = <<>>,
                                      ![<<a, "wsl">>] = <<>>])
Simplified ==
    With(<<a, "wsl">>, [NoFile EXCEPT ![<<a, "wsl">>] = <<Extends(rb)>>, ![<<b, "swsl">>] = <<>>])
WithExtension ==
    With(<<a, "wsl">>, [NoFile EXCEPT ![<<a, "wsl">>] = <<Extends(bx)>>, ![<<b, "wsl">>] = <<>>])

Read(x) == {[Alone EXCEPT !.uses = {ka}, !.gomod = x]}

Excluding == Read(<<Entry("require", ma, 2), Open("exclude"), Entry("entry", ma, 1), Close>>)
OtherVersion == Read(<<Entry("require", ma, 2), Arrow("replace", ma, 1)>>)
OneVersion ==
    Read(<<Entry("require", ma, 1), Open("replace"), Arrow("entry", ma, 1), Close>>)
InBlock ==
    Read(<<Open("require"), Entry("entry", ma, 2), Close>>)

=============================================================================
