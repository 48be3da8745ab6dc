------------------------------ MODULE Packages ------------------------------
(***************************************************************************)
(* `kue package` in the directory of a project (modules/pkg): enable       *)
(* writes a bootstrap shim for a Go module and edits modules/modules.go,   *)
(* publish rewrites kuetix.json and makes a version public on the          *)
(* registry, add and update send the descriptor, `kue package <name>`      *)
(* looks a package up.                                                     *)
(*                                                                         *)
(* modules.go is edited as text: an import path counts as there if it is   *)
(* found anywhere, and what a replacement does not find it leaves alone.   *)
(* Requests and answers may be lost; the registry's other users publish    *)
(* and withdraw versions of the package at any time.                       *)
(***************************************************************************)
EXTENDS Naturals, FiniteSets

CONSTANTS
    Proc,
    Module,         \* Go modules, by import path
    Segment,        \* names of packages
    Seg,            \* [Module -> Segment], the last element before a /vN
    Longer,         \* <<s, t>>: the name s is longer than t and begins with it
    Shapes,         \* what modules.go may look like at the start
    Version,        \* versions of the package
    Descriptors,    \* what kuetix.json may be at the start
    Shown, Denials, \* how the registry answers for a package it has, and has not
    Faults,         \* "stop": a write fails or kue dies; "request": it is lost
    MaxCommands, MaxWorld,
    Absent, None

VARIABLES
    modulesGo,      \* modules/modules.go
    shims,          \* modules/<segment>/bootstrap.go: the module it enables
    gomod,          \* go.mod names the project's module
    manifest,       \* kuetix.json
    public,         \* versions of the package that are public
    server,         \* the descriptor the registry holds
    pc,
    module,         \* the module to enable
    source,         \* the new text of modules.go
    info,           \* the descriptor read, and changed, from kuetix.json
    options,        \* options of publish, or the method of add and update
    told,           \* what the last command reported
    seen,           \* history: versions public during the command
    known,          \* history: whether the package was there during the command,
                    \* and the requests of the command that failed
    enabled,        \* history: modules reported as enabled
    owed,           \* history: the fields that kuetix.json had before kue changed it
    torn,           \* history: a write of modules.go was cut short
    commands, world

project == <<modulesGo, shims, gomod, manifest>>
registry == <<public, server>>
locals == <<module, source, info, options>>
history == <<enabled, owed, torn>>
bounds == <<commands, world>>
vars == <<project, registry, pc, locals, told, seen, known, history, bounds>>

-----------------------------------------------------------------------------
(* What matters of modules.go: its imports and calls of Enable, and        *)
(* whether it has an import block, an init and an Enable function.         *)
Source == [imports : SUBSET Segment, calls : SUBSET Segment,
           block : BOOLEAN, init : BOOLEAN, enable : BOOLEAN]

EmptySource == [imports |-> {}, calls |-> {}, block |-> FALSE, init |-> FALSE,
                enable |-> FALSE]

(* What is on the disk when s is half written.                             *)
Beginnings(s) ==
    {EmptySource,
     [s EXCEPT !.init = FALSE, !.enable = FALSE, !.calls = {}],
     [s EXCEPT !.enable = FALSE, !.calls = {}],
     [s EXCEPT !.calls = {}]}

(* kuetix.json: its version, and which of the other fields it has: "name", *)
(* "rest" of those that PackageInfo knows, "modules" that it does not.     *)
Field == {"name", "rest", "modules"}

Descriptor == [version : Version \cup {None}, fields : SUBSET Field, parses : BOOLEAN]

Blank == [version |-> None, fields |-> {}, parses |-> TRUE]
EmptyFile == [version |-> None, fields |-> {}, parses |-> FALSE]

Options == [version : Version \cup {None}, name : BOOLEAN]

Lines == {"none", "enabled", "listed", "published", "local", "unpublished", "sent",
          "found", "not found"}

(* What a look at the registry may find: a package is there once it is     *)
(* registered, and hidden from others as long as no version is public.     *)
Standing(v, d) ==
    (IF v # {} \/ d # None THEN {"there"} ELSE {}) \cup (IF v = {} THEN {"hidden"} ELSE {})

(* The answer to a look-up: a 2xx status or not, and what the code looks   *)
(* for in the text.  "data" may be missing, null or of another type than   *)
(* the two the code knows: absent, all the same.                           *)
Body == [ok : BOOLEAN, text : {"none", "plain", "object"},
         refused : BOOLEAN,     \* "success" is false
         data : {"absent", "noFields", "nameless", "unresolved", "fields", "noItems", "items"}]

ASSUME PackagesAssumption ==
    /\ Seg \in [Module -> Segment]
    /\ Longer \subseteq Segment \X Segment
    /\ Shapes \subseteq Source \cup {Absent}
    /\ Descriptors \subseteq Descriptor \cup {Absent}
    /\ Shown \subseteq Body /\ Denials \subseteq Body
    /\ Faults \subseteq {"stop", "request"}
    /\ MaxCommands \in Nat /\ MaxWorld \in Nat
    /\ Absent \notin Source /\ Absent \notin Descriptor /\ Absent \notin Module
    /\ None \notin Version /\ None \notin Source /\ None \notin Descriptor
    /\ None \notin Module /\ None \notin Options /\ None # Absent

TypeOK ==
    /\ modulesGo \in Source \cup {Absent}
    /\ shims \in [Segment -> Module \cup {Absent, None}]
    /\ gomod \in BOOLEAN
    /\ manifest \in Descriptor \cup {Absent}
    /\ public \subseteq Version
    /\ server \in Descriptor \cup {None}
    /\ pc \in [Proc -> {"idle", "shim", "fillShim", "edit", "openModules", "fillModules",
                        "readManifest", "openManifest", "fillManifest", "publish", "published",
                        "payload", "send", "sent", "detail", "install", "search"}]
    /\ module \in [Proc -> Module \cup {None}]
    /\ source \in [Proc -> Source \cup {None}]
    /\ info \in [Proc -> Descriptor \cup {None}]
    /\ options \in [Proc -> Options \cup {None}]
    /\ told \in [Proc -> [line : Lines, version : Version \cup {None}, listed : SUBSET Segment]]
    /\ seen \in [Proc -> SUBSET Version]
    /\ known \in [Proc -> SUBSET {"there", "hidden", "detail", "install"}]
    /\ enabled \subseteq Module
    /\ owed \subseteq Field
    /\ torn \in BOOLEAN
    /\ commands \in 0..MaxCommands
    /\ world \in 0..MaxWorld

Said(line, v, l) == [line |-> line, version |-> v, listed |-> l]
Nothing == Said("none", None, {})

Init ==
    /\ modulesGo \in Shapes
    /\ shims = [s \in Segment |-> Absent]
    /\ gomod \in BOOLEAN
    /\ manifest \in Descriptors
    /\ public = {} /\ server = None
    /\ pc = [p \in Proc |-> "idle"]
    /\ module = [p \in Proc |-> None]
    /\ source = [p \in Proc |-> None]
    /\ info = [p \in Proc |-> None]
    /\ options = [p \in Proc |-> None]
    /\ told = [p \in Proc |-> Nothing]
    /\ seen = [p \in Proc |-> {}]
    /\ known = [p \in Proc |-> {}]
    /\ enabled = {}
    /\ owed = IF manifest = Absent THEN {} ELSE manifest.fields
    /\ torn = FALSE
    /\ commands = 0 /\ world = 0

-----------------------------------------------------------------------------
Begin(p, label) ==
    /\ pc[p] = "idle" /\ commands < MaxCommands
    /\ commands' = commands + 1
    /\ pc' = [pc EXCEPT ![p] = label]
    /\ told' = [told EXCEPT ![p] = Nothing]
    /\ seen' = [seen EXCEPT ![p] = public]
    /\ known' = [known EXCEPT ![p] = Standing(public, server)]

(* The end of a command, and what it reports.                              *)
End(p, line, v) ==
    /\ pc' = [pc EXCEPT ![p] = "idle"]
    /\ told' = [told EXCEPT ![p] = Said(line, v, {})]
    /\ module' = [module EXCEPT ![p] = None]
    /\ source' = [source EXCEPT ![p] = None]
    /\ info' = [info EXCEPT ![p] = None]
    /\ options' = [options EXCEPT ![p] = None]
    /\ UNCHANGED <<seen, known, bounds>>

Fail(p) == End(p, "none", None)

Go(p, label) ==
    /\ pc' = [pc EXCEPT ![p] = label]
    /\ UNCHANGED <<told, seen, known, bounds>>

-----------------------------------------------------------------------------
(* enableModule: the shim, then modules.go.                                *)
Enable(p, m) ==
    /\ Begin(p, "shim")
    /\ module' = [module EXCEPT ![p] = m]
    /\ enabled' = enabled \ {m}
    /\ UNCHANGED <<project, registry, source, info, options, owed, torn, world>>

OpenShim(p) ==
    /\ pc[p] = "shim"
    /\ shims' = [shims EXCEPT ![Seg[module[p]]] = None]
    /\ Go(p, "fillShim")
    /\ UNCHANGED <<modulesGo, gomod, manifest, registry, locals, history>>

FillShim(p) ==
    /\ pc[p] = "fillShim"
    /\ shims' = [shims EXCEPT ![Seg[module[p]]] = module[p]]
    /\ Go(p, "edit")
    /\ UNCHANGED <<modulesGo, gomod, manifest, registry, locals, history>>

(* strings.Contains(content, importPath)                                   *)
Contains(s, t) == \E k \in s.imports : k = t \/ <<k, t>> \in Longer

WithImport(s, t) ==
    IF s.block \/ s.init THEN [s EXCEPT !.imports = @ \cup {t}, !.block = TRUE] ELSE s

(* Mutant: without an Enable function there is nothing to write.           *)
WithCallOrNone(s, t) == IF s.enable THEN [s EXCEPT !.calls = @ \cup {t}] ELSE None

(* Mutant: the call is put in place of the others.                         *)
WithCallAlone(s, t) == IF s.enable THEN [s EXCEPT !.calls = {t}] ELSE s

WithCall(s, t) == IF s.enable THEN [s EXCEPT !.calls = @ \cup {t}] ELSE s

CanEdit == modulesGo # Absent /\ gomod

(* addEnableCallToModules, up to its write.                                *)
EditFailed(p) ==
    /\ pc[p] = "edit" /\ ~CanEdit
    /\ Fail(p)
    /\ UNCHANGED <<project, registry, history>>

Enabled(p) ==
    /\ enabled' = enabled \cup {module[p]}
    /\ End(p, "enabled", None)

EnabledAlready(p) ==
    /\ pc[p] = "edit" /\ CanEdit /\ Contains(modulesGo, Seg[module[p]])
    /\ Enabled(p)
    /\ UNCHANGED <<project, registry, owed, torn>>

EditModules(p) ==
    LET s == Seg[module[p]] IN
    /\ pc[p] = "edit" /\ CanEdit /\ ~Contains(modulesGo, s)
    /\ source' = [source EXCEPT ![p] = WithCall(WithImport(modulesGo, s), s)]
    /\ Go(p, "openModules")
    /\ UNCHANGED <<project, registry, module, info, options, history>>

OpenModules(p) ==
    /\ pc[p] = "openModules"
    /\ modulesGo' = EmptySource
    /\ Go(p, "fillModules")
    /\ UNCHANGED <<shims, gomod, manifest, registry, locals, history>>

FillModules(p) ==
    /\ pc[p] = "fillModules"
    /\ modulesGo' = source[p]
    /\ Enabled(p)
    /\ UNCHANGED <<shims, gomod, manifest, registry, owed, torn>>

-----------------------------------------------------------------------------
(* publishPackage: the options become part of kuetix.json.                 *)
Publish(p, o) ==
    /\ Begin(p, "readManifest")
    /\ options' = [options EXCEPT ![p] = o]
    /\ UNCHANGED <<project, registry, module, source, info, history, world>>

Parses == manifest # Absent /\ manifest.parses

(* A kuetix.json that does not parse is as good as none.                   *)
Parsed == IF Parses THEN manifest ELSE Blank

(* Mutant: only what the command line gives is written.                    *)
UpdatedAnew(d, o) ==
    [version |-> o.version, fields |-> IF o.name THEN {"name"} ELSE {}, parses |-> TRUE]

(* The options, and the fields of d that PackageInfo has.                  *)
Updated(d, o) ==
    [version |-> IF o.version = None THEN d.version ELSE o.version,
     fields |-> (d.fields \cap {"name", "rest"}) \cup IF o.name THEN {"name"} ELSE {},
     parses |-> TRUE]

NoName(p) ==
    /\ pc[p] = "readManifest" /\ "name" \notin Updated(Parsed, options[p]).fields
    /\ Fail(p)
    /\ UNCHANGED <<project, registry, history>>

ReadManifest(p) ==
    LET d == Updated(Parsed, options[p]) IN
    /\ pc[p] = "readManifest" /\ "name" \in d.fields
    /\ info' = [info EXCEPT ![p] = d]
    /\ Go(p, "openManifest")
    /\ UNCHANGED <<project, registry, module, source, options, history>>

OpenManifest(p) ==
    /\ pc[p] = "openManifest"
    /\ manifest' = EmptyFile
    /\ Go(p, "fillManifest")
    /\ UNCHANGED <<modulesGo, shims, gomod, registry, locals, history>>

FillManifest(p) ==
    /\ pc[p] = "fillManifest"
    /\ manifest' = info[p]
    /\ Go(p, "publish")
    /\ UNCHANGED <<modulesGo, shims, gomod, registry, locals, history>>

(* Without a login or a version there is nothing to ask for.               *)
PublishLocally(p) ==
    /\ pc[p] = "publish"
    /\ End(p, "local", None)
    /\ UNCHANGED <<project, registry, history>>

-----------------------------------------------------------------------------
(* A change of the registry, and what the commands under way may see.      *)
Registry(v, d) ==
    /\ public' = v /\ server' = d
    /\ seen' = [q \in Proc |-> IF pc[q] = "idle" THEN seen[q] ELSE seen[q] \cup v]
    /\ known' = [q \in Proc |-> IF pc[q] = "idle" THEN known[q]
                                ELSE known[q] \cup Standing(v, d)]

(* POST /package/publish: the registry has that version or refuses.        *)
SendPublish(p) ==
    /\ pc[p] = "publish" /\ info[p].version # None
    /\ server # None /\ server.version = info[p].version
    /\ Registry(public \cup {info[p].version}, server)
    /\ pc' = [pc EXCEPT ![p] = "published"]
    /\ UNCHANGED <<project, locals, told, history, bounds>>

Published(p) ==
    /\ pc[p] = "published"
    /\ End(p, "published", info[p].version)
    /\ UNCHANGED <<project, registry, history>>

(* Mutant: whatever comes back, the version was published.                 *)
PublishLineAlways == "published"

PublishLine == "unpublished"

(* The request is refused, or it or its answer is lost.                    *)
PublishFailed(p) ==
    /\ \/ pc[p] = "publish" /\ info[p].version # None
       \/ pc[p] = "published" /\ "request" \in Faults
    /\ End(p, PublishLine, info[p].version)
    /\ UNCHANGED <<project, registry, history>>

-----------------------------------------------------------------------------
(* add (POST) and update (PUT) differ in what the registry may refuse.     *)
Upsert(p) ==
    /\ Begin(p, "payload")
    /\ UNCHANGED <<project, registry, locals, history, world>>

BuildPayload(p) ==
    /\ pc[p] = "payload" /\ Parses
    /\ info' = [info EXCEPT ![p] = manifest]
    /\ Go(p, "send")
    /\ UNCHANGED <<project, registry, module, source, options, history>>

NoPayload(p) ==
    /\ pc[p] = "payload" /\ ~Parses
    /\ Fail(p)
    /\ UNCHANGED <<project, registry, history>>

SendPayload(p) ==
    /\ pc[p] = "send" /\ "name" \in info[p].fields
    /\ Registry(public, info[p])
    /\ pc' = [pc EXCEPT ![p] = "sent"]
    /\ UNCHANGED <<project, locals, told, history, bounds>>

Sent(p) ==
    /\ pc[p] = "sent"
    /\ End(p, "sent", None)
    /\ UNCHANGED <<project, registry, history>>

UpsertFailed(p) ==
    /\ pc[p] = "send" \/ (pc[p] = "sent" /\ "request" \in Faults)
    /\ Fail(p)
    /\ UNCHANGED <<project, registry, history>>

-----------------------------------------------------------------------------
(* `kue package <name>`: the detail endpoint, the install endpoint, then a *)
(* search for names to suggest.                                            *)
Info(p) ==
    /\ Begin(p, "detail")
    /\ UNCHANGED <<project, registry, locals, history, world>>

(* An object under "data" without fields, with a blank name or with a      *)
(* "package" that is none; an array without items.                         *)
Void == {"noFields", "nameless", "unresolved", "noItems"}

(* Mutant: the object under "data" is not looked into for a package.       *)
HasDataUnresolved(b) ==
    /\ b.text # "none"
    /\ b.text = "object" => ~b.refused /\ b.data \notin Void \ {"unresolved"}

(* What is not a JSON object counts, and so does one without "data".       *)
HasData(b) ==
    /\ b.text # "none"
    /\ b.text = "object" => ~b.refused /\ b.data \notin Void

(* Drafts are shown to their owner only.                                   *)
Answers ==
    (IF "there" \in Standing(public, server) THEN Shown ELSE {})
    \cup (IF "hidden" \in Standing(public, server) THEN Denials ELSE {})

Found(p) ==
    /\ pc[p] \in {"detail", "install"} /\ \E b \in Answers : b.ok /\ HasData(b)
    /\ End(p, "found", None)
    /\ UNCHANGED <<project, registry, history>>

AskNext(p) ==
    /\ pc[p] \in {"detail", "install"}
    /\ \/ (\E b \in Answers : ~(b.ok /\ HasData(b))) /\ UNCHANGED known
       \/ "request" \in Faults /\ known' = [known EXCEPT ![p] = @ \cup {pc[p]}]
    /\ pc' = [pc EXCEPT ![p] = IF pc[p] = "detail" THEN "install" ELSE "search"]
    /\ UNCHANGED <<project, registry, locals, told, seen, history, bounds>>

(* The answer to the search only changes what is suggested.                *)
Suggest(p) ==
    /\ pc[p] = "search"
    /\ End(p, "not found", None)
    /\ UNCHANGED <<project, registry, history>>

-----------------------------------------------------------------------------
(* list-local: what stands in the import block.                            *)
ListLocal(p) ==
    /\ pc[p] = "idle" /\ commands < MaxCommands
    /\ commands' = commands + 1
    /\ told' = [told EXCEPT ![p] =
                 Said("listed", None, IF modulesGo # Absent /\ modulesGo.block
                                      THEN modulesGo.imports ELSE {})]
    /\ UNCHANGED <<project, registry, pc, locals, seen, known, history, world>>

(* A write fails or kue is killed; what it was writing stays as it is.     *)
Stop(p) ==
    /\ "stop" \in Faults /\ pc[p] # "idle"
    /\ modulesGo' \in IF pc[p] = "fillModules" THEN Beginnings(source[p]) ELSE {modulesGo}
    /\ torn' = (torn \/ pc[p] = "fillModules")
    /\ owed' = IF pc[p] = "fillManifest" THEN {} ELSE owed
    /\ Fail(p)
    /\ UNCHANGED <<shims, gomod, manifest, registry, enabled>>

(* The registry withdraws a version, or the package with all of them.      *)
Withdraw ==
    /\ world < MaxWorld /\ server # None
    /\ \/ Registry({}, None)
       \/ \E v \in public : Registry(public \ {v}, server)
    /\ world' = world + 1
    /\ UNCHANGED <<project, pc, locals, told, history, commands>>

Finished ==
    /\ commands = MaxCommands /\ \A p \in Proc : pc[p] = "idle"
    /\ UNCHANGED vars

Enabling(p) ==
    \/ \E m \in Module : Enable(p, m)
    \/ OpenShim(p) \/ FillShim(p) \/ EditFailed(p) \/ EnabledAlready(p)
    \/ EditModules(p) \/ OpenModules(p) \/ FillModules(p)

Publishing(p) ==
    \/ \E o \in Options : Publish(p, o)
    \/ NoName(p) \/ ReadManifest(p) \/ OpenManifest(p) \/ FillManifest(p)
    \/ PublishLocally(p) \/ SendPublish(p) \/ Published(p) \/ PublishFailed(p)

Sending(p) ==
    Upsert(p) \/ BuildPayload(p) \/ NoPayload(p) \/ SendPayload(p) \/ Sent(p) \/ UpsertFailed(p)

Asking(p) == Info(p) \/ Found(p) \/ AskNext(p) \/ Suggest(p)

Next ==
    \/ \E p \in Proc : Enabling(p) \/ Publishing(p) \/ Sending(p) \/ Asking(p)
                       \/ ListLocal(p) \/ Stop(p)
    \/ Withdraw
    \/ Finished

Spec == Init /\ [][Next]_vars

-----------------------------------------------------------------------------
Wired(m) ==
    /\ modulesGo # Absent /\ Seg[m] \in modulesGo.imports \cap modulesGo.calls
    /\ shims[Seg[m]] = m

BeingWritten == \E p \in Proc : pc[p] = "fillModules"

(* "Updated modules.go with Enable() call": a module that was reported as  *)
(* enabled stays imported and called, and its shim enables it, whatever    *)
(* is enabled after it, as long as every write of modules.go is finished   *)
(* (enableModule, addEnableCallToModules).                                 *)
EnabledIsWired == ~torn /\ ~BeingWritten => \A m \in enabled : Wired(m)

(* A module is in place if its shim enables it and modules.go imports and  *)
(* calls it, the text that is being written to it where one is.            *)
InText(s, m) == s # Absent /\ Seg[m] \in s.imports \cap s.calls

Placed ==
    {m \in Module :
        /\ shims[Seg[m]] = m
        /\ IF BeingWritten THEN \E p \in Proc : pc[p] = "fillModules" /\ InText(source[p], m)
                           ELSE InText(modulesGo, m)}

Project == INSTANCE InPlace WITH Item <- Module, Renewed <- Module, placed <- Placed,
                                 reported <- enabled, cut <- torn

(* Step by step, enable adds one module to those in place and touches none *)
(* of the others, also where it fails or is killed and what it has written *)
(* stays; a module is taken out only by its own enable, before which the   *)
(* report of the last one no longer counts (enableModule,                  *)
(* addEnableCallToModules).                                                *)
EnablesOneByOne == Project!Spec

(* "now publicly visible": a version that publish reports was public at    *)
(* some time during the command, whatever was lost (publishPackage).       *)
PublishReportIsTrue ==
    \A p \in Proc : told[p].line = "published" => told[p].version \in seen[p]

(* What users describe in kuetix.json, as far as kue knows it, is there    *)
(* after any sequence of publishes that finish their writes, and on the    *)
(* registry once it was sent (publishPackage, buildPackagePayload).        *)
KnownFieldsSurvive ==
    "rest" \in owed =>
        /\ \/ "rest" \in manifest.fields
           \/ \E p \in Proc : pc[p] = "fillManifest" /\ "rest" \in info[p].fields
        /\ server # None => "rest" \in server.fields

(* A look-up asks two endpoints, which may fail and between which the      *)
(* package comes and goes.  What it shows was there at some time during    *)
(* the command, and it says that there is no such package only if it could *)
(* not be seen at some time or both requests failed: an endpoint that      *)
(* fails is made up for by the other (PackageInfoCommand,                  *)
(* packageBodyHasData).                                                    *)
LookupIsTrue ==
    \A p \in Proc :
        /\ told[p].line = "found" => "there" \in known[p]
        /\ told[p].line = "not found" =>
             "hidden" \in known[p] \/ {"detail", "install"} \subseteq known[p]

(* Not of the code: "No package named x on the registry" is said only if   *)
(* it could not be seen there at some time (PackageInfoCommand).           *)
NoPackageIsTrue == \A p \in Proc : told[p].line = "not found" => "hidden" \in known[p]

(* Not of the code: a module that is reported as enabled is, also after a  *)
(* write of modules.go was cut short.                                      *)
EnabledStaysWired == ~BeingWritten => \A m \in enabled : Wired(m)

(* Not of the code: publish loses nothing that kuetix.json had.            *)
AllFieldsSurvive ==
    \/ owed \subseteq (IF manifest = Absent THEN {} ELSE manifest.fields)
    \/ \E p \in Proc : pc[p] = "fillManifest"

(* Not of the code: what is listed was enabled, that is called             *)
(* (listEnabledModules).                                                   *)
ListedIsCalled ==
    (\A p \in Proc : pc[p] = "idle") =>
        \A p \in Proc : modulesGo # Absent => told[p].listed \subseteq modulesGo.calls

=============================================================================
