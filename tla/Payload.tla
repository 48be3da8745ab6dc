------------------------------- MODULE Payload -------------------------------
(***************************************************************************)
(* What `kue workflow upload` sends with a workflow and what `kue install` *)
(* makes of it in another project: the workflows it refers to              *)
(* (collectImports) and the Go modules its actions come from               *)
(* (buildPayload, parseGoModProvenance, loadModulesJSONEntry).             *)
(*                                                                         *)
(* Imports are collected under the text of the reference, and installed    *)
(* under it.  go.mod is read line by line, without its blocks.             *)
(***************************************************************************)
EXTENDS Naturals, Sequences, FiniteSets

CONSTANTS
    Dir, Root,      \* directories below and with workflows/
    Stem,           \* names of workflows: paths below workflows/, no extension
    DirOf,          \* [Stem -> Dir]
    Ref,            \* what stands behind import or extends, to the end of the line
    At,             \* [Dir -> [Ref -> Stem]], where that text leads from a directory
    Reads,          \* [Ref -> [path : Ref, ext : Ext or None]], what the engine reads
    Module,         \* Go modules
    Slashed,        \* those whose path has a '/'
    Inside,         \* <<m, n>>: the path of m begins with that of n
    Class,          \* namespace/class of actions
    Provides,       \* [Class -> Module], what is linked into kue
    Version,
    Projects,       \* the projects that share a workflow
    Absent, None

VARIABLES
    project,
    phase,
    stack,          \* files being scanned, and the next reference of each
    visited,        \* references seen
    imports,        \* reference -> the file that is sent for it
    line,           \* the next line of go.mod
    requires, replaces, ownModule,
    deps,           \* class -> its dependency
    installed,      \* files of the other project: the file each came from
    towrite         \* imports that are not written yet

collected == <<stack, visited, imports>>
provenance == <<line, requires, replaces, ownModule>>
consumer == <<installed, towrite>>
vars == <<project, phase, collected, provenance, deps, consumer>>

-----------------------------------------------------------------------------
Ext == {"wsl", "swsl", "json"}
File == Stem \X Ext

Reference == [kind : {"import", "extends"}, ref : Ref]

(* A line of go.mod: a directive, the opening of a block of directives, an *)
(* entry of a block or its end; with a path and a version, if it has them, *)
(* and whether => follows the path.                                        *)
Directive == {"module", "require", "replace", "exclude"}
Line ==
    {l \in [verb : Directive \cup {"entry", "close"}, opens : BOOLEAN,
            path : Module \cup {None}, version : Version \cup {None}, arrow : BOOLEAN] :
        l.arrow => l.path # None}

(* Workflows, none of which is blank, as lists of their references.        *)
(* rooted: the file lies below a directory of the name workflows; vendored *)
(* and local: what the modules.json of each Go module under vendor/ and of *)
(* the project describe, for the latter with the module it belongs to.     *)
Project(p) ==
    /\ p.files \in [File -> Seq(Reference) \cup {Absent}]
    /\ p.top \in File /\ p.files[p.top] # Absent
    /\ p.rooted \in BOOLEAN
    /\ p.gomod \in Seq(Line)
    /\ p.uses \subseteq Class
    /\ p.vendored \in [Module -> SUBSET Class]
    /\ p.local \in [Class -> Module \cup {None}]

ASSUME PayloadAssumption ==
    /\ Root \in Dir
    /\ DirOf \in [Stem -> Dir]
    /\ At \in [Dir -> [Ref -> Stem]]
    /\ Reads \in [Ref -> [path : Ref, ext : Ext \cup {None}]]
    /\ Slashed \subseteq Module
    /\ Inside \subseteq Module \X Module
    /\ Provides \in [Class -> Module \cup {None}]
    /\ \A p \in Projects : Project(p)
    /\ IsFiniteSet(Ref)
    /\ None \notin Module /\ None \notin Version /\ None \notin File
    /\ Absent \notin Seq(Reference)

Dependency == [module : Module, local : BOOLEAN, version : Version \cup {None},
               info : Module]

TypeOK ==
    /\ project \in Projects
    /\ phase \in {"imports", "gomod", "actions", "install", "done"}
    /\ stack \in Seq([file : File, next : Nat \ {0}])
    /\ visited \subseteq Ref
    /\ imports \in [Ref -> File \cup {None}]
    /\ line \in 1..(Len(project.gomod) + 1)
    /\ requires \in [Module -> Version \cup {None}]
    /\ replaces \subseteq Module
    /\ ownModule \in Module \cup {None}
    /\ deps \in [Class -> Dependency \cup {None}]
    /\ installed \in [Stem -> File \cup {None}]
    /\ towrite \subseteq Ref

Init ==
    /\ project \in Projects
    /\ phase = "imports"
    /\ stack = <<[file |-> project.top, next |-> 1]>>
    /\ visited = {}
    /\ imports = [r \in Ref |-> None]
    /\ line = 1
    /\ requires = [m \in Module |-> None]
    /\ replaces = {} /\ ownModule = None
    /\ deps = [c \in Class |-> None]
    /\ installed = [s \in Stem |-> None]
    /\ towrite = {}

-----------------------------------------------------------------------------
(* collectImports: depth first, every text of a reference once.            *)
Frame == stack[Len(stack)]
References == project.files[Frame.file]
AtEnd == Frame.next > Len(References)
Current == References[Frame.next].ref

Advanced == [stack EXCEPT ![Len(stack)].next = @ + 1]

(* The workflow of that name, a simplified one if there is no other.       *)
Workflow(s) ==
    IF project.files[<<s, "wsl">>] # Absent THEN <<s, "wsl">>
    ELSE IF project.files[<<s, "swsl">>] # Absent THEN <<s, "swsl">> ELSE None

(* Mutant: the file's own directory comes before the root.                 *)
CandidateNear(r) ==
    LET near == Workflow(At[DirOf[Frame.file[1]]][r]) IN
    IF near # None THEN near ELSE Workflow(At[Root][r])

(* From the root, and then from the file's directory: the keyword does not *)
(* matter, and the text is taken as it stands.                             *)
Candidate(r) ==
    IF Workflow(At[Root][r]) # None THEN Workflow(At[Root][r])
    ELSE Workflow(At[DirOf[Frame.file[1]]][r])

(* Mutant: references are not remembered.                                  *)
VisitedNever(r) == FALSE

Visited(r) == r \in visited

Scanning == phase = "imports" /\ project.rooted /\ stack # <<>>

Again ==
    /\ Scanning /\ ~AtEnd /\ Visited(Current)
    /\ stack' = Advanced
    /\ UNCHANGED <<project, phase, visited, imports, provenance, deps, consumer>>

Missing ==
    /\ Scanning /\ ~AtEnd /\ ~Visited(Current) /\ Candidate(Current) = None
    /\ visited' = visited \cup {Current}
    /\ stack' = Advanced
    /\ UNCHANGED <<project, phase, imports, provenance, deps, consumer>>

Collect ==
    LET f == Candidate(Current) IN
    /\ Scanning /\ ~AtEnd /\ ~Visited(Current) /\ f # None
    /\ visited' = visited \cup {Current}
    /\ imports' = [imports EXCEPT ![Current] = f]
    /\ stack' = Append(Advanced, [file |-> f, next |-> 1])
    /\ UNCHANGED <<project, phase, provenance, deps, consumer>>

Return ==
    /\ Scanning /\ AtEnd
    /\ stack' = SubSeq(stack, 1, Len(stack) - 1)
    /\ UNCHANGED <<project, phase, visited, imports, provenance, deps, consumer>>

(* Nothing more to scan, or no directory that references start from.       *)
Collected ==
    /\ phase = "imports" /\ (stack = <<>> \/ ~project.rooted)
    /\ phase' = "gomod"
    /\ UNCHANGED <<project, collected, provenance, deps, consumer>>

-----------------------------------------------------------------------------
(* parseGoModProvenance: what each line alone says.  An entry is read by   *)
(* its shape: path, of more than one element, and version, or path and     *)
(* arrow.                                                                  *)
Requires(l) ==
    /\ ~l.opens /\ ~l.arrow /\ l.version # None
    /\ l.verb = "require" \/ (l.verb = "entry" /\ l.path \in Slashed)

(* Mutant: entries of a block of replacements are not seen.                *)
ReplacesAlone(l) == ~l.opens /\ l.arrow /\ l.verb = "replace"

Replaces(l) ==
    /\ ~l.opens /\ l.arrow
    /\ l.verb = "replace" \/ (l.verb = "entry" /\ l.version = None)

ScanLine ==
    LET l == project.gomod[line] IN
    /\ phase = "gomod" /\ line <= Len(project.gomod)
    /\ line' = line + 1
    /\ requires' = IF Requires(l) THEN [requires EXCEPT ![l.path] = l.version] ELSE requires
    /\ replaces' = IF Replaces(l) THEN replaces \cup {l.path} ELSE replaces
    /\ ownModule' = IF l.verb = "module" THEN l.path ELSE ownModule
    /\ UNCHANGED <<project, phase, collected, deps, consumer>>

Scanned ==
    /\ phase = "gomod" /\ line > Len(project.gomod)
    /\ phase' = "actions"
    /\ UNCHANGED <<project, collected, provenance, deps, consumer>>

-----------------------------------------------------------------------------
(* The dependencies of the actions that come from a linked module.         *)
IsLocal(m) ==
    \/ m \in replaces
    \/ ownModule # None /\ (m = ownModule \/ <<m, ownModule>> \in Inside)

(* Mutant: nothing is made up from what is linked.                         *)
InfoOnDisk(m, c) == IF c \in project.vendored[m] THEN m ELSE project.local[c]

(* The module that the catalogue entry for c describes: the vendored one,  *)
(* the project's, or one made up from what is linked.                      *)
Info(m, c) ==
    IF c \notin project.vendored[m] /\ project.local[c] # None THEN project.local[c] ELSE m

Depend(c) ==
    LET m == Provides[c] IN
    /\ phase = "actions" /\ c \in project.uses /\ m # None /\ deps[c] = None
    /\ deps' = [deps EXCEPT ![c] =
                 [module |-> m, local |-> IsLocal(m),
                  version |-> IF IsLocal(m) THEN None ELSE requires[m],
                  info |-> Info(m, c)]]
    /\ UNCHANGED <<project, phase, collected, provenance, consumer>>

(* The payload is complete; it is sent, and installed elsewhere.           *)
Share ==
    /\ phase = "actions"
    /\ \A c \in project.uses : Provides[c] = None \/ deps[c] # None
    /\ phase' = "install"
    /\ installed' = [installed EXCEPT ![project.top[1]] = project.top]
    /\ towrite' = {r \in Ref : imports[r] # None}
    /\ UNCHANGED <<project, collected, provenance, deps>>

(* Every import goes to workflows/<reference>.wsl, in the order of a map.  *)
WriteImport(r) ==
    /\ phase = "install" /\ r \in towrite
    /\ installed' = [installed EXCEPT ![At[Root][r]] = imports[r]]
    /\ towrite' = towrite \ {r}
    /\ UNCHANGED <<project, phase, collected, provenance, deps>>

Installed ==
    /\ phase = "install" /\ towrite = {}
    /\ phase' = "done"
    /\ UNCHANGED <<project, collected, provenance, deps, consumer>>

Finished == phase = "done" /\ UNCHANGED vars

Next ==
    \/ Again \/ Missing \/ Collect \/ Return \/ Collected
    \/ ScanLine \/ Scanned
    \/ \E c \in Class : Depend(c)
    \/ Share
    \/ \E r \in Ref : WriteImport(r)
    \/ Installed
    \/ Finished

Spec == Init /\ [][Next]_vars

-----------------------------------------------------------------------------
(* Workflows may import each other in circles, and still the recursion of  *)
(* collectImports is never deeper than there are references, below the     *)
(* uploaded workflow: every one is visited once, found or not.             *)
ScanIsBounded ==
    /\ Len(stack) <= Cardinality(visited) + 1
    /\ \A r \in Ref : imports[r] # None => r \in visited

(* "import is relative to the workflows root": whatever an installed       *)
(* workflow refers to, however deep below the uploaded one and in whatever *)
(* order imports are written, what stands there from the root of the       *)
(* workflows stands there where it is installed; no workflow that happens  *)
(* to have the name next to another one takes its place (collectImports,   *)
(* installWorkflowFromBody).                                               *)
ReferencesArrive ==
    phase = "done" /\ project.rooted =>
        \A s \in {s \in Stem : installed[s] # None} :
            \A i \in DOMAIN project.files[installed[s]] :
                LET t == At[Root][project.files[installed[s]][i].ref] IN
                Workflow(t) # None => installed[t] = Workflow(t)

(* What the engine loads for a reference of the workflow s: what it        *)
(* extends, from its directory and with the extension if one is given;     *)
(* it resolves no import to a file.                                        *)
Target(s, x) ==
    LET at    == At[DirOf[s]][Reads[x.ref].path]
        exts  == IF Reads[x.ref].ext = None THEN <<"wsl", "swsl", "json">>
                 ELSE <<Reads[x.ref].ext>>
        there == {i \in DOMAIN exts : project.files[<<at, exts[i]>>] # Absent}
    IN IF x.kind = "import" \/ there = {} THEN None
       ELSE <<at, exts[CHOOSE i \in there : \A j \in there : i <= j]>>

(* Not of the code: what an installed workflow extended where it was       *)
(* uploaded it extends where it is installed, in the same language.        *)
SharedResolves ==
    phase = "done" =>
        \A s \in {s \in Stem : installed[s] # None} :
            \A i \in DOMAIN project.files[installed[s]] :
                LET x == project.files[installed[s]][i]
                    f == Target(installed[s][1], x)
                IN f # None => /\ installed[At[DirOf[s]][Reads[x.ref].path]] = f
                               /\ f[2] = "wsl"

(* The grammar of go.mod: an entry is a directive of the kind of its block.*)
KindOf(mod, i) ==
    LET open == {j \in 1..(i - 1) : mod[j].opens /\ \A k \in j..(i - 1) : mod[k].verb # "close"}
    IN IF mod[i].verb # "entry" THEN mod[i].verb
       ELSE IF open = {} THEN "close" ELSE mod[CHOOSE j \in open : TRUE].verb

Lines(kind, m) ==
    {i \in DOMAIN project.gomod :
        ~project.gomod[i].opens /\ KindOf(project.gomod, i) = kind /\ project.gomod[i].path = m}

Required(m) ==
    LET at == Lines("require", m) IN
    IF at = {} THEN None
    ELSE project.gomod[CHOOSE i \in at : \A j \in at : j <= i].version

(* A replacement with a version is one of that version only.               *)
Replaced(m) == \E i \in Lines("replace", m) : project.gomod[i].version \in {None, Required(m)}

(* A dependency is said to be local, or of a version, exactly if go.mod    *)
(* says so (parseGoModProvenance, buildPayload).                           *)
DependencyIsDescribed ==
    \A c \in Class : deps[c] # None =>
        LET m == deps[c].module
            own == \E n \in Module : Lines("module", n) # {} /\ (m = n \/ <<m, n>> \in Inside)
        IN /\ deps[c].local = (own \/ Replaced(m))
           /\ ~deps[c].local => deps[c].version = Required(m)

=============================================================================
