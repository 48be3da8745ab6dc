------------------------------- MODULE Install -------------------------------
(***************************************************************************)
(* `kue get` and `kue install` inside a project (modules/install): the     *)
(* workflows named by a pattern are fetched one by one and written under   *)
(* ./workflows together with the imports the registry keeps with each of   *)
(* them, and the Go modules they need are added to go.mod.                 *)
(*                                                                         *)
(* One command at a time, any number of them.  A record that fails is      *)
(* reported and the loop goes on.  Files are written by os.WriteFile;      *)
(* `go get` (external) is one step.  The imports of a workflow are the     *)
(* texts that were beside it when it was uploaded, so the registry may     *)
(* hold several texts under one name.  The registry does not change in a   *)
(* behaviour: what earlier registries left in the project is in Init.      *)
(***************************************************************************)
EXTENDS Naturals, FiniteSets

CONSTANTS
    Workflow,       \* names
    Content,        \* workflow sources
    Module,         \* Go modules
    Needs,          \* [Workflow -> SUBSET Module], modules of its actions
    Package,        \* names under which the registry has a package
    Mentioned,      \* modules go.mod names in lines that require nothing
    Aligned,        \* imports kept with a workflow are what is published
    Faults,         \* requests and writes may fail, commands may crash
    Absent, Empty, Torn, None

ASSUME InstallAssumption ==
    /\ Needs \in [Workflow -> SUBSET Module]
    /\ Package \subseteq Workflow
    /\ Mentioned \subseteq Module
    /\ Aligned \in BOOLEAN /\ Faults \in BOOLEAN
    /\ {Absent, Empty, Torn, None} \cap Content = {}
    /\ Empty # None

VARIABLES
    registry,   \* the workflows of the registry
    files,      \* ./workflows
    gomod,      \* modules required in go.mod, None: it cannot be read
    pc,
    type,       \* --type, "" if not given
    login,      \* a token is stored
    todo,       \* records still to install
    record,     \* the one being installed,
    kind,       \* and as what,
    imports,    \* imports of it still to write
    target,     \* the file being written
    mods,       \* modules still to add
    known,      \* modules found in go.mod,
    lines,      \* what is reported of each record
    modErrs     \* modules reported as failed

project == <<files, gomod>>
command == <<type, login, todo, record>>
report == <<lines, modErrs>>
locals == <<kind, imports, target, mods, known>>
vars == <<registry, project, pc, command, locals, report>>

-----------------------------------------------------------------------------
(* What the registry holds of a workflow: its text, Empty if it has none,  *)
(* and the texts of its imports, itself among them where they are cyclic.  *)
Asset == [content : Content \cup {Empty}, imports : [Workflow -> Content \cup {None}]]

Target == [name : Workflow, text : Content]

ASSUME NoneAssumption ==
    None \notin Asset /\ None \notin Target /\ \A s \in SUBSET Module : s # None

(* The imports that are written: those with a text.                        *)
Imported(w) == {v \in Workflow : registry[w].imports[v] # None}

(* Every import is the text that is published under its name.              *)
InLine ==
    \A w \in Workflow : registry[w] # None =>
        \A v \in Imported(w) : registry[v] # None
                               /\ registry[w].imports[v] = registry[v].content

TypeOK ==
    /\ registry \in [Workflow -> Asset \cup {None}]
    /\ files \in [Workflow -> Content \cup {Absent, Empty, Torn}]
    /\ gomod \in (SUBSET Module) \cup {None}
    /\ pc \in {"idle", "next", "workflow", "package", "imports", "truncate", "fill",
               "require", "goget"}
    /\ type \in {"", "workflow", "package"}
    /\ login \in BOOLEAN
    /\ todo \subseteq Workflow
    /\ record \in Workflow
    /\ kind \in {"workflow", "package"}
    /\ imports \subseteq Workflow
    /\ target \in Target \cup {None}
    /\ mods \subseteq Module
    /\ known \subseteq Module
    /\ lines \in [Workflow -> {"none", "workflow", "package", "failed"}]
    /\ modErrs \subseteq Module

Init ==
    /\ registry \in [Workflow -> Asset \cup {None}]
    /\ Aligned => InLine
    /\ files \in [Workflow -> Content \cup {Absent}]
    /\ gomod \in (SUBSET Module) \cup {None}
    /\ pc = "idle"
    /\ type = "" /\ login = FALSE
    /\ todo = {}
    /\ record \in Workflow
    /\ kind = "workflow"
    /\ imports = {}
    /\ target = None
    /\ mods = {}
    /\ known = {}
    /\ lines = [w \in Workflow |-> "none"]
    /\ modErrs = {}

-----------------------------------------------------------------------------
(* InstallBulkCommand: the records are the names that match the pattern,   *)
(* or the pattern itself where nobody is logged in or nothing matches.     *)
(* InstallCommand is the case of one record.                               *)
Start(t, l, records) ==
    /\ pc = "idle"
    /\ records # {} /\ (l \/ \A v, w \in records : v = w)
    /\ type' = t /\ login' = l /\ todo' = records
    /\ lines' = [w \in Workflow |-> "none"]
    /\ modErrs' = {}
    /\ pc' = "next"
    /\ UNCHANGED <<registry, project, record, locals>>

(* The next record: a package without further ado if the user says so or,  *)
(* not being logged in, cannot have workflows.                             *)
NextRecord ==
    /\ pc = "next"
    /\ \E w \in todo :
         /\ record' = w
         /\ todo' = todo \ {w}
    /\ pc' = IF type = "package" \/ (type = "" /\ ~login) THEN "package" ELSE "workflow"
    /\ UNCHANGED <<registry, project, type, login, locals, report>>

Done ==
    /\ pc = "next" /\ todo = {}
    /\ pc' = "idle"
    /\ UNCHANGED <<registry, project, command, locals, report>>

Forget == kind' = "workflow" /\ imports' = {} /\ target' = None /\ mods' = {} /\ known' = {}

(* The record is done: its line, and on to the next one.                   *)
Report(what) ==
    /\ lines' = [lines EXCEPT ![record] = what]
    /\ pc' = "next"
    /\ Forget

-----------------------------------------------------------------------------
(* writeWorkflowFile: compare, then os.WriteFile.                          *)

(* Mutant: a file that is there is not refreshed.                          *)
UpToDateExists(t) == files[t.name] # Absent

(* Mutant: no comparison, every file is written.                           *)
UpToDateNever(t) == FALSE

UpToDate(t) == files[t.name] = t.text

Write(name, text) ==
    /\ target' = [name |-> name, text |-> text]
    /\ pc' = IF UpToDate(target') THEN "imports" ELSE "truncate"

(* Mutant: imports without a text are not left out.                        *)
ToWriteBlank(w) == Workflow

ToWrite(w) == Imported(w)

(* GET /workflow/<name>; the workflow itself is the first file.            *)
FetchWorkflow ==
    /\ pc = "workflow"
    /\ login /\ registry[record] # None /\ registry[record].content # Empty
    /\ kind' = "workflow"
    /\ imports' = ToWrite(record)
    /\ mods' = Needs[record]
    /\ Write(record, registry[record].content)
    /\ UNCHANGED <<registry, project, command, known, report>>

(* What is not found may be a package.                                     *)
FallThrough ==
    /\ pc = "workflow"
    /\ login /\ type = "" /\ registry[record] = None
    /\ pc' = "package"
    /\ UNCHANGED <<registry, project, command, locals, report>>

(* GET /packages/install: the modules of a package.                        *)
FetchPackage ==
    /\ pc = "package"
    /\ record \in Package
    /\ kind' = "package"
    /\ mods' = Needs[record]
    /\ pc' = "require"
    /\ UNCHANGED <<registry, project, command, imports, target, known, report>>

FetchFailed ==
    /\ \/ pc = "workflow" /\ (\/ Faults \/ ~login
                              \/ registry[record] = None /\ type = "workflow"
                              \/ registry[record] # None /\ registry[record].content = Empty)
       \/ pc = "package" /\ (Faults \/ record \notin Package)
    /\ Report("failed")
    /\ UNCHANGED <<registry, project, command, modErrs>>

(* The imports are a Go map: any order.                                    *)
WriteImport ==
    /\ pc = "imports"
    /\ \E w \in imports :
         /\ imports' = imports \ {w}
         /\ Write(w, registry[record].imports[w])
    /\ UNCHANGED <<registry, project, command, kind, mods, known, report>>

Truncate ==
    /\ pc = "truncate"
    /\ files' = [files EXCEPT ![target.name] = Empty]
    /\ pc' = "fill"
    /\ UNCHANGED <<registry, gomod, command, locals, report>>

Fill ==
    /\ pc = "fill"
    /\ files' = [files EXCEPT ![target.name] = target.text]
    /\ pc' = "imports"
    /\ UNCHANGED <<registry, gomod, command, locals, report>>

(* A write that fails or is interrupted.                                   *)
CutShort ==
    \/ UNCHANGED files
    \/ /\ pc = "fill"
       /\ files' = [files EXCEPT ![target.name] = Torn]

WriteFailed ==
    /\ Faults
    /\ pc \in {"truncate", "fill"}
    /\ CutShort
    /\ Report("failed")
    /\ UNCHANGED <<registry, gomod, command, modErrs>>

Written ==
    /\ pc = "imports" /\ imports = {}
    /\ pc' = "require"
    /\ UNCHANGED <<registry, project, command, locals, report>>

-----------------------------------------------------------------------------
(* addGoModuleRequires.                                                    *)

(* Without a go.mod every module is an error, and the record counts as     *)
(* installed.                                                              *)
NoRequires ==
    /\ pc = "require"
    /\ mods = {} \/ gomod = None
    /\ modErrs' = modErrs \cup mods
    /\ Report(kind)
    /\ UNCHANGED <<registry, project, command>>

(* readExistingRequires takes every line that begins with a module path    *)
(* for a requirement, in whatever block it stands.                         *)
ReadRequires ==
    /\ pc = "require"
    /\ mods # {} /\ gomod # None
    /\ known' = gomod \cup Mentioned
    /\ pc' = "goget"
    /\ UNCHANGED <<registry, project, command, kind, imports, target, mods, report>>

Skip(m) == m \in known /\ UNCHANGED <<gomod, known, modErrs>>

Add(m) ==
    /\ m \notin known
    /\ gomod' = gomod \cup {m}
    /\ known' = known \cup {m}
    /\ UNCHANGED modErrs

(* Mutant: the error of `go get` is dropped.                               *)
ErrorsDropped(m) == modErrs

Errors(m) == modErrs \cup {m}

AddFailed(m) ==
    /\ Faults /\ m \notin known
    /\ modErrs' = Errors(m)
    /\ UNCHANGED <<gomod, known>>

(* runGoGet for one module after the other; a failure does not stop the    *)
(* others, and the record counts as installed.                             *)
GoGet ==
    /\ pc = "goget"
    /\ \E m \in mods :
         /\ mods' = mods \ {m}
         /\ Skip(m) \/ Add(m) \/ AddFailed(m)
    /\ UNCHANGED <<registry, files, pc, command, kind, imports, target, lines>>

Installed ==
    /\ pc = "goget" /\ mods = {}
    /\ Report(kind)
    /\ UNCHANGED <<registry, project, command, modErrs>>

-----------------------------------------------------------------------------
(* The command is killed: its report is lost.                              *)
Crash ==
    /\ Faults
    /\ pc # "idle"
    /\ CutShort
    /\ pc' = "idle"
    /\ Forget
    /\ lines' = [w \in Workflow |-> "none"]
    /\ UNCHANGED <<registry, gomod, command, modErrs>>

Step ==
    \/ NextRecord \/ Done
    \/ FetchWorkflow \/ FallThrough \/ FetchPackage \/ FetchFailed
    \/ WriteImport \/ Truncate \/ Fill \/ WriteFailed \/ Written
    \/ NoRequires \/ ReadRequires \/ GoGet \/ Installed

Next ==
    \/ \E t \in {"", "workflow", "package"}, l \in BOOLEAN,
          records \in SUBSET Workflow : Start(t, l, records)
    \/ Step
    \/ Crash

Spec == Init /\ [][Next]_vars

-----------------------------------------------------------------------------
(* A workflow reported as installed stands in the project with all its     *)
(* imports, each the text the registry gave with it, whatever records of   *)
(* the same command came later and however they failed: "refreshing an     *)
(* existing file in place", "a fetch always wins over a stale local copy"  *)
(* (writeWorkflowFile, installWorkflowFromBody).                           *)
InstalledIsComplete ==
    \A w \in Workflow : lines[w] = "workflow" =>
        /\ files[w] = registry[w].content
        /\ \A v \in Imported(w) : files[v] = registry[w].imports[v]

(* The workflows that stand in the project with all their imports.         *)
Placed ==
    {w \in Workflow :
        /\ registry[w] # None
        /\ files[w] = registry[w].content
        /\ \A v \in Imported(w) : files[v] = registry[w].imports[v]}

Project == INSTANCE InPlace WITH Item <- Workflow, Renewed <- {}, placed <- Placed,
                                 reported <- {w \in Workflow : lines[w] = "workflow"},
                                 cut <- FALSE

(* No step takes out of the project what is complete in it, be it from an  *)
(* earlier command and only an import now, and however the step fails      *)
(* (writeWorkflowFile, installWorkflowFromBody).                           *)
NothingComesApart == Project!Spec

(* What the record under way may write to the file of w.                   *)
Texts(w) ==
    {registry[record].content : v \in {record} \cap {w}}
    \cup {registry[record].imports[v] : v \in Imported(record) \cap {w}}

(* A file changes only to become a text the registry gave with the record  *)
(* under way, and only if it was another one: other workflows, those the   *)
(* user wrote among them, and files that are up to date are never touched, *)
(* by whatever registry, package or failure: "refreshing an existing file  *)
(* in place" (writeWorkflowFile).                                          *)
OnlyStaleFilesChange ==
    [][\A w \in Workflow : files'[w] # files[w] =>
          \E t \in Texts(w) : files[w] # t /\ files'[w] \in {Empty, Torn, t}]_vars

(* Every module an installed record needs is required in go.mod or is      *)
(* reported as an error: "the failure is reported back to the user without *)
(* aborting the whole install" (addGoModuleRequires).                      *)
ModulesAccounted ==
    \A w \in Workflow : lines[w] \in {"workflow", "package"} =>
        Needs[w] \subseteq modErrs \cup (IF gomod = None THEN {} ELSE gomod)

=============================================================================
