------------------------------ MODULE Scaffold ------------------------------
(***************************************************************************)
(* `kue create` and `kue add` (modules/create, modules/add,                *)
(* shared/generators.go, shared/metadata.go): files rendered from          *)
(* templates into the directory of one project.                            *)
(*                                                                         *)
(* A command asks once, before its first write, and then writes the files  *)
(* of its plan one by one; `add transition` appends to a file instead.     *)
(* Templates may be missing one by one (see TemplateCache), a write may    *)
(* fail and the process may die in it, and nothing is undone.  Users edit  *)
(* while no command is under way or one waits for an answer.               *)
(***************************************************************************)
EXTENDS Naturals, Sequences, FiniteSets

CONSTANTS
    Proc,
    Name,           \* names as they are given
    Id,             \* names of files and types
    Camel,          \* [Name -> Id], ToCamelCase
    Deep,           \* names with a slash whose directory is not there
    Method,         \* methods of a module
    Ends,           \* <<m, k>>: the name of m ends with that of k
    CommonFiles,    \* the files GenerateCommonFiles always writes, in order
    Editable,       \* files users edit or remove
    Faults,         \* what may go wrong: "template", "write", "crash"
    MaxCommands, MaxEdits,
    Absent, None

VARIABLES
    files,          \* the project
    made,           \* its directory exists
    pc,
    what,           \* what the command does after its plan
    plan,           \* files still to write
    goal,           \* all files of the command
    target,         \* the file being written,
    text,           \* its new text
    method,         \* the method to add
    told,           \* what the last command reported as created or added
    refused,        \* the method it reported as already there
    mine,           \* history: files of users they did not let be replaced
    added,          \* history: <<file, method>> reported as added
    cut,            \* history: files on which an append was cut short
    commands, edits

disk == <<files, made>>
command == <<what, plan, goal, target, text, method>>
report == <<told, refused>>
history == <<mine, added, cut>>
bounds == <<commands, edits>>
vars == <<disk, pc, command, report, history, bounds>>

-----------------------------------------------------------------------------
AppType == {"cli", "api", "consumer", "service", "package"}

Source == {"workflow", "feature", "solution"}

Main(kind, n) == <<kind, Camel[n]>>
Meta(kind, n) == <<kind, n, "json">>
ProjectFile(f) == <<"project", f>>

Manifest == ProjectFile("kuetix.json")
ModulesGo == ProjectFile("modules.go")
ApplicationJson == ProjectFile("application.json")

ProjectFiles ==
    {ProjectFile(t) : t \in AppType} \cup {Manifest, ModulesGo, ApplicationJson}
        \cup {ProjectFile(CommonFiles[i]) : i \in DOMAIN CommonFiles}

Modules == {<<"module", i>> : i \in Id}

Path == ((Source \cup {"module"}) \X Id)
          \cup {Meta(k, n) : k \in Source, n \in Name} \cup ProjectFiles

(* A text is a user's, kue's, or scrap: what a write that was cut short    *)
(* has left.                                                               *)
Text == [by : {"user", "kue", "scrap"}, methods : SUBSET Method]

Made == [by |-> "kue", methods |-> {}]
Empty == [by |-> "scrap", methods |-> {}]

(* What may be on the disk when t is half written.                         *)
Scraps(t) == [by : {"scrap"}, methods : SUBSET t.methods]

(* How a file is written: from a template; only if it is not there; from a *)
(* template or else without; without.                                      *)
Item == [path : Path, via : {"template", "unless", "fallback", "plain"}]

Template(f) == [path |-> f, via |-> "template"]
Unless(f) == [path |-> f, via |-> "unless"]
Fallback(f) == [path |-> f, via |-> "fallback"]
Plain(f) == [path |-> f, via |-> "plain"]

ASSUME ScaffoldAssumption ==
    /\ Camel \in [Name -> Id] /\ Deep \subseteq Name
    /\ Ends \subseteq Method \X Method
    /\ CommonFiles \in Seq(STRING)
    /\ Editable \subseteq Path
    /\ Faults \subseteq {"template", "write", "crash"}
    /\ MaxCommands \in Nat /\ MaxEdits \in Nat
    /\ Absent \notin Text
    /\ None \notin Text /\ None \notin Path /\ None \notin Method

TypeOK ==
    /\ files \in [Path -> Text \cup {Absent}]
    /\ made \in BOOLEAN
    /\ pc \in [Proc -> {"idle", "prompt", "mkdir", "write", "read", "append", "fill"}]
    /\ what \in [Proc -> {"add", "create", "unsupported", "transition"}]
    /\ plan \in [Proc -> Seq(Item)]
    /\ goal \in [Proc -> SUBSET Path]
    /\ target \in [Proc -> Path \cup {None}]
    /\ text \in [Proc -> Text \cup {None}]
    /\ method \in [Proc -> Method \cup {None}]
    /\ told \in [Proc -> SUBSET (Path \X (Method \cup {None}))]
    /\ refused \in [Proc -> SUBSET (Path \X Method)]
    /\ mine \subseteq Path
    /\ added \subseteq Modules \X Method
    /\ cut \subseteq Modules
    /\ commands \in 0..MaxCommands
    /\ edits \in 0..MaxEdits

Init ==
    /\ files = [f \in Path |-> Absent]
    /\ made \in BOOLEAN
    /\ pc = [p \in Proc |-> "idle"]
    /\ what = [p \in Proc |-> "add"]
    /\ plan = [p \in Proc |-> <<>>]
    /\ goal = [p \in Proc |-> {}]
    /\ target = [p \in Proc |-> None]
    /\ text = [p \in Proc |-> None]
    /\ method = [p \in Proc |-> None]
    /\ told = [p \in Proc |-> {}]
    /\ refused = [p \in Proc |-> {}]
    /\ mine = {} /\ added = {} /\ cut = {}
    /\ commands = 0 /\ edits = 0

-----------------------------------------------------------------------------
(* Ends of commands.                                                       *)
Forget(p) ==
    /\ pc' = [pc EXCEPT ![p] = "idle"]
    /\ what' = [what EXCEPT ![p] = "add"]
    /\ plan' = [plan EXCEPT ![p] = <<>>]
    /\ goal' = [goal EXCEPT ![p] = {}]
    /\ target' = [target EXCEPT ![p] = None]
    /\ text' = [text EXCEPT ![p] = None]
    /\ method' = [method EXCEPT ![p] = None]

Fail(p) == Forget(p) /\ UNCHANGED <<report, bounds>>

-----------------------------------------------------------------------------
(* Starts of commands.                                                     *)

(* The user agrees that these files are replaced.                          *)
Agree(paths) ==
    /\ mine' = mine \ paths
    /\ added' = {a \in added : a[1] \notin paths}
    /\ cut' = cut \ paths

(* Mutant: a command looks for the file it would write last.               *)
AsksAboutLast(f, steps) == files[steps[Len(steps)].path] # Absent

Asks(f, steps) == IF f = None THEN made ELSE files[f] # Absent

Paths(steps) == {steps[i].path : i \in DOMAIN steps}

First(w) == IF w \in {"create", "unsupported"} THEN "mkdir" ELSE "write"

(* CheckPathExistsAndConfirm for the file f, or the project's directory    *)
(* if it is None; then the plan.                                           *)
Begin(p, w, f, steps) ==
    /\ pc[p] = "idle" /\ commands < MaxCommands
    /\ commands' = commands + 1
    /\ what' = [what EXCEPT ![p] = w]
    /\ plan' = [plan EXCEPT ![p] = steps]
    /\ goal' = [goal EXCEPT ![p] = Paths(steps)]
    /\ \E force \in BOOLEAN :
         /\ pc' = [pc EXCEPT ![p] = IF Asks(f, steps) /\ ~force THEN "prompt" ELSE First(w)]
         /\ IF force THEN Agree(Paths(steps)) ELSE UNCHANGED history
    /\ told' = [told EXCEPT ![p] = {}]
    /\ refused' = [refused EXCEPT ![p] = {}]
    /\ UNCHANGED <<disk, target, text, method, edits>>

AddModule(p, n) ==
    Begin(p, "add", Main("module", n), <<Template(Main("module", n))>>)

(* A source and its metadata, which is named as the user named it.         *)
SourceSteps(kind, n) == <<Template(Main(kind, n)), Plain(Meta(kind, n))>>

AddWorkflow(p, n) == Begin(p, "add", Main("workflow", n), SourceSteps("workflow", n))
AddFeature(p, n) == Begin(p, "add", Main("feature", n), SourceSteps("feature", n))
AddSolution(p, n) == Begin(p, "add", Main("solution", n), SourceSteps("solution", n))

AddPackage(p) == Begin(p, "add", Manifest, <<Fallback(Manifest)>>)

(* The trees of cli and api stand for their main file and modules.go.      *)
Skeleton(t) ==
    CASE t \in {"cli", "api"} -> <<Template(ProjectFile(t)), Template(ModulesGo)>>
      [] t = "package" -> <<Template(Manifest), Template(ProjectFile(t))>>
      [] OTHER -> <<Template(ProjectFile(t))>>

Common ==
    [i \in DOMAIN CommonFiles |-> Template(ProjectFile(CommonFiles[i]))]
        \o <<Unless(ModulesGo)>>

Metadata == <<Plain(ApplicationJson)>>

(* Mutant: any type is accepted.                                           *)
SupportedAny(t) == TRUE

Supported(t) == t \in AppType

Create(p, t) ==
    IF Supported(t)
    THEN Begin(p, "create", None, Skeleton(t) \o Common \o Metadata)
    ELSE Begin(p, "unsupported", None, Metadata)

(* `add transition` does not ask.  It makes the module first if need be.   *)
AddTransition(p, n, m) ==
    LET f == Main("module", n) IN
    /\ pc[p] = "idle" /\ commands < MaxCommands
    /\ commands' = commands + 1
    /\ what' = [what EXCEPT ![p] = "transition"]
    /\ plan' = [plan EXCEPT ![p] = IF files[f] = Absent THEN <<Fallback(f)>> ELSE <<>>]
    /\ goal' = [goal EXCEPT ![p] = {f}]
    /\ target' = [target EXCEPT ![p] = f]
    /\ method' = [method EXCEPT ![p] = m]
    /\ pc' = [pc EXCEPT ![p] = "write"]
    /\ told' = [told EXCEPT ![p] = {}]
    /\ refused' = [refused EXCEPT ![p] = {}]
    /\ UNCHANGED <<disk, text, history, edits>>

(* The answer to the prompt.                                               *)
Confirm(p) ==
    /\ pc[p] = "prompt"
    /\ Agree(goal[p])
    /\ pc' = [pc EXCEPT ![p] = First(what[p])]
    /\ UNCHANGED <<disk, command, report, bounds>>

Cancel(p) ==
    /\ pc[p] = "prompt"
    /\ Fail(p)
    /\ UNCHANGED <<disk, history>>

(* CreateCommand makes the directories before it looks at the type.        *)
MakeDirs(p) ==
    /\ pc[p] = "mkdir"
    /\ made' = TRUE
    /\ IF what[p] = "create"
       THEN pc' = [pc EXCEPT ![p] = "write"] /\ UNCHANGED <<command, report, bounds>>
       ELSE Fail(p)
    /\ UNCHANGED <<files, history>>

-----------------------------------------------------------------------------
(* The plan.                                                               *)
Current(p) == Head(plan[p])

Writing(p) == pc[p] = "write" /\ plan[p] # <<>>

Keeps(item) == item.via = "unless" /\ files[item.path] # Absent

Skip(p) ==
    /\ Writing(p) /\ Keeps(Current(p))
    /\ plan' = [plan EXCEPT ![p] = Tail(@)]
    /\ UNCHANGED <<disk, pc, what, goal, target, text, method, report, history, bounds>>

(* The directory of the metadata is not made.                              *)
NoDirectory(item) ==
    \E n \in Deep, kind \in {"feature", "solution"} : item.path = Meta(kind, n)

(* WriteTemplateToFile renders, makes the directory, opens the file.       *)
OpenFile(p) ==
    /\ Writing(p) /\ ~Keeps(Current(p)) /\ ~NoDirectory(Current(p))
    /\ made' = TRUE
    /\ target' = [target EXCEPT ![p] = Current(p).path]
    /\ text' = [text EXCEPT ![p] = Made]
    /\ files' = [files EXCEPT ![Current(p).path] = Empty]
    /\ pc' = [pc EXCEPT ![p] = "fill"]
    /\ UNCHANGED <<what, plan, goal, method, report, history, bounds>>

(* Somebody else may have written to the file since it was opened.         *)
Fill(p) ==
    /\ pc[p] = "fill"
    /\ \E t \in {text[p]} \cup (IF files[target[p]] \in {Empty, text[p]} THEN {}
                                ELSE Scraps(text[p])) :
         files' = [files EXCEPT ![target[p]] = t]
    /\ plan' = [plan EXCEPT ![p] = IF @ = <<>> THEN @ ELSE Tail(@)]
    /\ what' = [what EXCEPT ![p] = IF plan[p] = <<>> THEN "add" ELSE @]
    /\ text' = [text EXCEPT ![p] = None]
    /\ pc' = [pc EXCEPT ![p] = "write"]
    /\ UNCHANGED <<made, goal, target, method, report, history, bounds>>

(* Mutant: a fallback that is not tried any more counts as written.        *)
InsteadNothing(item) == <<>>

(* The descriptor of a package, or the bare module, without a template.    *)
Instead(item) == <<Plain(item.path)>>

GiveUp(p) ==
    IF plan[p] # <<>> /\ Current(p).via = "fallback"
    THEN /\ plan' = [plan EXCEPT ![p] = Instead(Current(p)) \o Tail(@)]
         /\ pc' = [pc EXCEPT ![p] = "write"]
         /\ text' = [text EXCEPT ![p] = None]
         /\ UNCHANGED <<what, goal, target, method, report, bounds>>
    ELSE Fail(p)

(* A template is missing, or the file cannot be opened.                    *)
OpenFailed(p) ==
    /\ \/ /\ Writing(p) /\ ~Keeps(Current(p))
          /\ \/ "template" \in Faults /\ Current(p).via # "plain"
             \/ "write" \in Faults
             \/ NoDirectory(Current(p))
       \/ pc[p] \in {"read", "append"} /\ "write" \in Faults
       \/ pc[p] = "read" /\ files[target[p]] = Absent
    /\ GiveUp(p)
    /\ UNCHANGED <<disk, history>>

(* What is on the disk after a write that was not finished.                *)
CutShort(p) ==
    /\ \E t \in Scraps(text[p]) : files' = [files EXCEPT ![target[p]] = t]
    /\ cut' = IF plan[p] = <<>> THEN cut \cup {target[p]} ELSE cut
    /\ UNCHANGED <<made, mine, added>>

WriteFailed(p) ==
    /\ "write" \in Faults
    /\ pc[p] = "fill"
    /\ CutShort(p)
    /\ GiveUp(p)

Crash(p) ==
    /\ "crash" \in Faults
    /\ pc[p] # "idle"
    /\ IF pc[p] = "fill" THEN CutShort(p) ELSE UNCHANGED <<disk, history>>
    /\ Fail(p)

-----------------------------------------------------------------------------
(* addTransition.                                                          *)

(* The method's name with a parenthesis stands in the text.                *)
Mentions(t, m) == \E k \in t.methods : k = m \/ <<k, m>> \in Ends

Read(p) ==
    /\ pc[p] = "write" /\ plan[p] = <<>> /\ what[p] = "transition"
    /\ pc' = [pc EXCEPT ![p] = "read"]
    /\ UNCHANGED <<disk, command, report, history, bounds>>

AlreadyThere(p) ==
    /\ pc[p] = "read" /\ files[target[p]] # Absent
    /\ Mentions(files[target[p]], method[p])
    /\ refused' = [refused EXCEPT ![p] = {<<target[p], method[p]>>}]
    /\ Forget(p)
    /\ UNCHANGED <<disk, told, history, bounds>>

(* Mutant: the file is written anew.                                       *)
WithAlone(t, m) == [t EXCEPT !.methods = {m}]

With(t, m) == [t EXCEPT !.methods = @ \cup {m}]

Compose(p) ==
    /\ pc[p] = "read" /\ files[target[p]] # Absent
    /\ ~Mentions(files[target[p]], method[p])
    /\ text' = [text EXCEPT ![p] = With(files[target[p]], method[p])]
    /\ pc' = [pc EXCEPT ![p] = "append"]
    /\ UNCHANGED <<disk, what, plan, goal, target, method, report, history, bounds>>

Truncate(p) ==
    /\ pc[p] = "append"
    /\ files' = [files EXCEPT ![target[p]] = Empty]
    /\ pc' = [pc EXCEPT ![p] = "fill"]
    /\ UNCHANGED <<made, command, report, history, bounds>>

(* The end of a command: what it reports.                                  *)
Report(p) ==
    /\ pc[p] = "write" /\ plan[p] = <<>> /\ what[p] # "transition"
    /\ told' = [told EXCEPT ![p] = goal[p] \X {method[p]}]
    /\ added' = IF method[p] = None THEN added ELSE added \cup {<<target[p], method[p]>>}
    /\ Forget(p)
    /\ UNCHANGED <<disk, refused, mine, cut, bounds>>

-----------------------------------------------------------------------------
(* Users edit or remove a file.                                            *)
Edit(f, t) ==
    /\ f \in Editable /\ edits < MaxEdits
    /\ \A p \in Proc : pc[p] \in {"idle", "prompt"}
    /\ files' = [files EXCEPT ![f] = t]
    /\ made' = TRUE
    /\ mine' = IF t = Absent THEN mine \ {f} ELSE mine \cup {f}
    /\ added' = {a \in added : a[1] # f}
    /\ cut' = cut \ {f}
    /\ told' = [p \in Proc |-> {}] /\ refused' = [p \in Proc |-> {}]
    /\ edits' = edits + 1
    /\ UNCHANGED <<pc, command, commands>>

Texts(f) ==
    {Absent} \cup [by : {"user"}, methods : IF f \in Modules THEN SUBSET Method ELSE {{}}]

Step(p) ==
    \/ \E n \in Name : \/ AddModule(p, n) \/ AddWorkflow(p, n) \/ AddFeature(p, n)
                       \/ AddSolution(p, n)
                       \/ \E m \in Method : AddTransition(p, n, m)
    \/ AddPackage(p)
    \/ \E t \in AppType \cup {"all"} : Create(p, t)
    \/ Confirm(p) \/ Cancel(p) \/ MakeDirs(p)
    \/ Skip(p) \/ OpenFile(p) \/ Fill(p) \/ OpenFailed(p) \/ WriteFailed(p) \/ Crash(p)
    \/ Read(p) \/ AlreadyThere(p) \/ Compose(p) \/ Truncate(p) \/ Report(p)

(* The bounds are used up.                                                 *)
Finished ==
    /\ commands = MaxCommands /\ \A p \in Proc : pc[p] = "idle"
    /\ UNCHANGED vars

Next ==
    \/ \E p \in Proc : Step(p)
    \/ Finished
    \/ \E f \in Editable : \E t \in Texts(f) : Edit(f, t)

Spec == Init /\ [][Next]_vars

-----------------------------------------------------------------------------
(* What a command has just reported as created or added is there: every    *)
(* file of a new project, the metadata of a source too, whichever template *)
(* or write failed on the way; "Project '%s' (%s) created successfully"    *)
(* (CreateCommand), "created at", "added to module" (add.go).              *)
ReportedIsInPlace ==
    \A p \in Proc : \A t \in told[p] :
        IF t[2] # None THEN files[t[1]] # Absent /\ t[2] \in files[t[1]].methods
        ELSE IF t[1] = ModulesGo THEN files[t[1]] # Absent
        ELSE files[t[1]] = Made

(* A user's file keeps its text until its user agrees that it is replaced: *)
(* "Do you want to overwrite it? This may replace existing files."         *)
(* (CheckPathExistsAndConfirm), one question for all files of a command.   *)
(* An append that is cut short is the one exception (see AppendsAreSafe).  *)
OwnFilesAreKept ==
    \A f \in mine \ cut :
        \/ files[f] # Absent /\ files[f].by = "user"
        \/ \E p \in Proc : pc[p] = "fill" /\ target[p] = f /\ text[p].by = "user"

(* A transition that was reported as added stays through every later       *)
(* command, unless a user lets the module be replaced or edits it.         *)
AddedMethodsStay ==
    \A a \in added : a[1] \notin cut =>
        \/ files[a[1]] # Absent /\ a[2] \in files[a[1]].methods
        \/ \E p \in Proc : pc[p] = "fill" /\ target[p] = a[1] /\ a[2] \in text[p].methods

(* No append takes a user's text away (os.WriteFile truncates, addTransition). *)
AppendsAreSafe == mine \cap cut = {}

(* "method %s already exists in %s" (addTransition) is said of a method    *)
(* that exists.                                                            *)
RefusalIsRight == \A p \in Proc : \A r \in refused[p] : r[2] \in files[r[1]].methods

(* What is reported is no file that an earlier command left half written:  *)
(* addTransition appends to such a module, GenerateCommonFiles keeps such  *)
(* a modules.go.                                                           *)
ReportedIsWhole == \A p \in Proc : \A t \in told[p] : files[t[1]].by # "scrap"

=============================================================================
