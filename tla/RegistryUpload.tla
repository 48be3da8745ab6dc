---------------------------- MODULE RegistryUpload ----------------------------
(***************************************************************************)
(* What a project keeps on the registry: `kue upload`, `kue status` and    *)
(* `kue delete` (modules/workflow).  An upload sends the local workflows   *)
(* one request at a time and the package descriptor last; a status         *)
(* compares a local snapshot with the server, again request by request.    *)
(*                                                                         *)
(* Several commands run at once, from one project or several clones of it, *)
(* files are edited under them, requests get lost, and so do the answers   *)
(* to requests the server has carried out.                                 *)
(*                                                                         *)
(* A workflow is a number, its place in the directory walk.  Both upload   *)
(* and status read a workflow twice (buildPayload): once for its source    *)
(* and once more, in the engine, for its actions.  The listing a status    *)
(* starts from is one step here; NameList has its pages.                   *)
(***************************************************************************)
EXTENDS Naturals, FiniteSets

CONSTANTS
    Proc,           \* kue processes
    Workflows,      \* workflow names are 1..Workflows
    Content,        \* workflow sources, up to normalizeContent
    Manifest,       \* package descriptors (kuetix.json)
    Broken,         \* sources and descriptors that cannot be parsed
    Empty,          \* the empty source
    Methods,        \* values of --method in use
    PostUpdates,    \* the server carries out a POST of an existing name
    Faults,         \* requests and answers may be lost, processes may crash
    MaxEdits,       \* bound: edits of local files
    Absent, None

ASSUME RegistryUploadAssumption ==
    /\ Workflows \in Nat /\ MaxEdits \in Nat
    /\ Broken \subseteq Content \cup Manifest
    /\ Empty \in Content
    /\ Methods \subseteq {"POST", "PUT"}
    /\ PostUpdates \in BOOLEAN /\ Faults \in BOOLEAN
    /\ Absent \notin Content \cup Manifest
    /\ None \notin Content \cup Manifest \cup {Absent}

VARIABLES
    local, manifest,    \* the project: ./workflows and kuetix.json
    server, package,    \* the registry: workflows and the package descriptor
    edits,              \* bounds the edits
    pc, job,
    todo,               \* workflows the command has still to deal with
    payload,            \* the sources it has read of them
    reply,              \* status code of the last request
    report,             \* the line printed for each workflow
    descriptor,         \* the kuetix.json an upload has read
    packageReport,
    held, heldPackage   \* history: what the server held since the start

vars == <<local, manifest, server, package, edits, pc, job, todo,
          payload, descriptor, reply, report, packageReport, held, heldPackage>>
project == <<local, manifest, edits>>
registry == <<server, package>>
packageJob == <<descriptor, packageReport>>
history == <<held, heldPackage>>

-----------------------------------------------------------------------------
Workflow == 1..Workflows

Job == [cmd : {"upload", "status", "delete"}, method : {"POST", "PUT"}]

Lines == {"none", "ok", "failed", "new", "modified", "unchanged", "serverOnly", "error"}

\* 0: no answer
Replies == {0, 200, 404, 409}

TypeOK ==
    /\ local \in [Workflow -> Content \cup {Absent}]
    /\ manifest \in Manifest \cup {Absent}
    /\ server \in [Workflow -> Content \cup {Absent}]
    /\ package \in Manifest \cup {Absent}
    /\ edits \in 0..MaxEdits
    /\ pc \in [Proc -> {"idle", "build", "parse", "send", "receive", "package",
                        "packageSend", "packageReceive", "names", "compare", "delete"}]
    /\ job \in [Proc -> Job]
    /\ todo \in [Proc -> SUBSET Workflow]
    /\ payload \in [Proc -> [Workflow -> Content \cup {None}]]
    /\ reply \in [Proc -> Replies]
    /\ report \in [Proc -> [Workflow -> Lines]]
    /\ descriptor \in [Proc -> Manifest \cup {None}]
    /\ packageReport \in [Proc -> {"none", "ok", "failed"}]
    /\ held \in [Proc -> [Workflow -> SUBSET (Content \cup {Absent})]]
    /\ heldPackage \in [Proc -> SUBSET (Manifest \cup {Absent})]

Init ==
    /\ local \in [Workflow -> Content \cup {Absent}]
    /\ manifest \in Manifest \cup {Absent}
    /\ server = [w \in Workflow |-> Absent]
    /\ package = Absent
    /\ edits = 0
    /\ pc = [p \in Proc |-> "idle"]
    /\ job = [p \in Proc |-> [cmd |-> "status", method |-> "POST"]]
    /\ todo = [p \in Proc |-> {}]
    /\ payload = [p \in Proc |-> [w \in Workflow |-> None]]
    /\ reply = [p \in Proc |-> 0]
    /\ report = [p \in Proc |-> [w \in Workflow |-> "none"]]
    /\ descriptor = [p \in Proc |-> None]
    /\ packageReport = [p \in Proc |-> "none"]
    /\ held = [p \in Proc |-> [w \in Workflow |-> {}]]
    /\ heldPackage = [p \in Proc |-> {}]

-----------------------------------------------------------------------------
(* The project is edited (external).                                       *)

Edit(w, c) ==
    /\ edits < MaxEdits
    /\ c # local[w]
    /\ local' = [local EXCEPT ![w] = c]
    /\ edits' = edits + 1
    /\ UNCHANGED <<manifest, registry, pc, job, todo, payload, reply,
                   report, packageJob, history>>

EditManifest(m) ==
    /\ edits < MaxEdits
    /\ m # manifest
    /\ manifest' = m
    /\ edits' = edits + 1
    /\ UNCHANGED <<local, registry, pc, job, todo, payload, reply,
                   report, packageJob, history>>

-----------------------------------------------------------------------------
(* Requests.  A request is carried out or not, and answered or not; one    *)
(* that is not answered is an error to the command either way.             *)

Goto(p, l) == pc' = [pc EXCEPT ![p] = l]

(* The lines are printed at the end: a command that stops before prints    *)
(* none of them.                                                           *)
Quit(p) ==
    /\ Goto(p, "idle")
    /\ todo' = [todo EXCEPT ![p] = {}]
    /\ payload' = [payload EXCEPT ![p] = [w \in Workflow |-> None]]
    /\ reply' = [reply EXCEPT ![p] = 0]
    /\ report' = [report EXCEPT ![p] = [w \in Workflow |-> "none"]]
    /\ descriptor' = [descriptor EXCEPT ![p] = None]
    /\ packageReport' = [packageReport EXCEPT ![p] = "none"]
    /\ held' = [held EXCEPT ![p] = [w \in Workflow |-> {}]]

Remember(w) ==
    held' = [p \in Proc |-> IF pc[p] = "idle" THEN held[p]
                            ELSE [held[p] EXCEPT ![w] = @ \cup {server'[w]}]]

RememberPackage ==
    heldPackage' = [p \in Proc |-> IF pc[p] = "idle" THEN heldPackage[p]
                                   ELSE heldPackage[p] \cup {package'}]

Answered(p, code) ==
    \/ reply' = [reply EXCEPT ![p] = code]
    \/ Faults /\ reply' = [reply EXCEPT ![p] = 0]

NotSent(p) ==
    /\ Faults
    /\ reply' = [reply EXCEPT ![p] = 0]
    /\ UNCHANGED <<registry, history>>

(* POST /workflow of an existing name is an update or a conflict, PUT      *)
(* /workflow/<name> replaces (external).                                   *)
Conflict(method, old) == method = "POST" /\ old # Absent /\ ~PostUpdates

Store(p, w) ==
    IF Conflict(job[p].method, server[w])
      THEN Answered(p, 409) /\ UNCHANGED <<registry, history>>
      ELSE /\ server' = [server EXCEPT ![w] = payload[p][w]]
           /\ Remember(w)
           /\ Answered(p, 200)
           /\ UNCHANGED <<package, heldPackage>>

-----------------------------------------------------------------------------
(* kue upload                                                              *)

Present == {w \in Workflow : local[w] # Absent}

Begin(p, cmd, method, work, l) ==
    /\ pc[p] = "idle"
    /\ job' = [job EXCEPT ![p] = [cmd |-> cmd, method |-> method]]
    /\ todo' = [todo EXCEPT ![p] = work]
    /\ payload' = [payload EXCEPT ![p] = [w \in Workflow |-> None]]
    /\ report' = [report EXCEPT ![p] = [w \in Workflow |-> "none"]]
    /\ descriptor' = [descriptor EXCEPT ![p] = None]
    /\ packageReport' = [packageReport EXCEPT ![p] = "none"]
    /\ held' = [held EXCEPT ![p] = [w \in Workflow |-> {server[w]}]]
    /\ heldPackage' = [heldPackage EXCEPT ![p] = {package}]
    /\ reply' = [reply EXCEPT ![p] = 0]
    /\ Goto(p, l)
    /\ UNCHANGED <<project, registry>>

(* The names are discovered and filtered by the query, which may be empty; *)
(* a query that matches no name is an error.                               *)
StartUpload(p, method, query) ==
    /\ Present = {} \/ query \cap Present # {}
    /\ Begin(p, "upload", method, query \cap Present, "build")

First(S) == CHOOSE w \in S : \A x \in S : w <= x

Line(p, w, what) == report' = [report EXCEPT ![p][w] = what]

Done(p, w) == todo' = [todo EXCEPT ![p] = @ \ {w}]

(* Mutant: a file that cannot be read has no content at all.               *)
SourceOrNothing(w) == local[w]

(* buildPayload: an error of this read is ignored.                         *)
Source(w) == IF local[w] = Absent THEN Empty ELSE local[w]

Read(p) ==
    LET w == First(todo[p]) IN
    /\ pc[p] = "build"
    /\ todo[p] # {}
    /\ payload' = [payload EXCEPT ![p][w] = Source(w)]
    /\ Goto(p, "parse")
    /\ UNCHANGED <<project, registry, job, todo, reply, report,
                   packageJob, history>>

(* GetWorkflowActions opens the file again.                                *)
Parse(p) ==
    LET w == First(todo[p]) IN
    /\ pc[p] = "parse"
    /\ IF local[w] \in Broken \cup {Absent}
         THEN /\ Line(p, w, IF job[p].cmd = "upload" THEN "failed" ELSE "error")
              /\ Done(p, w)
              /\ Goto(p, "build")
         ELSE /\ UNCHANGED report
              /\ IF job[p].cmd = "upload"
                   THEN Goto(p, "send") /\ UNCHANGED todo
                   ELSE Goto(p, "build") /\ Done(p, w)
    /\ UNCHANGED <<project, registry, job, payload, reply, packageJob,
                   history>>

Built(p) ==
    /\ pc[p] = "build"
    /\ todo[p] = {}
    /\ Goto(p, IF job[p].cmd = "upload" THEN "package" ELSE "names")
    /\ UNCHANGED <<project, registry, job, todo, payload, reply, report,
                   packageJob, history>>

Send(p) ==
    /\ pc[p] = "send"
    /\ Store(p, First(todo[p])) \/ NotSent(p)
    /\ Goto(p, "receive")
    /\ UNCHANGED <<project, job, todo, payload, report, packageJob>>

(* Mutant: the error of a request is printed only.                         *)
LineForAlways(code) == "ok"

(* A conflict counts as uploaded.                                          *)
LineFor(code) == IF code \in {200, 409} THEN "ok" ELSE "failed"

Receive(p) ==
    LET w == First(todo[p]) IN
    /\ pc[p] = "receive"
    /\ Line(p, w, LineFor(reply[p]))
    /\ Done(p, w)
    /\ Goto(p, "build")
    /\ UNCHANGED <<project, registry, job, payload, reply,
                   packageJob, history>>

(* uploadPackageMetadata: kuetix.json is read once, if there is one.       *)
ReadPackage(p) ==
    /\ pc[p] = "package"
    /\ \/ /\ manifest = Absent
          /\ Goto(p, "idle")
          /\ UNCHANGED packageJob
       \/ /\ manifest \in Broken
          /\ packageReport' = [packageReport EXCEPT ![p] = "failed"]
          /\ Goto(p, "idle")
          /\ UNCHANGED descriptor
       \/ /\ manifest \in Manifest \ Broken
          /\ descriptor' = [descriptor EXCEPT ![p] = manifest]
          /\ Goto(p, "packageSend")
          /\ UNCHANGED packageReport
    /\ UNCHANGED <<project, registry, job, todo, payload, reply, report,
                   history>>

SendPackage(p) ==
    /\ pc[p] = "packageSend"
    /\ \/ NotSent(p)
       \/ IF job[p].method = "POST" /\ package # Absent
            THEN Answered(p, 409) /\ UNCHANGED <<registry, history>>
            ELSE /\ package' = descriptor[p]
                 /\ RememberPackage
                 /\ Answered(p, 200)
                 /\ UNCHANGED <<server, held>>
    /\ Goto(p, "packageReceive")
    /\ UNCHANGED <<project, job, todo, payload, report, packageJob>>

(* Mutant: a conflict is not answered by a PUT.                            *)
RetryNever(p) == FALSE

Retry(p) == reply[p] = 409 /\ job[p].method = "POST"

PackageReceive(p) ==
    /\ pc[p] = "packageReceive"
    /\ IF Retry(p)
         THEN /\ job' = [job EXCEPT ![p].method = "PUT"]
              /\ Goto(p, "packageSend")
              /\ UNCHANGED packageReport
         ELSE /\ packageReport' = [packageReport EXCEPT ![p] =
                                     IF reply[p] = 200 THEN "ok" ELSE "failed"]
              /\ Goto(p, "idle")
              /\ UNCHANGED job
    /\ UNCHANGED <<project, registry, todo, payload, descriptor, reply,
                   report, history>>

-----------------------------------------------------------------------------
(* kue status                                                              *)

(* The local workflows are read before the server is asked for anything.   *)
StartStatus(p) == Begin(p, "status", "POST", Present, "build")

Listed == {w \in Workflow : server[w] # Absent}

Discovered(p) == {w \in Workflow : payload[p][w] # None}

Names(p) ==
    LET readable == {w \in Discovered(p) : report[p][w] # "error"} IN
    /\ pc[p] = "names"
    /\ report' = [report EXCEPT ![p] = [w \in Workflow |->
          CASE w \in readable \ Listed      -> "new"
            [] w \in Listed \ Discovered(p) -> "serverOnly"
            [] OTHER                        -> report[p][w]]]
    /\ todo' = [todo EXCEPT ![p] = readable \cap Listed]
    /\ Goto(p, "compare")
    /\ UNCHANGED <<project, registry, job, payload, reply, packageJob,
                   history>>

(* Without the names there is no status.                                   *)
NamesFailed(p) ==
    /\ Faults
    /\ pc[p] = "names"
    /\ Quit(p)
    /\ UNCHANGED <<project, registry, job, heldPackage>>

(* Mutant: a workflow that cannot be fetched is taken for a new one.       *)
FetchErrorNew == "new"

FetchError == "error"

Compare(p) ==
    LET w == First(todo[p]) IN
    /\ pc[p] = "compare"
    /\ IF todo[p] = {}
         THEN Goto(p, "idle") /\ UNCHANGED <<todo, report>>
         ELSE /\ \/ server[w] = Absent /\ Line(p, w, FetchError)
                 \/ Faults /\ Line(p, w, FetchError)
                 \/ server[w] = payload[p][w] /\ Line(p, w, "unchanged")
                 \/ server[w] \notin {payload[p][w], Absent} /\ Line(p, w, "modified")
              /\ Done(p, w)
              /\ UNCHANGED pc
    /\ UNCHANGED <<project, registry, job, payload, reply, packageJob,
                   history>>

-----------------------------------------------------------------------------
(* kue delete                                                              *)

StartDelete(p, w) == Begin(p, "delete", "POST", {w}, "delete")

Delete(p) ==
    LET w == First(todo[p]) IN
    /\ pc[p] = "delete"
    /\ \/ NotSent(p)
       \/ /\ server[w] = Absent
          /\ Answered(p, 404)
          /\ UNCHANGED <<registry, history>>
       \/ /\ server[w] # Absent
          /\ server' = [server EXCEPT ![w] = Absent]
          /\ Remember(w)
          /\ Answered(p, 200)
          /\ UNCHANGED <<package, heldPackage>>
    /\ Line(p, w, IF reply'[p] = 200 THEN "ok" ELSE "failed")
    /\ Goto(p, "idle")
    /\ UNCHANGED <<project, job, todo, payload, packageJob>>

-----------------------------------------------------------------------------
Crash(p) ==
    /\ Faults
    /\ pc[p] # "idle"
    /\ Quit(p)
    /\ UNCHANGED <<project, registry, job, heldPackage>>

Step(p) ==
    \/ Read(p) \/ Parse(p) \/ Built(p) \/ Send(p) \/ Receive(p)
    \/ ReadPackage(p) \/ SendPackage(p) \/ PackageReceive(p)
    \/ Names(p) \/ NamesFailed(p) \/ Compare(p)
    \/ Delete(p)
    \/ Crash(p)

Next ==
    \/ \E w \in Workflow, c \in Content \cup {Absent} : Edit(w, c)
    \/ \E m \in Manifest \cup {Absent} : EditManifest(m)
    \/ \E p \in Proc, m \in Methods, q \in SUBSET Workflow : StartUpload(p, m, q)
    \/ \E p \in Proc : StartStatus(p)
    \/ \E p \in Proc, w \in Workflow : StartDelete(p, w)
    \/ \E p \in Proc : Step(p)

Spec == Init /\ [][Next]_vars

-----------------------------------------------------------------------------
(* Properties.                                                             *)

(* upload.txt: POST creates or updates, PUT replaces.  A workflow reported *)
(* as uploaded was on the server, as it was read, at some moment of the    *)
(* command; one reported as deleted was gone.                              *)
UploadReportIsTrue ==
    \A p \in Proc, w \in Workflow : report[p][w] = "ok" =>
        \/ job[p].cmd = "upload" /\ payload[p][w] \in held[p][w]
        \/ job[p].cmd = "delete" /\ Absent \in held[p][w]

(* status.txt: [new], [modified], [unchanged] and server-only.  Each mark  *)
(* was right at some moment of the command, for the text it has read,      *)
(* although other commands change the server between its requests.         *)
StatusReportIsTrue ==
    \A p \in Proc, w \in Workflow :
        /\ report[p][w] = "new" => Absent \in held[p][w]
        /\ report[p][w] = "unchanged" => payload[p][w] \in held[p][w]
        /\ report[p][w] = "modified" => held[p][w] \ {payload[p][w], Absent} # {}
        /\ report[p][w] = "serverOnly" =>
             payload[p][w] = None /\ held[p][w] # {Absent}

(* uploadPackageMetadata: an existing package is updated after a conflict. *)
(* A descriptor reported as uploaded was on the server, and the upload of  *)
(* a readable one fails only where a request is not answered, whoever else *)
(* creates the package between its two requests.                           *)
PackageReportIsTrue ==
    \A p \in Proc :
        /\ packageReport[p] = "ok" => descriptor[p] \in heldPackage[p]
        /\ packageReport[p] = "failed" => reply[p] = 0 \/ descriptor[p] = None

(* buildPayload: "reads the workflow source, extracts its actions via the  *)
(* engine".  What is uploaded is a source whose actions were extracted, so *)
(* the server has no source that does not parse.                           *)
UploadedSourceParses == \A w \in Workflow : server[w] \notin Broken

=============================================================================
