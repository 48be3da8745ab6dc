---------------------------- MODULE RegistryCache ----------------------------
(***************************************************************************)
(* The workflow cache under ~/.kue/cache/workflows and the commands that   *)
(* fill and read it: `kue run <name>`, `kue get <name>` outside a project, *)
(* and `kue inspect <name>`.                                               *)
(*                                                                         *)
(* Every kue command is an operating-system process of its own.  They      *)
(* share the cache directory and nothing else: no lock is taken, a file is *)
(* written by os.WriteFile (open with O_TRUNC, then one write), and a path *)
(* that was verified is opened again by the parser and once more by the    *)
(* engine.  Each of those system calls is a step here, so a second command *)
(* or a crash may fall between any two of them.                            *)
(*                                                                         *)
(* One workflow name is modelled; the cache entries of different names are *)
(* different files.  SHA-256 is taken to be injective, so a digest is      *)
(* represented by the content it was computed from.                        *)
(***************************************************************************)
EXTENDS Naturals, FiniteSets

CONSTANTS
    Proc,               \* kue processes (a crashed one may be started again)
    Owner,              \* registry owners that may publish the name
    Version,            \* version numbers the registry hands out
    Content,            \* workflow sources
    ExtOf,              \* the extension workflowExt derives from a source
    Hashed,             \* owners whose registry answers carry a hash
    BodiesMayDiffer,    \* a delivered body may differ from the published one
    VersionsImmutable,  \* the registry never changes a published version
    Faults,             \* processes may crash and writes may fail
    MaxPublished,       \* bound: distinct <<owner, version, content>> published
    Absent, Empty, Torn, None

ASSUME ConstantsAssumption ==
    /\ Hashed \subseteq Owner
    /\ BodiesMayDiffer \in BOOLEAN
    /\ VersionsImmutable \in BOOLEAN
    /\ Faults \in BOOLEAN
    /\ Absent \notin Content \cup {Empty, Torn, None}
    /\ Empty \notin Content \cup {Torn, None}
    /\ Torn \notin Content \cup {None}
    /\ None \notin Content

VARIABLES
    registry,   \* what each owner publishes now
    published,  \* history: every source ever published
    files,      \* <name>@v<version><ext>
    sidecars,   \* the .meta.json beside each file: the hash it records
    newer,      \* <<j, k>>: file j has a later modification time than file k
    pc,         \* next system call of each process
    job,        \* the command line of each process
    resp,       \* the verified registry answer a process holds
    ran,        \* the text the engine executed for a process
    view,       \* what `kue inspect` has gathered
    outcome     \* how the last command of a process ended

vars == <<registry, published, files, sidecars, newer, pc, job, resp, ran,
          view, outcome>>
procVars == <<pc, job, resp, ran, view, outcome>>
diskVars == <<files, sidecars, newer>>
worldVars == <<registry, published>>

-----------------------------------------------------------------------------
(* Data.                                                                   *)

Unpublished == None

Entry == [owner : Owner, version : Version, content : Content]

Ext == {ExtOf[c] : c \in Content}

Key == [owner : Owner, version : Version, ext : Ext]

FileState == Content \cup {Absent, Empty, Torn}

KeyOf(r) == [owner |-> r.owner, version |-> r.version, ext |-> ExtOf[r.content]]

Commands == {"run", "check", "get", "inspect"}

Job == [cmd : Commands, noCache : BOOLEAN]

View == [key : Key, hash : FileState, text : FileState \cup {None}]

Labels == {"idle", "fetch", "lookup", "truncate", "fill", "sideTruncate",
           "sideFill", "parse", "exec", "find", "loadSidecar", "show"}

Outcomes == {"none", "ok", "fetchFailed", "rejected", "writeFailed",
             "invalid", "missingModules", "notCached", "crashed"}

ASSUME NoneAssumption == None \notin Entry \cup View

TypeOK ==
    /\ registry \in [Owner -> Entry \cup {Unpublished}]
    /\ published \subseteq Entry
    /\ files \in [Key -> FileState]
    /\ sidecars \in [Key -> FileState]
    /\ newer \subseteq Key \X Key
    /\ pc \in [Proc -> Labels]
    /\ job \in [Proc -> Job]
    /\ resp \in [Proc -> Entry \cup {None}]
    /\ ran \in [Proc -> FileState \cup {None}]
    /\ view \in [Proc -> View \cup {None}]
    /\ outcome \in [Proc -> Outcomes]

Init ==
    /\ registry = [o \in Owner |-> Unpublished]
    /\ published = {}
    /\ files = [k \in Key |-> Absent]
    /\ sidecars = [k \in Key |-> Absent]
    /\ newer = {}
    /\ pc = [p \in Proc |-> "idle"]
    /\ job = [p \in Proc |-> [cmd |-> "run", noCache |-> FALSE]]
    /\ resp = [p \in Proc |-> None]
    /\ ran = [p \in Proc |-> None]
    /\ view = [p \in Proc |-> None]
    /\ outcome = [p \in Proc |-> "none"]

-----------------------------------------------------------------------------
(* The registry (external).                                                *)

(* An owner publishes a source under a version of the registry's choice.   *)
(* The CLI compares hashes and not versions, so it does not rely on a      *)
(* version being published once; VersionsImmutable adds that promise.      *)
Publish(o, v, c) ==
    LET e == [owner |-> o, version |-> v, content |-> c] IN
    /\ registry[o] # e
    /\ Cardinality(published \cup {e}) <= MaxPublished
    /\ VersionsImmutable =>
         \A q \in published : q.owner = o /\ q.version = v => q.content = c
    /\ registry' = [registry EXCEPT ![o] = e]
    /\ published' = published \cup {e}
    /\ UNCHANGED <<diskVars, procVars>>

-----------------------------------------------------------------------------
(* Files.                                                                  *)

Touch(k) ==
    newer' = (newer \ {<<j, k>> : j \in Key}) \cup {<<k, j>> : j \in Key \ {k}}

(* A write at offset 0 of a file another process may have filled since it  *)
(* was truncated: the longer text wins or a tail of it survives.           *)
Overlay(old, new) == IF old \in {Empty, new} THEN {new} ELSE {new, Torn}

Goto(p, l) == pc' = [pc EXCEPT ![p] = l]

End(p, how) ==
    /\ pc' = [pc EXCEPT ![p] = "idle"]
    /\ outcome' = [outcome EXCEPT ![p] = how]

(* Where a process continues once it holds a cache path: CacheWorkflow is  *)
(* done, RunCommand goes on to parse the file.                             *)
HavePath(p) ==
    IF job[p].cmd = "get" THEN End(p, "ok")
                          ELSE Goto(p, "parse") /\ UNCHANGED outcome

-----------------------------------------------------------------------------
(* Commands.                                                               *)

Start(p, cmd, noCache) ==
    /\ pc[p] = "idle"
    /\ noCache => cmd \in {"run", "check"}
    /\ Goto(p, IF cmd = "inspect" THEN "find" ELSE "fetch")
    /\ job' = [job EXCEPT ![p] = [cmd |-> cmd, noCache |-> noCache]]
    /\ resp' = [resp EXCEPT ![p] = None]
    /\ ran' = [ran EXCEPT ![p] = None]
    /\ view' = [view EXCEPT ![p] = None]
    /\ outcome' = [outcome EXCEPT ![p] = "none"]
    /\ UNCHANGED <<worldVars, diskVars>>

(* The body the registry delivers for owner o, and the hash it states.     *)
Delivered(o) == IF BodiesMayDiffer THEN Content ELSE {registry[o].content}

ServerHash(o) == IF o \in Hashed THEN registry[o].content ELSE None

(* Mutant: the check of the hash is gone.                                  *)
VerifiedUnchecked(body, hash) == TRUE

(* runner.go: a stated hash must match, a missing one is filled in with    *)
(* the computed one.                                                       *)
Verified(body, hash) == hash = None \/ hash = body

(* GET /workflows/get, and the verification of its answer.                 *)
FetchVerified(p) ==
    /\ pc[p] = "fetch"
    /\ \E o \in Owner :
         /\ registry[o] # Unpublished
         /\ \E body \in Delivered(o) :
              /\ Verified(body, ServerHash(o))
              /\ resp' = [resp EXCEPT ![p] = [owner |-> o,
                                              version |-> registry[o].version,
                                              content |-> body]]
    /\ Goto(p, "lookup")
    /\ UNCHANGED <<worldVars, diskVars, job, ran, view, outcome>>

FetchRejected(p) ==
    /\ pc[p] = "fetch"
    /\ \E o \in Owner :
         /\ registry[o] # Unpublished
         /\ \E body \in Delivered(o) : ~Verified(body, ServerHash(o))
    /\ End(p, "rejected")
    /\ UNCHANGED <<worldVars, diskVars, job, resp, ran, view>>

(* No answer, an error status, or an answer without content.               *)
FetchFailed(p) ==
    /\ pc[p] = "fetch"
    /\ End(p, "fetchFailed")
    /\ UNCHANGED <<worldVars, diskVars, job, resp, ran, view>>

(* Mutant: a file that exists is taken for the verified one.               *)
CacheHitExists(p) == files[KeyOf(resp[p])] # Absent

(* The cached file is used when its hash is the verified one.              *)
CacheHit(p) == files[KeyOf(resp[p])] = resp[p].content

Lookup(p) ==
    /\ pc[p] = "lookup"
    /\ IF ~job[p].noCache /\ CacheHit(p)
         THEN HavePath(p)
         ELSE Goto(p, "truncate") /\ UNCHANGED outcome
    /\ UNCHANGED <<worldVars, diskVars, job, resp, ran, view>>

(* os.WriteFile of the source: open with O_TRUNC, then write.              *)
Truncate(p) ==
    /\ pc[p] = "truncate"
    /\ files' = [files EXCEPT ![KeyOf(resp[p])] = Empty]
    /\ Touch(KeyOf(resp[p]))
    /\ Goto(p, "fill")
    /\ UNCHANGED <<worldVars, sidecars, job, resp, ran, view, outcome>>

(* Mutant: the sidecar is not written.                                     *)
FillNoSidecar(p) ==
    /\ pc[p] = "fill"
    /\ \E s \in Overlay(files[KeyOf(resp[p])], resp[p].content) :
         files' = [files EXCEPT ![KeyOf(resp[p])] = s]
    /\ Touch(KeyOf(resp[p]))
    /\ HavePath(p)
    /\ UNCHANGED <<worldVars, sidecars, job, resp, ran, view>>

Fill(p) ==
    /\ pc[p] = "fill"
    /\ \E s \in Overlay(files[KeyOf(resp[p])], resp[p].content) :
         files' = [files EXCEPT ![KeyOf(resp[p])] = s]
    /\ Touch(KeyOf(resp[p]))
    /\ Goto(p, "sideTruncate")
    /\ UNCHANGED <<worldVars, sidecars, job, resp, ran, view, outcome>>

(* A write that is cut short, by an error or by the death of the process,  *)
(* leaves the truncated file or a prefix of the text.                      *)
CutShort(p) ==
    \/ UNCHANGED diskVars
    \/ /\ pc[p] = "fill"
       /\ files' = [files EXCEPT ![KeyOf(resp[p])] = Torn]
       /\ Touch(KeyOf(resp[p]))
       /\ UNCHANGED sidecars
    \/ /\ pc[p] = "sideFill"
       /\ sidecars' = [sidecars EXCEPT ![KeyOf(resp[p])] = Torn]
       /\ UNCHANGED <<files, newer>>

(* A failed write of the source ends the command.                          *)
WriteFailed(p) ==
    /\ Faults
    /\ pc[p] \in {"truncate", "fill"}
    /\ CutShort(p)
    /\ End(p, "writeFailed")
    /\ UNCHANGED <<worldVars, job, resp, ran, view>>

(* os.WriteFile of the sidecar; its error is ignored.                      *)
SidecarTruncate(p) ==
    /\ pc[p] = "sideTruncate"
    /\ sidecars' = [sidecars EXCEPT ![KeyOf(resp[p])] = Empty]
    /\ Goto(p, "sideFill")
    /\ UNCHANGED <<worldVars, files, newer, job, resp, ran, view, outcome>>

SidecarFill(p) ==
    /\ pc[p] = "sideFill"
    /\ \E s \in Overlay(sidecars[KeyOf(resp[p])], resp[p].content) :
         sidecars' = [sidecars EXCEPT ![KeyOf(resp[p])] = s]
    /\ HavePath(p)
    /\ UNCHANGED <<worldVars, files, newer, job, resp, ran, view>>

SidecarWriteFailed(p) ==
    /\ Faults
    /\ pc[p] \in {"sideTruncate", "sideFill"}
    /\ CutShort(p)
    /\ HavePath(p)
    /\ UNCHANGED <<worldVars, job, resp, ran, view>>

(* workflowActions opens the path; damaged text may or may not parse.      *)
(* `--check` reports and stops; a run goes on unless a module is missing.  *)
Parse(p) ==
    /\ pc[p] = "parse"
    /\ \/ /\ job[p].cmd = "check"
          /\ End(p, "ok")
       \/ /\ job[p].cmd = "run"
          /\ Goto(p, "exec")
          /\ UNCHANGED outcome
       \/ /\ job[p].cmd = "run"
          /\ End(p, "missingModules")
       \/ End(p, "invalid")
    /\ UNCHANGED <<worldVars, diskVars, job, resp, ran, view>>

(* Mutant: the engine is handed the registry answer, not the source.       *)
ExecAnswer(p) ==
    /\ pc[p] = "exec"
    /\ ran' = [ran EXCEPT ![p] = resp[p]]
    /\ End(p, "ok")
    /\ UNCHANGED <<worldVars, diskVars, job, resp, view>>

(* execWorkflow opens the path again.                                      *)
Exec(p) ==
    /\ pc[p] = "exec"
    /\ ran' = [ran EXCEPT ![p] = files[KeyOf(resp[p])]]
    /\ End(p, "ok")
    /\ UNCHANGED <<worldVars, diskVars, job, resp, view>>

-----------------------------------------------------------------------------
(* `kue inspect`: FindCachedWorkflow, its sidecar, then the source.        *)

Cached == {k \in Key : files[k] # Absent}

(* Highest version; ties go to the newest modification time.               *)
Best ==
    {k \in Cached : \A j \in Cached :
        /\ j.version <= k.version
        /\ j.version = k.version => <<j, k>> \notin newer}

Find(p) ==
    /\ pc[p] = "find"
    /\ \/ /\ Cached = {}
          /\ End(p, "notCached")
          /\ UNCHANGED view
       \/ \E k \in Best :
          /\ view' = [view EXCEPT ![p] = [key |-> k, hash |-> Absent, text |-> None]]
          /\ Goto(p, "loadSidecar")
          /\ UNCHANGED outcome
    /\ UNCHANGED <<worldVars, diskVars, job, resp, ran>>

LoadSidecar(p) ==
    /\ pc[p] = "loadSidecar"
    /\ view' = [view EXCEPT ![p].hash = sidecars[view[p].key]]
    /\ Goto(p, "show")
    /\ UNCHANGED <<worldVars, diskVars, job, resp, ran, outcome>>

Show(p) ==
    /\ pc[p] = "show"
    /\ \/ /\ view' = [view EXCEPT ![p].text = files[view[p].key]]
          /\ End(p, "ok")
       \/ /\ End(p, "invalid")
          /\ UNCHANGED view
    /\ UNCHANGED <<worldVars, diskVars, job, resp, ran>>

(* The process is killed; what it wrote stays.                             *)
Crash(p) ==
    /\ Faults
    /\ pc[p] # "idle"
    /\ CutShort(p)
    /\ End(p, "crashed")
    /\ UNCHANGED <<worldVars, job, resp, ran, view>>

Step(p) ==
    \/ FetchVerified(p) \/ FetchRejected(p) \/ FetchFailed(p)
    \/ Lookup(p) \/ Truncate(p) \/ Fill(p) \/ WriteFailed(p)
    \/ SidecarTruncate(p) \/ SidecarFill(p) \/ SidecarWriteFailed(p)
    \/ Parse(p) \/ Exec(p)
    \/ Find(p) \/ LoadSidecar(p) \/ Show(p)

Next ==
    \/ \E o \in Owner, v \in Version, c \in Content : Publish(o, v, c)
    \/ \E p \in Proc, cmd \in Commands, nc \in BOOLEAN : Start(p, cmd, nc)
    \/ \E p \in Proc : Step(p)
    \/ \E p \in Proc : Crash(p)

Spec == Init /\ [][Next]_vars

-----------------------------------------------------------------------------
(* Properties.                                                             *)

(* What a cache entry may hold: a source its owner published under its     *)
(* version, or, where the registry states no hash, whatever was delivered. *)
Licensed(o, v, c) ==
    \E e \in published :
        /\ e.owner = o /\ e.version = v
        /\ e.content = c \/ (o \notin Hashed /\ BodiesMayDiffer)

(* However commands interleave, crash or fail, a complete cache file, a    *)
(* hash in a sidecar and an executed source are things the registry        *)
(* published for that owner and version (fetchRegistryWorkflow's integrity *)
(* check guards every way into the cache).                                 *)
OnlyPublishedContent ==
    /\ \A k \in Key :
         /\ files[k] \in Content => Licensed(k.owner, k.version, files[k])
         /\ sidecars[k] \in Content => Licensed(k.owner, k.version, sidecars[k])
    /\ \A p \in Proc : ran[p] \in Content =>
         Licensed(resp[p].owner, resp[p].version, ran[p])

(* run.txt: the SHA-256 of a registry workflow is verified before it runs. *)
(* What the engine executes is the text the command verified, although the *)
(* path is opened again after the verification.                            *)
RunsWhatItVerified ==
    \A p \in Proc : ran[p] # None => ran[p] = resp[p].content

(* Where commands overlap, the path may be truncated by another one when   *)
(* the engine opens it.  A run still executes no other text than the one   *)
(* it verified: that one, or the empty file.                               *)
RunsVerifiedOrEmpty ==
    \A p \in Proc : ran[p] # None => ran[p] \in {resp[p].content, Empty}

(* get.txt: outside a project `kue get` verifies and caches the workflow.  *)
(* When it reports success the cache file holds the verified source,       *)
(* whatever an earlier crash or failed write had left there.               *)
GetLeavesVerifiedCopy ==
    \A p \in Proc : outcome[p] = "ok" /\ job[p].cmd = "get" =>
        files[KeyOf(resp[p])] = resp[p].content

Writing == {"fill", "sideTruncate", "sideFill"}

(* When no command is between the first and the last write of an entry,    *)
(* every entry is whole: source and sidecar are both there, undamaged, and *)
(* the sidecar records the hash of that source.                            *)
QuiescentCacheIntact ==
    (\A p \in Proc : pc[p] \notin Writing) =>
        \A k \in Key : \/ files[k] = Absent /\ sidecars[k] = Absent
                       \/ files[k] \in Content /\ sidecars[k] = files[k]

(* inspect.txt: for a cached workflow the output shows where it came from, *)
(* its content hash included.  The hash shown is that of the text shown.   *)
InspectHashMatches ==
    \A p \in Proc :
        (view[p] # None /\ view[p].hash \in Content /\ view[p].text \in Content)
            => view[p].hash = view[p].text

(* get.txt: `kue run <name>` can use the cached copy offline.  A run that  *)
(* fails for want of a registry answer has no complete copy to fall back   *)
(* on.                                                                     *)
CachedCopyRunsOffline ==
    \A p \in Proc : outcome[p] = "fetchFailed" /\ job[p].cmd = "run" =>
        \A k \in Key : files[k] \notin Content

(* get.txt: what `kue get` caches is there for `kue inspect <name>`.  Right *)
(* after a successful get, the copy it cached is the one inspect resolves  *)
(* the name to.                                                            *)
GetIsWhatInspectFinds ==
    \A p \in Proc : outcome[p] = "ok" /\ job[p].cmd = "get" =>
        KeyOf(resp[p]) \in Best

(* One command at a time, the cache is invisible: a run executes what the  *)
(* registry published at some moment of that run (FreshRun).               *)
Abstract == INSTANCE FreshRun WITH
    current <- [o \in Owner |->
                  IF registry[o] = Unpublished THEN None ELSE registry[o].content],
    holding <- [p \in Proc |-> IF resp[p] = None THEN None ELSE resp[p].content]

CacheIsTransparent == Abstract!Spec

=============================================================================
