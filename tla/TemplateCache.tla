---------------------------- MODULE TemplateCache ----------------------------
(***************************************************************************)
(* The cache of project templates under ~/.kue (modules/shared/templates   *)
(* and modules/templates): downloaded archives, unpacked file by file into *)
(* one directory per version.  Every command that needs templates loads    *)
(* them as `kue templates download` does: a directory that is there is     *)
(* taken as it is.  `kue templates update` removes it and downloads again, *)
(* `kue templates clear` removes everything.                               *)
(*                                                                         *)
(* Local directories and git repositories, the other two sources, are not  *)
(* modelled: they have no state of kue's own.                              *)
(***************************************************************************)
EXTENDS Naturals, FiniteSets

CONSTANTS
    Proc,           \* kue processes
    File,           \* names of template files
    Content,        \* what a template file may contain
    Version,        \* template versions
    Url,            \* places archives are downloaded from
    Home,           \* [Version -> Url], used where no URL is configured
    Configured,     \* URLs users configure
    Format,         \* [Url -> SUBSET {"tar", "zip"}], what is offered there
    Faults,         \* requests and writes may fail, processes may crash
    MaxPublishes,   \* bound: changes of the archives
    Absent, Torn, None

Tree == [File -> Content \cup {None}]

Directory == [File -> Content \cup {None, Torn}] \cup {Absent}

ASSUME TemplateCacheAssumption ==
    /\ Version # {}
    /\ Home \in [Version -> Url] /\ Configured \subseteq Url
    /\ Format \in [Url -> SUBSET {"tar", "zip"}]
    /\ Faults \in BOOLEAN /\ MaxPublishes \in Nat
    /\ {Torn, None} \cap Content = {} /\ Torn # None
    /\ None \notin Url /\ None \notin Tree
    /\ Absent \notin [File -> Content \cup {None, Torn}]

VARIABLES
    archive,    \* what is published at every URL
    published,  \* history: whatever was published there
    dir,        \* the cache: ~/.kue/<cache>/templates/web/<version>
    pc, job,
    fetched,    \* the archive a command has downloaded, in a temporary file
    todo,       \* files it has still to unpack
    loaded      \* the templates a command that succeeded has found

vars == <<archive, published, dir, pc, job, fetched, todo, loaded>>

-----------------------------------------------------------------------------
NoFiles == [f \in File |-> None]

(* Archives hold whole files; a directory may hold files cut short, and it *)
(* may be gone when the command that found it goes on.                     *)
TypeOK ==
    /\ archive \in [Url -> Tree]
    /\ published \in [Url -> SUBSET Tree]
    /\ dir \in [Version -> Directory]
    /\ pc \in [Proc -> {"idle", "stat", "remove", "make", "tar", "zip",
                        "extract", "clear"}]
    /\ job \in [Proc -> [cmd : {"download", "update", "clear"},
                         url : Configured \cup {None}, version : Version]]
    /\ fetched \in [Proc -> Tree]
    /\ todo \in [Proc -> SUBSET File]
    /\ loaded \in [Proc -> Directory \cup {None}]

(* Some archives are published, with every file; the cache is empty.       *)
Init ==
    /\ archive \in [Url -> [File -> Content]]
    /\ published = [u \in Url |-> {archive[u]}]
    /\ dir = [v \in Version |-> Absent]
    /\ pc = [p \in Proc |-> "idle"]
    /\ job \in [Proc -> [cmd : {"clear"}, url : {None},
                         version : {CHOOSE v \in Version : TRUE}]]
    /\ fetched = [p \in Proc |-> NoFiles]
    /\ todo = [p \in Proc |-> {}]
    /\ loaded = [p \in Proc |-> None]

-----------------------------------------------------------------------------
(* An archive is replaced; files may be dropped from it (external).        *)
Publish(u, a) ==
    /\ Cardinality(published[u]) <= MaxPublishes
    /\ a # archive[u]
    /\ archive' = [archive EXCEPT ![u] = a]
    /\ published' = [published EXCEPT ![u] = @ \cup {a}]
    /\ UNCHANGED <<dir, pc, job, fetched, todo, loaded>>

-----------------------------------------------------------------------------
Goto(p, l) == pc' = [pc EXCEPT ![p] = l]

world == <<archive, published>>

Start(p, cmd, url, v) ==
    /\ pc[p] = "idle"
    /\ job' = [job EXCEPT ![p] = [cmd |-> cmd, url |-> url, version |-> v]]
    /\ fetched' = [fetched EXCEPT ![p] = NoFiles]
    /\ todo' = [todo EXCEPT ![p] = {}]
    /\ loaded' = [loaded EXCEPT ![p] = None]
    /\ Goto(p, IF cmd = "clear" THEN "clear" ELSE "stat")
    /\ UNCHANGED <<world, dir>>

(* The URL decides what is downloaded, the version alone where it is kept. *)
Source(p) == IF job[p].url # None THEN job[p].url ELSE Home[job[p].version]

Cached(p) == dir[job[p].version]

(* The templates directory is set and the command goes on with it.         *)
Use(p) ==
    /\ loaded' = [loaded EXCEPT ![p] = Cached(p)]
    /\ Goto(p, "idle")

Fail(p) == Goto(p, "idle") /\ UNCHANGED loaded

(* Mutant: a refresh does not remove what is cached.                       *)
RefreshesNot(p) == FALSE

Refreshes(p) == job[p].cmd = "update" /\ Cached(p) # Absent

Stat(p) ==
    /\ pc[p] = "stat"
    /\ \/ Cached(p) # Absent /\ job[p].cmd = "download" /\ Use(p)
       \/ /\ Refreshes(p)
          /\ Goto(p, "remove") /\ UNCHANGED loaded
       \/ /\ Cached(p) = Absent \/ (job[p].cmd = "update" /\ ~Refreshes(p))
          /\ Goto(p, "make") /\ UNCHANGED loaded
    /\ UNCHANGED <<world, dir, job, fetched, todo>>

Remove(p) ==
    /\ pc[p] = "remove"
    /\ dir' = [dir EXCEPT ![job[p].version] = Absent]
    /\ Goto(p, "make")
    /\ UNCHANGED <<world, job, fetched, todo, loaded>>

(* os.MkdirAll: the directory is there before anything is downloaded.      *)
Made(d) == IF d = Absent THEN NoFiles ELSE d

Make(p) ==
    /\ pc[p] = "make"
    /\ dir' = [dir EXCEPT ![job[p].version] = Made(@)]
    /\ Goto(p, "tar")
    /\ UNCHANGED <<world, job, fetched, todo, loaded>>

(* Mutant: the error of the download is dropped.                           *)
DownloadsCut(u) == {archive[u], [f \in File |-> Torn]}

Downloads(u) == {archive[u]}

Get(p) ==
    /\ pc[p] \in Format[Source(p)]
    /\ fetched' \in {[fetched EXCEPT ![p] = a] : a \in Downloads(Source(p))}
    /\ todo' = [todo EXCEPT ![p] = {f \in File : fetched'[p][f] # None}]
    /\ Goto(p, "extract")
    /\ UNCHANGED <<world, dir, job, loaded>>

(* No archive: the other format is tried, once.                            *)
GetFailed(p) ==
    /\ pc[p] \in {"tar", "zip"}
    /\ Faults \/ pc[p] \notin Format[Source(p)]
    /\ IF pc[p] = "tar" THEN Goto(p, "zip") /\ UNCHANGED loaded ELSE Fail(p)
    /\ UNCHANGED <<world, dir, job, fetched, todo>>

(* The connection breaks within an archive: there is no second try.        *)
CopyFailed(p) ==
    /\ Faults
    /\ pc[p] \in Format[Source(p)]
    /\ Fail(p)
    /\ UNCHANGED <<world, dir, job, fetched, todo>>

Unpacked(p) == todo[p] = {}

(* ExtractTarGz and ExtractZip: one file after the other.                  *)
Extract(p) ==
    /\ pc[p] = "extract"
    /\ IF Unpacked(p)
         THEN Use(p) /\ UNCHANGED <<dir, todo>>
         ELSE \E f \in todo[p] :
                /\ dir' = [dir EXCEPT ![job[p].version] =
                             [Made(@) EXCEPT ![f] = fetched[p][f]]]
                /\ todo' = [todo EXCEPT ![p] = @ \ {f}]
                /\ UNCHANGED <<pc, loaded>>
    /\ UNCHANGED <<world, job, fetched>>

Clear(p) ==
    /\ pc[p] = "clear"
    /\ dir' = [v \in Version |-> Absent]
    /\ Goto(p, "idle")
    /\ UNCHANGED <<world, job, fetched, todo, loaded>>

(* What a step that fails or is interrupted leaves of a directory: a file  *)
(* cut short, or a part of the files removed.                              *)
Remains(d) ==
    IF d = Absent THEN {d}
    ELSE {[f \in File |-> IF f \in K THEN d[f] ELSE None] : K \in SUBSET File}

Interrupted(p) ==
    \/ UNCHANGED dir
    \/ /\ pc[p] = "extract"
       /\ \E f \in todo[p] :
            dir' = [dir EXCEPT ![job[p].version] = [Made(@) EXCEPT ![f] = Torn]]
    \/ /\ pc[p] = "remove"
       /\ dir' \in {[dir EXCEPT ![job[p].version] = d] : d \in Remains(Cached(p))}
    \/ /\ pc[p] = "clear"
       /\ dir' \in {D \in [Version -> (UNION {Remains(dir[v]) : v \in Version}) \cup {Absent}] :
                       \A v \in Version : D[v] \in Remains(dir[v]) \cup {Absent}}

Failed(p) ==
    /\ Faults
    /\ pc[p] \in {"remove", "make", "extract", "clear"}
    /\ Interrupted(p)
    /\ Fail(p)
    /\ UNCHANGED <<world, job, fetched, todo>>

Crash(p) ==
    /\ Faults
    /\ pc[p] # "idle"
    /\ Interrupted(p)
    /\ Goto(p, "idle")
    /\ UNCHANGED <<world, job, fetched, todo, loaded>>

Step(p) ==
    \/ Stat(p) \/ Remove(p) \/ Make(p)
    \/ Get(p) \/ GetFailed(p) \/ CopyFailed(p)
    \/ Extract(p) \/ Clear(p)
    \/ Failed(p) \/ Crash(p)

Next ==
    \/ \E u \in Url, a \in Tree : Publish(u, a)
    \/ \E p \in Proc, cmd \in {"download", "update", "clear"},
          url \in Configured \cup {None}, v \in Version : Start(p, cmd, url, v)
    \/ \E p \in Proc : Step(p)

Spec == Init /\ [][Next]_vars

-----------------------------------------------------------------------------
(* Properties.                                                             *)

(* update.txt: "Force-refresh the template cache".  A successful update    *)
(* leaves exactly the files of the archive it has downloaded, whatever     *)
(* failed downloads, crashes and earlier archives left in the directory.   *)
UpdateLeavesArchive ==
    \A p \in Proc : job[p].cmd = "update" /\ loaded[p] # None =>
        loaded[p] = fetched[p]

(* download.txt: "Download and cache templates from the configured         *)
(* source".  The templates a command reports and uses are an archive, all  *)
(* of it and nothing else.                                                 *)
LoadedIsWhole ==
    \A p \in Proc : loaded[p] # None =>
        \E u \in Url : loaded[p] \in published[u]

(* ... and an archive of the source that is configured.                    *)
LoadedIsConfigured ==
    \A p \in Proc : loaded[p] # None => loaded[p] \in published[Source(p)]

=============================================================================
