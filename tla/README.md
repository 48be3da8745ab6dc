# A verification project for kue

kue is the command line of the Kuetix workflow registry: it uploads a project's
workflows, compares them with the registry, fetches and runs workflows by name,
searches and installs packages, and scaffolds new modules. This directory holds
TLA+ models of the parts of it whose correctness depends on *order*: what happens
when two commands overlap, a process dies, a request or its answer is lost, or
the registry changes between two steps of one command.

There is no server or daemon on kue's side. Every command is an operating-system
process (`src/cmd/cli/main.go` parses the arguments, the engine runs the workflow
of that command, which calls one transition of `src/modules/*/transitions`). So the
concurrency to think about is that of **processes sharing files without locks**
and of **one client among several of a remote registry**. There is no lock file,
no rename into place and no retry queue anywhere in the code: `os.WriteFile`
(open with `O_TRUNC`, then write) is how every file is written.

## The system: components, state, operations

| component | state it keeps | operations | what is hard | model |
|---|---|---|---|---|
| workflow runner and cache (`runner.go`, `shared/cache.go`, `project.go`) | `~/.kue/cache/workflows/<owner>/<name>@v<version>.<ext>` and `.meta.json` sidecars | run, get outside a project, inspect | verified file is reopened; two writers; death in a write; a version whose text changes | `RegistryCache`, `FreshRun` |
| name list (`shared/list.go`, `workflow.go`) | `~/.kue/cache` collection file `list` | list, get with a glob, status | pages while the server changes; lifetime; torn file; other account | `NameList` |
| upload, status, delete (`workflow.go`) | the registry's workflows and package descriptors (remote) | upload, status, delete | lost requests and lost answers; conflicts; two first uploads; edits under way | `RegistryUpload` |
| session (`config.go`, `auth.go`, `shared/helpers.go`) | `~/.kue/config.json`: host and login | login, logout, register, every authenticated request | token and host of different servers; two writers; torn file | `Session` |
| template cache (`shared/templates.go`, `templates.go`) | `~/.kue/<cache>/templates/web/<version>/` | download, update, clear, use by create | a directory that exists counts as complete | `TemplateCache` |
| install (`install.go`) | `workflows/` and `go.mod` of a project | install, bulk install | some of several steps fail; a file is there already; one record writes over another | `Install` |
| payload of an upload (`workflow.go: collectImports, buildPayload`; `install.go` for the other end) | none: what a project's files and `go.mod` make of it | collect references, read `go.mod`, describe dependencies, install elsewhere | cycles, missing files, references that mean something else in another directory; a line read without its block | `Payload` |
| packages (`pkg.go`) | `modules/modules.go`, bootstrap files, `kuetix.json`; the registry's package (remote) | enable, publish, add, update, look up, list local | one step of several fails; source edited as text, command after command; lost answers | `Packages` |
| scaffolding (`create.go`, `add.go`, `shared/generators.go`, `shared/metadata.go`) | a project's source files and their metadata | create, add, add transition | a dozen files one by one, templates missing one by one; overwriting what a user wrote | `Scaffold` |
| module list generation (`cmd/gen-modules`) | generated `modules.go`, `di.go`, `meta.go` | generate | none of order: one pass over one file | not modelled |
| command line (`cmd/cli`, `cmd/modules`), help | none | parse, dispatch, print | none of order | not modelled |
| engine, filejsondb (`src/vendor`) | (external) | parse a file by path, resolve `extends`, a JSON file per collection | | by its use only; `Target` in `Payload` |

Interactions: every command except local ones starts with *Session* (it resolves
the configuration file, then sends requests with host and token). *RegistryUpload*
fills what *RegistryCache* and *NameList* read from the registry. The three caches
share a home directory but no file. *Scaffold* renders the templates that *TemplateCache*
keeps, one of which may be missing. *Payload* is the body that *RegistryUpload* sends and
*Install* writes. `kue create` (*Scaffold*) makes the `modules.go` and `kuetix.json` that
*Packages* edits.

For each component, what makes it correct:

* **RegistryCache** nothing reaches cache or engine that was not verified; a crash
  or a failed write is never mistaken for a copy; the cache cannot be observed.
* **NameList** a listing is a state the server could have been in, page by page;
  a cached one misses nothing for longer than its lifetime and its listing; a listing ends.
* **RegistryUpload** a line that is printed was true of the server at some moment
  of the command.
* **Session** a token is shown only to the server that issued it; logout is final.
* **Install** what is reported as installed is in the project, with its imports and
  the modules it needs.
* **TemplateCache** what is used as templates is one published archive, whole.
* **Scaffold** what is reported as created is there; a user's file is replaced only by
  consent; what was added by one command survives the next.
* **Packages** an enabled module stays imported and called; what a user describes in
  `kuetix.json` survives; what is reported of the registry was so.
* **Payload** what a workflow refers to arrives with it and stands where it stood; a
  dependency is what `go.mod` says it is.

## The models

Common conventions. Each process has a `pc` label naming its next system call or
request; a step is one system call, one request or one answer, since another
process or a crash can fall between any two of them. A write of a file is two
steps (truncate, fill): a fill that meets somebody else's text ends with the new
text or with a mixture (`Torn`), because both write at offset 0 of one file.
`Crash` and the `...Failed` actions leave the truncated file or a prefix. What the
registry, a user or an editor does is an action marked external. History variables
are marked `history` in the declarations; no guard of a command reads one.

### RegistryCache (with FreshRun)

`files`, `sidecars` and `newer` are the directory (text, recorded hash,
modification order of one workflow name); `registry` is what each owner publishes
now and `published` all it ever did. `Start` is a command line, `FetchVerified /
FetchRejected / FetchFailed` is `fetchRegistryWorkflow` up to the integrity check,
`Lookup` the comparison of the cached file's hash (skipped with `--no-cache`),
`Truncate, Fill, SidecarTruncate, SidecarFill` the two `os.WriteFile` calls, whose
first error ends the command and whose second one is ignored. `Parse` and `Exec`
each open the path again. `Find, LoadSidecar, Show` are `kue inspect` with
`FindCachedWorkflow`'s choice of the best file. A digest is represented by the text
it is computed from (SHA-256 is taken to be injective). The loader of local
directories and GitHub sources, and the check of an action's modules, are choices
within `Parse`.

`FreshRun` is the abstract specification: a run takes what an owner publishes at one
moment of the run, and executes that or nothing. `RegistryCache` implements it with
`current` mapped to the registry and `holding` to the verified answer.

### NameList

A name is its position in the server's order, a cursor the last name delivered.
`Open` decides between cache and server, `Page` is one request and its answer for
`list` and for `status`, `PageUnread / PageEmpty` are the shapes of answers the code
treats differently, `Truncate / Fill` is the update of the cached list with its
timestamp: it is taken after the last page and before the write, and a cached list's age
is counted from it. `steady` and `seen` remember, for each listing, the names that were on the
server all along and at some time, `took` how long it had lasted when it was dated, and
`since` when a name last came or went. The server's paging is external: name order, a
cursor that moves past every delivered name, empty at the end.

### RegistryUpload

`Read` and `Parse` are the two times `buildPayload` opens a workflow (source, and
actions through the engine). `Send` and `Receive` are a request and its answer:
`NotSent` loses the request, `Answered` may lose the answer. `ReadPackage,
SendPackage, PackageReceive` are `uploadPackageMetadata` with its PUT after a
conflict; `Names, Compare` are status, `Delete` is delete. `held` remembers what the
server held since a command began. Every command prints its lines at its end, so a
command that stops early has said nothing (`Quit`).

### Session

An address is a scheme and a name; a token is the name of the server that issued it.
`Resolve` is `config.Resolve` with what each command does before its first request,
`Login` is `PostLogin` (https, then http), `Request` stands for
`PerformAuthenticatedRequest`, `PerformOptionalAuthRequest` and the registration,
`SaveTruncate / SaveFill` for `SaveKueConfig`. `signedOut` remembers that a logout
has finished that no login overlapped.

### TemplateCache

`Stat` finds the directory there or not, `Remove` is the refresh of `update`, `Make` the
directory made before the download, `Get` the download to a temporary file (tar.gz
first, zip if there is none), `Extract` one file of the archive after the other. Failures
and crashes in `os.RemoveAll` leave part of the files, in the unpacking a cut file.

### Install

`Start` is the command with the records its pattern stands for (`ListOfNames` answers
them, see *NameList*), `NextRecord` the loop with the choice of the asset type,
`FetchWorkflow`, `FallThrough` and `FetchPackage` the requests, `WriteImport` one import
after the other in any order (a Go map). `Write` is `writeWorkflowFile`: compare, then
`Truncate` and `Fill`. `NoRequires`, `ReadRequires` and `GoGet` are `addGoModuleRequires`;
`go get` itself is external and one step. Variables of a record are cleared with it, as
the locals they are. The registry is fixed within a behaviour, but any; so are the files
and the go.mod found at the start. Commands do not overlap: `os.WriteFile` without a lock
allows no claim about two that do.

`InPlace` is the abstract specification: things come into place in a project and stay, and
only what is in place is reported. `Install` implements it (`NothingComesApart`) with
`placed` mapped to the workflows that stand in the project with all their imports, be they
from this command or not, and with nothing ever taken out or cut short: a write is only of
a file that was not up to date.

### Scaffold

`files` is the project, `plan` what the command still has to write, in the order of its
code. `Begin` is the common start of `AddModule, AddWorkflow, AddFeature, AddSolution`:
the name of the file (`ToCamelCase`, under which two names may be one file) and the one
question, `Confirm / Cancel`, asked before the first write. `Create` has the files of
`GenerateXApp`, `GenerateCommonFiles` and the metadata, and rejects an unknown type only
after `MakeDirs`. `OpenFile, Fill` are the template rendered and written; `OpenFailed` is a
template that is missing or a directory that is not there; the fallbacks of a package and
of a module follow it. `Skip` keeps a `modules.go`. `Read, Compose, Truncate, Fill, Report`
are `add transition`, `Mentions` its search of the text. `mine` remembers the files of
users that they did not give away, `added` the methods reported as added, `cut` the files
an append was cut short on.

### Packages

`modulesGo` holds what the edits look at: the imports, the calls, and whether there is an
import block, an `init` and an `Enable` function to find. `WithImport` and `WithCall` are
the textual replacements, which leave alone what they do not find; `Contains` is
`strings.Contains` on an import path, which finds a longer one too (`Longer`).
`OpenShim, FillShim` write the bootstrap file of the path's last element (`Seg`, which two
modules may share), `OpenModules, FillModules` modules.go. Publish is `ReadManifest`
(options over what the file has; a file that does not parse is ignored), `OpenManifest /
FillManifest`, the request and its answer (`SendPublish, Published, PublishFailed`). `Upsert`
to `UpsertFailed` are add and update, `Info` to `Suggest` the three requests of a look-up.
An answer to a look-up is a `Body`: its status, whether its text is nothing, no JSON object
or one, whether "success" is false, and what "data" is; `HasData` is `packageBodyHasData`
on those, for which a text that is no object counts, and an object without "data" or with
one that is null. What the registry answers for a package it has, and for one it has not,
is a constant each (`Shown`, `Denials`).
`Withdraw` is the registry's other users. `seen` and `known` remember, for each command,
what was there at some time of it, `known` also which of its requests failed; `enabled` and
`owed` what later commands must keep.
`Packages` implements `InPlace` too (`EnablesOneByOne`): an item is a module, in place when
its shim enables it and `modules.go`, or the text being written to it, imports and calls it.
Only the module that is being enabled may be out of place again, its earlier report being
taken back (`Renewed`), and the promise ends where a write of `modules.go` is cut short
(`cut`), since all modules share that file.

### Payload

A behaviour is one upload followed by an installation in an empty project. `stack` is the
recursion of `collectImports`: `Again, Missing, Collect, Return` are the four ways its loop
goes on, `Candidate` its four places to look. A `Ref` is what the code takes for a
reference, the text behind `import` or `extends` to the end of the line, be it a name, a
name with its extension, or one with an alias or a comment behind; `At` says where
appending `.wsl` or `.swsl` to that text leads from a directory. `ScanLine` is one line of
`parseGoModProvenance`, `Depend` one action's dependency with the catalogue entry that
`loadModulesJSONEntry` or `synthModuleInfoFromCache` gives. `WriteImport` installs one
import under the text it was collected by. What a line of `go.mod` means (`KindOf`) is
defined independently of what the code does with it. `Target` is what the engine loads for
a reference (`wslExtendsLoad` in `src/vendor`): what a workflow extends, from its own
directory, with a given extension, or `.wsl`, `.swsl` or `.json`; an import it only parses.
No property of the run rests on `Target`: what it says the code does not keep
(`SharedResolves`, below).

## The runs

Passing runs:

| run | instance | what it shows |
|---|---|---|
| `rc_sole` | 1 process, 1 owner, 2 versions, 2 texts, 3 publications; altered bodies, changing versions, crashes | `RunsWhatItVerified`, `GetLeavesVerifiedCopy` and the refinement `CacheIsTransparent`: without overlap the cache does not show, whatever crashed before |
| `rc_immutable` | 2 processes, 1 owner, 2 versions, 2 texts, 2 publications; altered bodies, no crashes | `OnlyPublishedContent`; `QuiescentCacheIntact`: overlapping writers of one entry leave source and sidecar whole as long as both fetched the same text; `RunsVerifiedOrEmpty`: the worst an overlap does to a run is that it executes a file just emptied |
| `nl_list` | 2 processes, 3 names, pages of 1, lifetime 1, clock to 2, 1 change, crashes | `ListingIsConsistent`; `CacheLagIsBounded`: a cached list is wrong only of a workflow that came or went less than the lifetime, and the time its listing took, ago |
| `nl_ends` | 1 process, 3 names, pages of 1, 2 changes, crashes, fairness | `ListingEnds` |
| `ru_report` | 2 processes, 1 workflow, 3 sources (one unparsable, one empty), 2 descriptors, 1 edit, lost requests and answers, crashes | `UploadReportIsTrue`, `StatusReportIsTrue`, `PackageReportIsTrue` |
| `se_token` | 2 processes, 2 servers on both schemes, one address in KUE_HOST, one in --host, crashes | `TokenStaysWithHost`, `LogoutForgets` |
| `in_bulk` | 2 names, 2 texts, 2 modules, one of the names also a package; any registry whose imports are what is published, any files before; failures of every request, write and `go get`, crashes | `InstalledIsComplete`, `ModulesAccounted`, `OnlyStaleFilesChange` and the refinement `NothingComesApart` of `InPlace` |
| `tc_update` | 1 process, 2 files, 2 texts, 2 URLs, 1 change of an archive, crashes | `UpdateLeavesArchive` |
| `sc_project` | 1 process, 3 commands, 2 names of one file, 2 methods, 1 edit by a user; missing templates, failed writes, crashes | `ReportedIsInPlace`, `OwnFilesAreKept`, `AddedMethodsStay` |
| `pk_project` | 1 process, 5 commands, 2 modules, 2 versions, 3 shapes of modules.go, 1 withdrawal; lost requests and answers, failed writes, crashes | `EnabledIsWired`, `PublishReportIsTrue`, `KnownFieldsSurvive`, `LookupIsTrue` (what a look-up shows was there, and an endpoint that fails is made up for by the other) and the refinement `EnablesOneByOne` of `InPlace` |
| `pl_share` | four workflows in two directories, any of which may be missing, one also simplified, with up to two references each, imports and extends, from the root and below it, one text with an extension; every go.mod of a few lines and blocks | `ScanIsBounded`; `ReferencesArrive`: what an installed workflow refers to from the root is there as it stood; `DependencyIsDescribed` |

The run in which the code disagrees with what the repository says of it:

| run | statement | what TLC shows |
|---|---|---|
| `rc_race` | run.txt, README: the hash is verified before a workflow runs | A second command truncates the entry between verification and execution; the engine runs an empty file |

Each property of a passing run holds under conditions, which the constants of the run
state. The configurations below drop one condition each, and TLC then finds the property
violated: they show where the code stops keeping what it, or its documentation, promises.
They are kept beside the runs; run them with `tlc -config <name>.cfg MC<module>`.

| configuration | outcome |
|---|---|
| `rc_stale_sidecar` | `InspectHashMatches` violated: a crash or ignored error between source and sidecar leaves the hash of an earlier text, and later cache hits do not repair it |
| `rc_offline` | `CachedCopyRunsOffline` violated: a run asks the registry first and fails without it, although a verified copy is there (get.txt says it can be used offline) |
| `rc_get_inspect` | `GetIsWhatInspectFinds` violated: inspect takes the highest version of any owner and format, not the copy just fetched |
| `nl_account` | `ListIsOwn` violated (list.txt: workflows owned by the authenticated user): the cached list is kept under one key; after a login to another account the former one's names are shown for five minutes |
| `nl_shapes` | `SupportedShapesAreRead` violated: of the shapes `fetchServerWorkflowNames` lists, all but an object under "data" end the command, one in a failed type assertion |
| `nl_empty` | `StatusSeesServer` violated: an empty body in place of a later page is taken for an empty server |
| `ru_conflict` | `UploadReportIsTrue` violated where the registry answers a second POST with a conflict (upload.txt: POST is create/update): it counts as uploaded, nothing is retried, the old text stays |
| `ru_two_reads` | `UploadedSourceParses` violated: an edit between the two reads uploads a source other than the one that was parsed |
| `se_login` | `LoginReachesHost` violated (login.txt: --host, default api.kuetix.com): `PostLogin` turns every https address, so every host given without a scheme, into `https://s://host` |
| `se_env` | `KueHostOverrides` violated: once a host is stored, KUE_HOST has no effect |
| `tc_failed` | `LoadedIsWhole` violated (download.txt: download and cache templates): after a failed download the directory stays, and the next command reports success with no or some templates |
| `tc_source` | `LoadedIsConfigured` violated: the cache key leaves out the URL |
| `in_snapshots` | `InstalledIsComplete` violated where an upload keeps an older text of an import: a bulk get writes it over the newer one it has just reported as installed ("a fetch always wins over a stale local copy", install.go:280) |
| `in_replace` | `ModulesAccounted` violated where go.mod names a module in a replace or exclude block: it is reported as present and never required |
| `sc_metadata` | `OwnFilesAreKept` violated: the metadata beside a source is written without being looked for, so an edited one is lost without a question |
| `sc_lost` | `AddedMethodsStay` violated: of two `add transition` to one module the second write drops the first method |
| `pk_prefix` | `EnabledIsWired` violated: with std-core enabled, enabling std finds its path as the beginning of the other, changes nothing and says "Updated %s with Enable() call for '%s'" (pkg.go:660) |
| `pk_lost` | `EnabledIsWired` violated: of two overlapping enables the second write drops the first module |

More variations of the runs, by the constants to change and the invariant to check:

| in | set | violated, or holds |
|---|---|---|
| `rc_race` | `BodiesMayDiffer`, `Faults` TRUE, `VersionsImmutable` FALSE, `MaxPublished` 2 | holds: `OnlyPublishedContent` with crashes and overlap |
| `rc_sole` | two owners, `Faults`, `BodiesMayDiffer` FALSE | holds: `QuiescentCacheIntact` and `InspectHashMatches` without faults |
| `ru_report` | one process, `Workflows` 2 | holds: all reports |
| `tc_update` | two versions, `Configured` {}, `Home <- TwoHomes`, no faults | holds: `LoadedIsConfigured`, as long as only the version decides the source |
| `tc_failed` | two processes, no faults | `LoadedIsWhole`: a directory another command is filling is taken for complete |
| `sc_project` | (nothing) | `AppendsAreSafe`, `ReportedIsWhole`: an append cut short takes the user's text away, and the empty file counts as a module from then on |
| `sc_project` | `Ends <- SecondEndsWithFirst` | `RefusalIsRight`: a method whose name ends another's is "already there" (add.go:500) |
| `pk_project` | `Seg <- Together` | `EnabledIsWired`: two modules with one last element share a bootstrap file |
| `pk_project` | `Shapes <- Unusual` | `EnabledIsWired`, `ListedIsCalled`: without a function to put the call in, the import alone is written, reported as enabled and listed ("those whose Enable() is called", pkg.go:753) |
| `pk_project` | `Descriptors <- NotJson` | `KnownFieldsSurvive`: a kuetix.json that does not parse is replaced |
| `pk_project` | `Descriptors <- WithModules` | `AllFieldsSurvive`: fields that `PackageInfo` does not have are dropped |
| `pk_project` | (nothing) | `EnabledStaysWired`: a write of modules.go that is cut short loses every module enabled so far |
| `pk_project` | (nothing) | `NoPackageIsTrue`: with every request lost there is "No package named %q on the registry" |
| `pk_project` | `Denials <- DeniedInWords`, `DeniedByNull` | `LookupIsTrue`: an answer that is no JSON object, or whose "data" is null, counts as a package (pkg.go:270-302) |
| `nl_list` | (nothing) | `CacheLagIsLifetime`: the list is dated after its last page, so that a change between two pages is missed for longer than five minutes |
| `pl_share` | `Projects <- ExtendsInDirectory` | `SharedResolves`: a workflow extended in a subdirectory, as `src/workflows/cli/startup.wsl` and `TestCollectImports` have it ("extends is relative to the file's directory", workflow.go:924), is installed in the root, where the engine does not look for it |
| `pl_share` | `Projects <- Shadowed`, `Simplified`, `WithExtension` | `SharedResolves`: a workflow of the same name in the root is sent instead; a .swsl is saved as .wsl; a reference with its extension is looked for with two, and not sent |
| `pl_share` | `Projects <- Excluding`, `OtherVersion`, `OneVersion` | `DependencyIsDescribed`: an entry of an exclude block counts as a requirement; versions left of an arrow are misread |
| `pl_share` | `Projects <- InBlock`, `Slashed = {mb}` | `DependencyIsDescribed`: a required module whose path has no '/' is skipped in a block |

### Bounds, and why they are enough

* **Processes.** Two, where commands overlap: the hazards are pairwise (a writer and a
  reader, two writers, two clients). One where a property is stated for commands that do
  not overlap (`rc_sole`, `tc_update`, `sc_project`, `pk_project`): a process may start
  any number of commands one after the other, so histories of any length are covered
  (`sc_project` and `pk_project` count commands, `MaxCommands`: each property relates what
  two commands reported and what a third one does to it, and a user's edit or a withdrawal
  falls between any two). The theorems below hold for any number of processes. Processes
  are interchangeable, and so declared as symmetric in the runs of invariants.
* **Texts, versions, names.** Two texts tell "the right one" from "another one"; two
  versions make `inspect` choose; a third publication returns to the first text, so a
  cached file can be stale and become right again. Three names on pages of one give a
  first, a middle and a last page.
* **One workflow name** in the caches: files of different names do not interact. **One
  workflow** in `ru_report`: the loop treats workflows one by one and shares nothing
  between them but the order; the reports also hold with one process and two workflows.
* **Names and methods** in `sc_project`: two names of one file, the second in a directory
  that is not there, so that files meet and metadata does not. Two methods tell the one
  just added from an earlier one. Of the files that `GenerateCommonFiles` writes all alike,
  the first and the last stand for the rest.
* **Projects** in `pl_share`: two workflows in the root and two below it, one of which has
  the name of one in the root, each with up to two references, have chains, diamonds,
  self-references and cycles of two and three, and texts that mean one file from the root
  and another from a directory; a go.mod has a directive of each kind and a block of those
  that have one. The inputs are initial states, so that every one is explored.
* **MaxPublished, MaxChanges, MaxEdits, MaxPublishes, MaxWorld** bound what the outside world does,
  never what kue does. **MaxClock** is 2 and the lifetime 1 instead of 300 s (`nl_list`),
  so that ages below, at and above it occur, and listings that take longer than it.
* The instances explored are of 10^4 to a few 10^6 states. Deadlock is checked in all of
  them; none stops, since a command can always be started, or `Finished` says that the
  bound on commands is used up (`sc_project`, `pk_project`) or the upload done (`pl_share`).

### Fairness

Only `nl_ends` needs it. `FairSpec` asks for weak fairness of every process's steps:
the operating system schedules it, and every request is answered or fails. The first is
what any scheduler gives. The second is an assumption about the network: kue's HTTP client
sets no timeout, so a server that accepts a request and never answers hangs the command;
no run claims otherwise. Nothing is assumed of the server, of the clock, of other users or
of crashes. Changes of the server are bounded (`MaxChanges`), but the cursor moves past a
name with every page, so the loop ends even if they were not.

## The proofs

`<name>Proofs` states theorems about the module `<name>` for all values of its constants:
any number of processes, owners, versions, names and texts, any project, any bound. The three
theorems about `TemplateCache` are at the end of `RegistryCacheProofs`, stated of an
instance of it, `Templates`, with parameters and variables of its own.

| theorem | assumption | states |
|---|---|---|
| `TypeCorrect` | | `[]TypeOK` |
| `NothingUnpublishedGetsIn` | | `[]OnlyPublishedContent` |
| `SoleRunIsVerified` | `Sole`: at most one process | `[]RunsWhatItVerified` |
| `SoleGetIsVerified` | `Sole` | `[]GetLeavesVerifiedCopy` |
| `OverlappingCommandsLeaveCacheIntact` | `Steady`: immutable versions, no faults, `BodiesChecked` as below | `[]QuiescentCacheIntact` |
| `OverlappingRunsAreVerified` | `Steady` | `[]RunsVerifiedOrEmpty` |
| `CacheTransparent` | `Sole`, and every answer carries a hash or arrives unaltered (`BodiesChecked`) | `RegistryCache` implements `FreshRun` |
| `SessionTypeCorrect` | | `[]TypeOK` of `Session` |
| `TokensStay` | | `[]TokenStaysWithHost` |
| `LogoutIsFinal` | | `[]LogoutForgets` |
| `InstallTypeCorrect` | | `[]TypeOK` of `Install` |
| `InstalledIsWhole` | `Aligned`: imports kept with a workflow are what is published | `[]InstalledIsComplete` |
| `ModulesAreAccounted` | `Mentioned = {}`: go.mod names modules only to require them | `[]ModulesAccounted` |
| `InstallKeepsInPlace` | `Aligned` | `Install` implements `InPlace` (`NothingComesApart`) |
| `OnlyStaleFilesAreWritten` | | `OnlyStaleFilesChange`, an action property |
| `NameListTypeCorrect` | | `[]TypeOK` of `NameList` |
| `ListingCorrect` | `"empty" \notin Shapes`: no page comes with an empty body | `[]ListingIsConsistent` |
| `CacheLagCorrect` | | `[]CacheLagIsBounded` |
| `RegistryUploadTypeCorrect` | | `[]TypeOK` of `RegistryUpload` |
| `UploadReportCorrect` | `NoConflict`: a POST of an upload updates what is there, or uploads are sent by PUT | `[]UploadReportIsTrue` |
| `StatusReportCorrect` | | `[]StatusReportIsTrue` |
| `PackageReportCorrect` | | `[]PackageReportIsTrue` |
| `ScaffoldTypeCorrect` | | `[]TypeOK` of `Scaffold` |
| `ReportsAreInPlace` | `Sole`: one process | `[]ReportedIsInPlace` |
| `AddedMethodsAreKept` | `Sole` | `[]AddedMethodsStay` |
| `OwnFilesStay` | `Sole`; users edit no metadata (`Editable \cap Metas = {}`) | `[]OwnFilesAreKept` |
| `PackagesTypeCorrect` | | `[]TypeOK` of `Packages` |
| `EnabledStays` | `Sole`; `UsualProject`: packages told apart by their last elements, no path the beginning of another, a modules.go with an `Enable` | `[]EnabledIsWired` |
| `EnableKeepsInPlace` | `Sole`, `UsualProject` | `Packages` implements `InPlace` (`EnablesOneByOne`) |
| `DescriptionStays` | `Sole`; `Readable`: a kuetix.json that says something parses | `[]KnownFieldsSurvive` |
| `PublishReportCorrect` | | `[]PublishReportIsTrue` |
| `LookupCorrect` | `ClearAnswers`: for a package it has the registry answers with an object, and without one by the status, an empty text, "success" or an empty "data" | `[]LookupIsTrue` |
| `PayloadTypeCorrect` | | `[]TypeOK` of `Payload` |
| `ScanStaysBounded` | | `[]ScanIsBounded` |
| `ReferencesArriveCorrect` | | `[]ReferencesArrive` |
| `DependenciesAreDescribed` | `Plain`: blocks of go.mod are of requirements, of paths with a '/', and of replacements without versions | `[]DependencyIsDescribed` |
| `TemplatesTypeCorrect` | `TemplateCacheAssumption` | `[]TypeOK` of `TemplateCache` |
| `UpdateIsClean` | `TemplateCacheAssumption`, `Sole` | `[]UpdateLeavesArchive` |
| `TemplatesAreConfigured` | `TemplateCacheAssumption`, `Sole`, no faults, `OwnSources`: no URL is configured and every source offers an archive | `[]LoadedIsConfigured` |

The assumptions on constants are those of the models themselves (`ConstantsAssumption`,
`NoneAssumption`, `SessionAssumption`, `FileAssumption`, `InstallAssumption`,
`PayloadAssumption`, ...; TLC evaluates them in every run): the markers for absent, empty
and torn files are no texts, the garbled name of `PostLogin` is no server's, what users
write are hosts with or without a scheme, and a `=>` in go.mod follows a path.

The special assumptions are hypotheses of the theorems that need them. The passing runs
satisfy them, and the configurations above show that they are needed:

| without | refuted by |
|---|---|
| `Sole` | `rc_race` (`RunsWhatItVerified`), `tc_failed` with two processes and no faults, `sc_lost` (`AddedMethodsStay`), `pk_lost` (`EnabledIsWired`) |
| `Steady` | a mixed entry: two writers hold different texts (versions or bodies that change), or one of them dies |
| `Aligned`, `Mentioned = {}` | `in_snapshots`, `in_replace` |
| `NoConflict` | `ru_conflict` |
| no faults, `OwnSources` (templates) | `tc_failed`, `tc_source` |
| `"empty" \notin Shapes` | `nl_empty` |
| metadata left alone | `sc_metadata` |
| `UsualProject` | `pk_prefix`; `pk_project` with `Seg <- Together`, `Shapes <- Unusual` |
| `Readable` | `pk_project` with `Descriptors <- NotJson` |
| `ClearAnswers` | `pk_project` with `Denials <- DeniedInWords`, `DeniedByNull` |
| `Plain` | `pl_share` with the other files go.mod of the table above |

Note that `ReportsAreInPlace` and `OwnFilesStay` are stated for one process since a second
one may replace or recreate what the first has just looked at; the type theorems, and those
on what is reported of the registry, hold for any number of processes.

How the arguments go:

* **Typing** is not inductive by itself: a process past its fetch must hold an answer, one
  past its search a view. `TypeInv` adds that (`Holds`).
* **Nothing unpublished** (`LicenseInv`): what is written is what a process holds, and
  what it holds was *licensed* when it was verified (the owner published it under that
  version, or the registry stated no hash). `published` only grows, so a licence is
  never lost; a write cut short leaves no complete text. A process that has just been
  started has executed nothing (`Fresh`).
* **Sole** (`SoleInv`): once a lone process is past the lookup or its writes, the entry is
  the text it verified (`Secured`): a hit compared it, a fill after its own truncate
  leaves nothing else, and a sidecar does not touch it.
* **Intact entries** (`EntriesInv` with `OneSource`): all processes that hold an answer for
  a key hold the same text, because versions are immutable. So at any time an entry is
  absent, whole, or some process is between its first and last write, and that process
  will complete it with the same text.
* **Overlapping runs** (`RanInv`): the entry a run is about to execute is there (`ReadyInv`;
  nothing removes an entry), and by the same invariant it is the one text of its key, or
  empty between the truncation and the write of another process.
* **Transparency**: the refinement maps the fetch to the moment the source is taken and
  everything the cache does after it to a stutter. `AskInv` says that a process that still
  has to fetch holds nothing, and `SoleInv` that the text it executes is the one it took.
* **Tokens** (`TokenInv`): whatever is stored is `Paired`, host and login of one server.
  A process that holds another pair, since `--host` overrode the host, is about to send a
  request or to log in, and never saves it: a login replaces both, a logout drops the
  login. That a login stores the server it got the token from rests on `AnsweredLogin`:
  where `PostLogin` garbles the address, nobody answers.
* **Logout** (`LogoutInv`): while signed out no login is under way, so every process that
  is about to save is a logout and saves no token; a process started since then has read a
  file without one.

* **Files of a project** (`FileInv`): a write is of the published text, and of a file that
  does not hold it, since `writeWorkflowFile` compares first (`TargetInv`). So a file that
  is up to date is never touched again (`UpToDateStays`), neither by a later record nor by
  one that fails half-way, and the files of a record are up to date but for those still to
  write (`ProgressInv`). Without `Aligned` the first fact fails, which is `in_snapshots`.
  The same two facts make every step one of `InPlace`: what stands there with its imports
  is up to date, so it stays. `OnlyStaleFilesChange` needs less, that the text about to be
  written is one of the record's and not in the file (`WriteInv`), and so no `Aligned`.
* **Modules** (`ModInv`): what a record needs is still to do, or required, or reported;
  go.mod and the errors only grow until the next command (`AccountedGrows`).

* **Listings** (`ListInv`): names are numbers in the order of the server's pages, and the
  pages of a listing are asked for by cursor. `Gathering` says of a command between two
  pages that the names it has are in order and end at the cursor, that each of them was on
  the server at some time since the start (`seen`), and that none that stayed on it the
  whole time (`steady`) is missing up to the cursor. A page is the names above the cursor in
  order, as many as fit; that such a list exists for every finite set is proved from ranks
  (`RankGrows`, `RankTakesAll`) and the library's facts on finite sets. Its last element is
  the next cursor, so nothing steady falls between two pages. The list that is cached is one
  such list (`CacheInv`) or does not parse, since a write is of a whole list or `Torn`.
* **Age of the cached list** (`LagInv`): what is not steady although it is on the server, or
  was seen although it is not, came or went since the listing began (`Recent`), and that was
  `took` before the timestamp. A tick adds one to both until the timestamp is taken and to
  neither after it; a change makes a name's `since` the present. So a list that is shown
  while it is younger than its lifetime is wrong only of changes younger than that and
  `took`, whichever of several writers its text is from.
* **Reports of an upload** (`AllHeld`, `AllReports`): `held` collects what the server holds
  at any time of a command, for all commands at once: every store of one is put down for
  each that is under way. So an answer of 200 to a request is proof that its body was there
  (`AnswerInv`), whoever overwrites it before the answer arrives, and each line follows from
  the answer before it (`UploadLine`, `StatusLine`). `CommandInv` and `LinesInv` tell which
  lines a command can have at all.
* **Scaffolding** (`PlaceInv`, `KeepInv`): each file of a command is in its plan or in
  place (`PlacedBy`), and nothing is reported before the plan is empty; a file whose
  template or write fails has a fallback or ends the command. What a user wrote and what was
  appended is in its file or in the text just being written to it (`KeptBy`), and past the
  question a plan has no file of a user's but metadata.
* **Packages** (`WiredInv`, `RestInv`, `AllSeen`): a shim is written before its module is
  enabled and touched by no other enable (`ShimInv`); between the truncation of `modules.go`
  and its text, the text to come has every module enabled so far (`ModulesInv`), as an edit
  only adds (`EditAdds`). For the refinement the module counts as in place from the moment
  the text to come has it: `openModules` and `fillModules` only add to what is in place
  (`PutStep`), the report is of a module just wired (`ReportStep`), and the shim of a module
  enabled again is rewritten after its report was taken back (`Renew`). What is written to
  `kuetix.json` and sent has the fields that were read (`RestInv`). A version reported as public was seen during the command (`AllSeen`), and
  so was a package that is shown, as only an answer to one that is there counts
  (`ClearAnswers`); a command that asks for the second endpoint, or for suggestions, could
  not see the package at some time or has that request down as failed (`LookupInv`).
* **Imports** (`SentInv`, `PlacedInv`): the invariant of a depth-first search. Of a file on
  the stack all references before the next one are seen; every other file that is sent is
  seen to its end; and what was seen and stands there from the root is sent as that file,
  since `Candidate` looks there first, whichever file the reference is in. A second
  reference to the same place sends the same file, so no order of writing imports makes a
  difference. `ScanIsBounded` is inductive with the types: every push adds a reference to
  those seen.
* **go.mod** (`ReadInv`): after each line, `requires` holds the last requirement so far. A
  line without its block is told by its shape (`LineIs`): in a `Plain` file an entry with a
  version is of a block of requirements and one with an arrow of a block of replacements.

* **Templates** (`UnpackInv`, `WholeInv`): a download begins with a directory that was not
  there, since an update has removed it; while it is unpacked, every file not still to do is
  in the directory as it is in the archive, and when none is left the directory is the
  archive. No command has templates before it ends. Without faults no directory is left
  before it is the whole of an archive (`WholeInv`), so one that is found is one.

Each of these invariants was checked by TLC on the instances above before it was proved.

## What is model-checked only

`ListingEnds`: liveness under fairness is out of TLAPS's reach. Every other property of a
passing run is a theorem. That the properties fail without the hypotheses of the theorems
is shown by TLC only, in the configurations and variations above; what those refute is
stated nowhere as a theorem.

## What is left out, and why

* Within the modelled components: reading credentials from the terminal, formats of output
  and of profiles, the loader of local directories and GitHub repositories (each run of it
  reads into a temporary directory of its own), parsing of workflow sources (a choice),
  the content of a dependency's catalogue entry, of which no property is stated (it is
  looked for by class only, so it may be another module's), the repository address
  and commit derived from a pseudo-version, local and git template sources.
* Within `Packages`: search, install, list and show, which print what one request or one
  file holds; the walk of `findPackageDir` up to the package's directory (a choice).
* `cmd/gen-modules`: a pass over modules.yaml without state; its output is overwritten as a
  whole. The add commands that `create.go` repeats from `add.go` are reached by no command.
* The registry's own behaviour is external. It is modelled by what the client is written
  for, and where that is uncertain (`PostUpdates`, `Hashed`, `VersionsImmutable`, `Shapes`)
  by a constant.
* File permissions, symbolic links, disk-full conditions other than a failed write.
* `src/vendor`, `src/cmd/cli` (dispatch) and help: no state, or not kue's.

Met while reading, and not a matter of states: create.txt documents an app type "all" that
`CreateCommand` rejects after making directories; the method that `addTransitionCore` writes
names its receiver after the module's first letter and calls `a.` in its body;
`createMinimalModuleFile` imports packages it does not use; the bootstrap file of a package
`std-demo` has that as its Go package name; enable.txt shows a positional path where
`PackageEnableCommand` reads `--name`.

## Plan

Done: all models, the abstract specifications `FreshRun` and `InPlace`, and proofs of every
safety property and refinement of the runs. Open:

1. `UploadReportIsTrue` command by command: `NoConflict` is about all uploads, and one by PUT
   needs it of none.
2. `Install` with two commands in one project: what holds of their files short of
   `NothingComesApart`.

## Use

    tlc -workers 2 -config rc_sole.cfg MCRegistryCache
    tlapm RegistryCacheProofs.tla    (and every other <name>Proofs.tla)

Each module of the form `MC<name>` instantiates `<name>`; `PROJECT.json` lists runs,
mutants (definitions changed as a plausible bug would, which the property must catch),
the lines each definition stands for, and the hazards with the properties aimed at them.
