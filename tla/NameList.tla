------------------------------- MODULE NameList -------------------------------
(***************************************************************************)
(* The workflow name list: `kue list` and `kue get <glob>` page through    *)
(* GET /workflow and keep the result in ~/.kue/cache for five minutes      *)
(* (shared/list.go); `kue status` pages through the same endpoint and      *)
(* keeps nothing (fetchServerWorkflowNames).                               *)
(*                                                                         *)
(* Workflows come and go on the server between two pages, the clock moves  *)
(* between any two steps, and several commands share the cache file, which *)
(* is written by os.WriteFile like every other one.                        *)
(*                                                                         *)
(* A name is a number, its place in the order the server lists names in;   *)
(* a cursor is the last name delivered and 0 the empty cursor.             *)
(***************************************************************************)
EXTENDS Naturals, Sequences, FiniteSets

CONSTANTS
    Proc,           \* kue processes
    Account,        \* accounts whose token may be in the config file
    Names,          \* highest name: names are 1..Names
    PageSize,       \* names the server puts on a page
    Shapes,         \* shapes the server gives its answers (see AllShapes)
    TTL,            \* lifetime of the cached list, 300 s in the code
    MaxClock,       \* bound: the last instant
    MaxChanges,     \* bound: workflows uploaded or deleted
    Faults,         \* requests may fail and processes may crash
    Absent, Empty, Torn, None

AllShapes == {"wrapped", "flat", "top", "dataArray", "empty"}

ASSUME NameListAssumption ==
    /\ Names \in Nat /\ PageSize \in Nat \ {0} /\ TTL \in Nat
    /\ MaxClock \in Nat /\ MaxChanges \in Nat
    /\ Shapes \subseteq AllShapes
    /\ Faults \in BOOLEAN

VARIABLES
    server,     \* the workflows of each account
    since,      \* history: when a name last came or went there
    clock,
    changes,    \* bounds the changes of server
    cache,      \* the file `list` of the collection
    pc, job,
    cursor,     \* cursor of the next request
    found,      \* names gathered so far
    stamp,      \* timestamp taken for the cache entry
    took,       \* history: how long the listing took, up to its timestamp
    steady,     \* history: names on the server since the listing began
    seen,       \* history: names on the server at some time of the listing
    answer      \* what the command reported

registry == <<server, since, changes>>
listing == <<cursor, found, stamp, took, steady, seen>>
vars == <<registry, clock, cache, pc, job, listing, answer>>

-----------------------------------------------------------------------------
Name == 1..Names

Commands == {"list", "status"}

Job == [cmd : Commands, account : Account]

\* A list of names with its provenance; `stamp` is what the cache file keeps.
Listing == [names : Seq(Name), stamp : 0..MaxClock, account : Account,
            took : 0..MaxClock, steady : SUBSET Name, seen : SUBSET Name]

\* What a command reports, and when.
Answer == [listing : Listing, cached : BOOLEAN, at : 0..MaxClock]

Files == {Absent, Empty, Torn}

TypeOK ==
    /\ server \in [Account -> SUBSET Name]
    /\ since \in [Account -> [Name -> 0..MaxClock \cup {None}]]
    /\ clock \in 0..MaxClock
    /\ changes \in 0..MaxChanges
    /\ cache \in Files \/ cache \in Listing
    /\ pc \in [Proc -> {"idle", "open", "page", "truncate", "fill"}]
    /\ job \in [Proc -> Job \cup {None}]
    /\ cursor \in [Proc -> 0..Names]
    /\ found \in [Proc -> Seq(Name)]
    /\ stamp \in [Proc -> 0..MaxClock]
    /\ took \in [Proc -> Nat] /\ \A p \in Proc : took[p] <= clock
    /\ steady \in [Proc -> SUBSET Name]
    /\ seen \in [Proc -> SUBSET Name]
    /\ \A p \in Proc : answer[p] = None \/ answer[p] \in Answer

Init ==
    /\ server \in [Account -> SUBSET Name]
    /\ since = [a \in Account |-> [n \in Name |-> None]]
    /\ clock = 0
    /\ changes = 0
    /\ cache = Absent
    /\ pc = [p \in Proc |-> "idle"]
    /\ job = [p \in Proc |-> None]
    /\ cursor = [p \in Proc |-> 0]
    /\ found = [p \in Proc |-> <<>>]
    /\ stamp = [p \in Proc |-> 0]
    /\ took = [p \in Proc |-> 0]
    /\ steady = [p \in Proc |-> {}]
    /\ seen = [p \in Proc |-> {}]
    /\ answer = [p \in Proc |-> None]

-----------------------------------------------------------------------------
(* The server (external).                                                  *)

Listens(p, a) == pc[p] = "page" /\ job[p].account = a

Change(a, n) ==
    /\ changes < MaxChanges
    /\ changes' = changes + 1
    /\ server' = [server EXCEPT ![a] = IF n \in @ THEN @ \ {n} ELSE @ \cup {n}]
    /\ since' = [since EXCEPT ![a][n] = clock]
    /\ steady' = [p \in Proc |-> IF Listens(p, a)
                                 THEN steady[p] \cap server'[a] ELSE steady[p]]
    /\ seen' = [p \in Proc |-> IF Listens(p, a)
                               THEN seen[p] \cup server'[a] ELSE seen[p]]
    /\ UNCHANGED <<clock, cache, pc, job, cursor, found, stamp, took, answer>>

Tick ==
    /\ clock < MaxClock
    /\ clock' = clock + 1
    /\ took' = [p \in Proc |-> IF pc[p] \in {"page", "truncate"} THEN took[p] + 1 ELSE took[p]]
    /\ UNCHANGED <<registry, cache, pc, job, cursor, found, stamp, steady, seen, answer>>

(* The names after the cursor in order, cut to a page, and the cursor that *)
(* goes with them: empty once nothing is left.                             *)
After(S, c) == {n \in S : n > c}

OnPage(S, c) == {n \in After(S, c) : Cardinality({m \in After(S, c) : m <= n}) <= PageSize}

InOrder(S) ==
    CHOOSE s \in [1..Cardinality(S) -> S] :
        \A i, j \in DOMAIN s : i < j => s[i] < s[j]

NextCursor(S, c) ==
    IF OnPage(S, c) = After(S, c) THEN 0
    ELSE CHOOSE n \in OnPage(S, c) : \A m \in OnPage(S, c) : m <= n

-----------------------------------------------------------------------------
(* The commands.                                                           *)

Goto(p, l) == pc' = [pc EXCEPT ![p] = l]

(* The first request is about to be made.                                  *)
Begin(p, a) ==
    /\ took' = [took EXCEPT ![p] = 0]
    /\ steady' = [steady EXCEPT ![p] = server[a]]
    /\ seen' = [seen EXCEPT ![p] = server[a]]

(* The process ends, and what it gathered with it.                         *)
Leave(p) ==
    /\ Goto(p, "idle")
    /\ cursor' = [cursor EXCEPT ![p] = 0]
    /\ found' = [found EXCEPT ![p] = <<>>]
    /\ stamp' = [stamp EXCEPT ![p] = 0]
    /\ took' = [took EXCEPT ![p] = 0]
    /\ steady' = [steady EXCEPT ![p] = {}]
    /\ seen' = [seen EXCEPT ![p] = {}]

Start(p, cmd, a) ==
    /\ pc[p] = "idle"
    /\ Goto(p, IF cmd = "list" THEN "open" ELSE "page")
    /\ job' = [job EXCEPT ![p] = [cmd |-> cmd, account |-> a]]
    /\ cursor' = [cursor EXCEPT ![p] = 0]
    /\ found' = [found EXCEPT ![p] = <<>>]
    /\ Begin(p, a)
    /\ answer' = [answer EXCEPT ![p] = None]
    /\ UNCHANGED <<registry, clock, cache, stamp>>

Report(p, l, cached) ==
    answer' = [answer EXCEPT ![p] = [listing |-> l, cached |-> cached, at |-> clock]]

Readable == cache \notin Files

(* The collection is loaded when it is opened; a file that does not parse, *)
(* or is too old, is as good as none.                                      *)
Fresh == Readable /\ clock - cache.stamp < TTL

Open(p) ==
    /\ pc[p] = "open"
    /\ IF Fresh
         THEN /\ Report(p, cache, TRUE)
              /\ Leave(p)
         ELSE /\ Goto(p, "page")
              /\ Begin(p, job[p].account)
              /\ UNCHANGED <<cursor, found, stamp, answer>>
    /\ UNCHANGED <<registry, clock, cache, job>>

(* Mutant: the result is stored without its timestamp.                     *)
GatheredUndated(p, names) ==
    [names |-> names, account |-> job[p].account, took |-> took[p],
     steady |-> steady[p], seen |-> seen[p]]

Gathered(p, names) ==
    [names |-> names, stamp |-> clock, account |-> job[p].account, took |-> took[p],
     steady |-> steady[p], seen |-> seen[p]]

(* On to the next page: the cursor is empty after the last.                *)
Turn(p, names, next) ==
    /\ found' = [found EXCEPT ![p] = names]
    /\ cursor' = [cursor EXCEPT ![p] = next]
    /\ UNCHANGED <<stamp, took, steady, seen>>

(* Mutant: the names of a page replace those of the pages before.          *)
GatherLast(p, names) == names

Gather(p, names) == found[p] \o names

(* A page whose answer has the shape the code reads the cursor from: an    *)
(* object under "data".  The loop ends with an empty cursor.               *)
Page(p) ==
    LET S     == server[job[p].account]
        next  == NextCursor(S, cursor[p])
        names == Gather(p, InOrder(OnPage(S, cursor[p])))
    IN
    /\ pc[p] = "page"
    /\ "wrapped" \in Shapes
    /\ \/ /\ next # 0
          /\ Turn(p, names, next)
          /\ UNCHANGED <<pc, answer>>
       \/ /\ next = 0 /\ job[p].cmd = "list"
          /\ Turn(p, names, next)
          /\ Goto(p, "truncate")
          /\ UNCHANGED answer
       \/ /\ next = 0 /\ job[p].cmd = "status"
          /\ Leave(p)
          /\ Report(p, Gathered(p, names), FALSE)
    /\ UNCHANGED <<registry, clock, cache, job>>

(* A JSON array fails to decode as an object; an object without an object  *)
(* under "data" fails the type assertion and panics.  Either ends the      *)
(* command, and so does an empty body in `kue list`.                       *)
PageUnread(p) ==
    /\ pc[p] = "page"
    /\ \E s \in Shapes \ {"wrapped"} : s = "empty" => job[p].cmd = "list"
    /\ Leave(p)
    /\ UNCHANGED <<registry, clock, cache, job, answer>>

(* `kue status` takes an empty body for an empty list, whatever the pages  *)
(* before it said.                                                         *)
PageEmpty(p) ==
    /\ pc[p] = "page"
    /\ job[p].cmd = "status"
    /\ "empty" \in Shapes
    /\ Leave(p)
    /\ Report(p, Gathered(p, <<>>), FALSE)
    /\ UNCHANGED <<registry, clock, cache, job>>

(* Mutant: a failed request starts the listing again.                      *)
PageFailedAgain(p) ==
    /\ Faults
    /\ pc[p] = "page"
    /\ cursor' = [cursor EXCEPT ![p] = 0]
    /\ found' = [found EXCEPT ![p] = <<>>]
    /\ UNCHANGED <<registry, clock, cache, pc, job, stamp, took, steady, seen, answer>>

(* The request fails: the names gathered so far are dropped by the caller. *)
PageFailed(p) ==
    /\ Faults
    /\ pc[p] = "page"
    /\ Leave(p)
    /\ UNCHANGED <<registry, clock, cache, job, answer>>

(* Update of the cache: the timestamp is taken, then os.WriteFile.  Its    *)
(* error is ignored.                                                       *)
Truncate(p) ==
    /\ pc[p] = "truncate"
    /\ stamp' = [stamp EXCEPT ![p] = clock]
    /\ cache' = Empty
    /\ Goto(p, "fill")
    /\ UNCHANGED <<registry, clock, job, cursor, found, took, steady, seen, answer>>

(* Mutant: the entry is dated when the file is there.                      *)
KeptLater(p) == Gathered(p, found[p])

Kept(p) == [Gathered(p, found[p]) EXCEPT !.stamp = stamp[p]]

Fill(p) ==
    /\ pc[p] = "fill"
    /\ cache' \in IF cache \in {Empty} THEN {Kept(p)} ELSE {Kept(p), Torn}
    /\ Report(p, Kept(p), FALSE)
    /\ Leave(p)
    /\ UNCHANGED <<registry, clock, job>>

UpdateFailed(p) ==
    /\ Faults
    /\ pc[p] \in {"truncate", "fill"}
    /\ \/ UNCHANGED cache
       \/ pc[p] = "fill" /\ cache' = Torn
    /\ Report(p, Gathered(p, found[p]), FALSE)
    /\ Leave(p)
    /\ UNCHANGED <<registry, clock, job>>

Crash(p) ==
    /\ Faults
    /\ pc[p] # "idle"
    /\ \/ UNCHANGED cache
       \/ pc[p] = "fill" /\ cache' = Torn
    /\ Leave(p)
    /\ UNCHANGED <<registry, clock, job, answer>>

Step(p) ==
    \/ Open(p) \/ Page(p) \/ PageUnread(p) \/ PageEmpty(p) \/ PageFailed(p)
    \/ Truncate(p) \/ Fill(p) \/ UpdateFailed(p)

Next ==
    \/ Tick
    \/ \E a \in Account, n \in Name : Change(a, n)
    \/ \E p \in Proc, cmd \in Commands, a \in Account : Start(p, cmd, a)
    \/ \E p \in Proc : Step(p) \/ Crash(p)

Spec == Init /\ [][Next]_vars

(* The operating system schedules every process that can go on, and every  *)
(* request is answered or fails in the end.                                *)
FairSpec == Spec /\ \A p \in Proc : WF_vars(Step(p))

-----------------------------------------------------------------------------
(* Properties.                                                             *)

Named(l) == {l.names[i] : i \in DOMAIN l.names}

(* Pages are requested one after the other while workflows come and go:    *)
(* the names listed hold every workflow that was there all the time,       *)
(* nothing that was not there at some time, and none of them twice.        *)
Consistent(l) ==
    /\ l.steady \subseteq Named(l)
    /\ Named(l) \subseteq l.seen
    /\ Cardinality(Named(l)) = Len(l.names)

(* Every answer is such a listing, the cached ones for the moment they     *)
(* were taken (List and fetchServerWorkflowNames page with a cursor).      *)
ListingIsConsistent ==
    \A p \in Proc : answer[p] # None => Consistent(answer[p].listing)

(* What `kue list` answers from its cache is wrong only of workflows that  *)
(* came or went less than the lifetime of the cache ago, and the time its  *)
(* listing took: an uploaded workflow is missing, or a deleted one listed, *)
(* no longer than that, whoever wrote the file, at once with whom, and     *)
(* wherever one of them was killed.  Without the second term it is wrong:  *)
(* the entry is dated after its last page (List, Update of the cache).     *)
CacheLagIsBounded ==
    \A p \in Proc : answer[p] # None /\ answer[p].cached =>
        LET l == answer[p].listing IN
        \A n \in Name : (n \in Named(l)) # (n \in server[l.account]) =>
            /\ since[l.account][n] \in Nat
            /\ answer[p].at < since[l.account][n] + TTL + l.took

(* Not of the code: the same without the time the listing took, as "Using  *)
(* cached workflow list (retrieved n seconds ago)" has it.                 *)
CacheLagIsLifetime ==
    \A p \in Proc : answer[p] # None /\ answer[p].cached =>
        LET l == answer[p].listing IN
        \A n \in Name : (n \in Named(l)) # (n \in server[l.account]) =>
            /\ since[l.account][n] \in Nat
            /\ answer[p].at < since[l.account][n] + TTL

(* status.txt: a workflow is [new] when it is missing on the server.  The  *)
(* names status compares with hold every workflow that is there all along. *)
StatusSeesServer ==
    \A p \in Proc : answer[p] # None /\ job[p].cmd = "status" =>
        answer[p].listing.steady \subseteq Named(answer[p].listing)

(* list.txt: "List workflows owned by the authenticated user".             *)
ListIsOwn ==
    \A p \in Proc : answer[p] # None =>
        answer[p].listing.account = job[p].account

(* fetchServerWorkflowNames: supports a JSON array, an object with a       *)
(* "workflows", "items" or "data" array.  A status none of whose requests  *)
(* fails has an answer.                                                    *)
SupportedShapesAreRead ==
    [][\A p \in Proc : pc[p] = "page" /\ pc'[p] = "idle" /\ job[p].cmd = "status"
          => answer'[p] # None]_vars

(* Every listing ends: the cursor moves past a name with every page.       *)
ListingEnds == \A p \in Proc : pc[p] # "idle" ~> pc[p] = "idle"

=============================================================================
