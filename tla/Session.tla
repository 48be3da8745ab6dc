------------------------------- MODULE Session -------------------------------
(***************************************************************************)
(* The configuration file ~/.kue/config.json and who is asked what with    *)
(* which token (modules/config, modules/auth, modules/shared/helpers.go).  *)
(* Every command resolves the file first; login and logout rewrite it      *)
(* whole, by truncating and filling it, without a lock.                    *)
(*                                                                         *)
(* An address is a scheme and a name; the scheme is "" where a host is     *)
(* given without one.  A token is modelled by the name that issued it.     *)
(***************************************************************************)
EXTENDS Naturals, FiniteSets

CONSTANTS
    Proc,           \* kue processes
    Name,           \* names of API servers
    DefaultAPIHost, \* api.kuetix.com
    Garbled,        \* the name in "https://s://..."
    Flags, Envs,    \* addresses users give in --host, and in KUE_HOST
    Online,         \* addresses at which a server answers
    Faults,         \* requests and writes may fail, processes may crash
    Missing, Empty, Torn, None

Address == [scheme : {"http", "https"}, name : Name \cup {Garbled}]

ASSUME SessionAssumption ==
    /\ DefaultAPIHost \in Name /\ Garbled \notin Name
    /\ Flags \cup Envs \subseteq [scheme : {"", "http", "https"}, name : Name]
    /\ Online \subseteq [scheme : {"http", "https"}, name : Name]
    /\ Faults \in BOOLEAN
    /\ None \notin Name /\ None \notin Flags \cup Envs /\ None \notin Address

VARIABLES
    file,       \* ~/.kue/config.json
    pc, job,
    config,     \* kueConfig: what the command has resolved, or is to save
    request,    \* the last request of the command
    outcome,
    signedOut   \* history: a logout has finished, and no login was or is under way

vars == <<file, pc, job, config, request, outcome, signedOut>>

-----------------------------------------------------------------------------
Command == {"login", "logout", "register", "request", "public"}

Host == Flags \cup Envs \cup Address

KueConfig == [host : Host \cup {None}, login : Name \cup {None}]

ASSUME FileAssumption == {Missing, Empty, Torn} \cap KueConfig = {}

TypeOK ==
    /\ file \in KueConfig \cup {Missing, Empty, Torn}
    /\ pc \in [Proc -> {"idle", "resolve", "https", "http", "request",
                        "truncate", "fill"}]
    /\ job \in [Proc -> [cmd : Command, flag : Flags \cup {None},
                         env : Envs \cup {None}, signedOut : BOOLEAN]]
    /\ config \in [Proc -> KueConfig]
    /\ request \in [Proc -> [to : Address, token : Name \cup {None}] \cup {None}]
    /\ outcome \in [Proc -> {"none", "ok", "failed", "unreachable"}]
    /\ signedOut \in BOOLEAN

NoConfig == [host |-> None, login |-> None]

(* There is no file, or one a user has written to name a host.             *)
Init ==
    /\ file \in {Missing} \cup {[host |-> h, login |-> None] : h \in Flags \cup Envs}
    /\ pc = [p \in Proc |-> "idle"]
    /\ job = [p \in Proc |-> [cmd |-> "request", flag |-> None, env |-> None,
                              signedOut |-> FALSE]]
    /\ config = [p \in Proc |-> NoConfig]
    /\ request = [p \in Proc |-> None]
    /\ outcome = [p \in Proc |-> "none"]
    /\ signedOut = FALSE

-----------------------------------------------------------------------------
(* Hosts.                                                                  *)

NormalizeHost(h) == IF h.scheme = "" THEN [h EXCEPT !.scheme = "https"] ELSE h

FirstHost(flag, env) ==
    CASE flag # None -> flag
      [] flag = None /\ env # None -> env
      [] OTHER -> [scheme |-> "", name |-> DefaultAPIHost]

(* Mutant: the host is stored as it is given.                              *)
ResolveAPIHostRaw(flag, env) == FirstHost(flag, env)

ResolveAPIHost(flag, env) == NormalizeHost(FirstHost(flag, env))

(* Mutant: the stored host is not looked at.                               *)
ResolvedHostUnstored(j, c) == ResolveAPIHost(j.flag, j.env)

ResolvedHost(j, c) ==
    IF j.flag = None /\ c.host # None THEN c.host ELSE ResolveAPIHost(j.flag, j.env)

(* PostLogin's base: the second TrimPrefix undoes the first one, so that   *)
(* an https address becomes https://s://name.                              *)
LoginName(h) == IF h.scheme = "https" THEN Garbled ELSE h.name

-----------------------------------------------------------------------------
Goto(p, l) == pc' = [pc EXCEPT ![p] = l]

Exit(p) == Goto(p, "idle") /\ config' = [config EXCEPT ![p] = NoConfig]

Finish(p, what) ==
    /\ Exit(p)
    /\ outcome' = [outcome EXCEPT ![p] = what]

LoginRuns == {p \in Proc : pc[p] # "idle" /\ job[p].cmd = "login"}

(* A command line and its environment; logout has no --host.               *)
Start(p, cmd, flag, env) ==
    /\ pc[p] = "idle"
    /\ cmd = "logout" => flag = None
    /\ job' = [q \in Proc |->
         IF q = p THEN [cmd |-> cmd, flag |-> flag, env |-> env,
                        signedOut |-> signedOut /\ cmd # "login"]
                  ELSE [job[q] EXCEPT !.signedOut = @ /\ cmd # "login"]]
    /\ request' = [request EXCEPT ![p] = None]
    /\ outcome' = [outcome EXCEPT ![p] = "none"]
    /\ signedOut' = (signedOut /\ cmd # "login")
    /\ Goto(p, "resolve")
    /\ UNCHANGED <<file, config>>

LoadKueConfig(f) == IF f \in {Missing, Empty} THEN NoConfig ELSE f

(* Mutant: logout only reports that it forgets.                            *)
ForgottenNot(c) == c

Forgotten(c) == [c EXCEPT !.login = None]

(* config.Resolve, and what the command does before its first call.        *)
Resolve(p) ==
    LET loaded == LoadKueConfig(file)
        resolved == [loaded EXCEPT !.host = ResolvedHost(job[p], loaded)]
        cmd == job[p].cmd IN
    /\ pc[p] = "resolve"
    /\ IF file = Torn
         THEN Finish(p, "failed")
         ELSE \/ /\ cmd = "login"
                 /\ config' = [config EXCEPT ![p] = resolved]
                 /\ Goto(p, "https") /\ UNCHANGED outcome
              \/ /\ cmd = "logout"
                 /\ config' = [config EXCEPT ![p] = Forgotten(resolved)]
                 /\ Goto(p, "truncate") /\ UNCHANGED outcome
              \/ /\ cmd = "request" /\ resolved.login = None
                 /\ Finish(p, "failed")
              \/ /\ \/ cmd \in {"register", "public"}
                    \/ cmd = "request" /\ resolved.login # None
                 /\ config' = [config EXCEPT ![p] = resolved]
                 /\ Goto(p, "request") /\ UNCHANGED outcome
    /\ UNCHANGED <<file, job, request, signedOut>>

(* PerformAuthenticatedRequest, PerformOptionalAuthRequest; register posts *)
(* without a token.                                                        *)
Request(p) ==
    LET to == NormalizeHost(config[p].host) IN
    /\ pc[p] = "request"
    /\ request' = [request EXCEPT ![p] =
         [to |-> to, token |-> IF job[p].cmd = "register" THEN None ELSE config[p].login]]
    /\ \/ to \in Online /\ Finish(p, "ok")
       \/ to \in Online /\ Finish(p, "failed")
       \/ (Faults \/ to \notin Online) /\ Finish(p, "unreachable")
    /\ UNCHANGED <<file, job, signedOut>>

(* PostLogin: https first, then http, whatever the scheme given; the first *)
(* answer decides, and the host of the command line is stored with it.     *)
Login(p) ==
    LET host == ResolveAPIHost(job[p].flag, job[p].env)
        to == [scheme |-> pc[p], name |-> LoginName(host)] IN
    /\ pc[p] \in {"https", "http"}
    /\ \/ /\ to \in Online
          /\ config' = [config EXCEPT ![p] = [host |-> host, login |-> to.name]]
          /\ Goto(p, "truncate")
          /\ UNCHANGED outcome
       \/ /\ to \in Online
          /\ Finish(p, "failed")
       \/ /\ Faults \/ to \notin Online
          /\ IF pc[p] = "https" THEN Goto(p, "http") /\ UNCHANGED <<config, outcome>>
                                ELSE Finish(p, "unreachable")
    /\ UNCHANGED <<file, job, request, signedOut>>

(* SaveKueConfig.  A file filled by two processes at once holds the last   *)
(* text, or the last one and the tail of a longer one.                     *)
SaveTruncate(p) ==
    /\ pc[p] = "truncate"
    /\ file' = Empty
    /\ Goto(p, "fill")
    /\ UNCHANGED <<job, config, request, outcome, signedOut>>

SaveFill(p) ==
    /\ pc[p] = "fill"
    /\ file' \in {config[p]} \cup (IF file \in {Empty, config[p]} THEN {} ELSE {Torn})
    /\ Finish(p, "ok")
    /\ signedOut' = (signedOut \/ (job[p].cmd = "logout" /\ LoginRuns = {}))
    /\ UNCHANGED <<job, request>>

(* A write that fails or is interrupted.                                   *)
CutShort(p) ==
    \/ UNCHANGED file
    \/ pc[p] = "fill" /\ file' = Torn

SaveFailed(p) ==
    /\ Faults
    /\ pc[p] \in {"truncate", "fill"}
    /\ CutShort(p)
    /\ Finish(p, "failed")
    /\ UNCHANGED <<job, request, signedOut>>

Crash(p) ==
    /\ Faults
    /\ pc[p] # "idle"
    /\ CutShort(p)
    /\ Exit(p)
    /\ UNCHANGED <<job, request, outcome, signedOut>>

Step(p) ==
    \/ Resolve(p) \/ Request(p) \/ Login(p)
    \/ SaveTruncate(p) \/ SaveFill(p) \/ SaveFailed(p)
    \/ Crash(p)

Next ==
    \/ \E p \in Proc, cmd \in Command, flag \in Flags \cup {None},
          env \in Envs \cup {None} :
         Start(p, cmd, flag, env)
    \/ \E p \in Proc : Step(p)

Spec == Init /\ [][Next]_vars

-----------------------------------------------------------------------------
(* Properties.                                                             *)

(* performRequest with the host of config.Resolve.  A token goes to the    *)
(* server that issued it, or where --host says, however logins to several  *)
(* servers, logouts, crashes and torn files follow or overlap each other   *)
(* and whatever KUE_HOST is.                                               *)
TokenStaysWithHost ==
    \A p \in Proc : request[p] # None /\ request[p].token # None =>
        job[p].flag # None \/ request[p].to.name = request[p].token

(* logout.txt: "Remove stored Kuetix authentication data".  After a logout *)
(* that no login overlapped, and until the next login, no command that is  *)
(* started sends a token, and none is stored.                              *)
LogoutForgets ==
    signedOut =>
        /\ file \in KueConfig => file.login = None
        /\ \A p \in Proc : job[p].signedOut /\ request[p] # None =>
             request[p].token = None

(* login.txt: "--host, -H API host (default: api.kuetix.com)".  A login    *)
(* gets an answer from the server it names, if that is there.              *)
LoginReachesHost ==
    \A p \in Proc : job[p].cmd = "login" /\ outcome[p] = "unreachable" =>
        ResolveAPIHost(job[p].flag, job[p].env) \notin Online

(* README.md: the registry is api.kuetix.com, to "override with --host or  *)
(* KUE_HOST".  A command without --host asks the server KUE_HOST names.    *)
KueHostOverrides ==
    \A p \in Proc :
        /\ job[p].cmd \in {"request", "public"} /\ request[p] # None
        /\ job[p].flag = None /\ job[p].env # None
        => request[p].to = NormalizeHost(job[p].env)

=============================================================================
