---------------------------- MODULE SessionProofs ----------------------------
(***************************************************************************)
(* Theorems about Session, for any number of processes and servers, any    *)
(* addresses in use and any servers online.                                *)
(***************************************************************************)
EXTENDS Session, TLAPS

(* Addresses, with or without a scheme.                                    *)
Given == [scheme : {"", "http", "https"}, name : Name \cup {Garbled}]

LEMMA HostsAreGiven == Host \subseteq Given
BY SessionAssumption DEF Host, Address, Given

(* A scheme is added where there is none; the name stays.                  *)
LEMMA NormalizeKeepsName ==
    ASSUME NEW h \in Given
    PROVE  NormalizeHost(h) \in Address /\ NormalizeHost(h).name = h.name
BY DEF Given, NormalizeHost, Address

LEMMA NoneIsNoHost == None \notin Host
BY SessionAssumption DEF Host

LEMMA ResolveAPIHostType ==
    ASSUME NEW flag \in Flags \cup {None}, NEW env \in Envs \cup {None}
    PROVE  ResolveAPIHost(flag, env) \in Address /\ ResolveAPIHost(flag, env) \in Host
<1>1. FirstHost(flag, env) \in Given
  BY SessionAssumption DEF FirstHost, Given
<1>. QED
  BY <1>1, NormalizeKeepsName DEF ResolveAPIHost, Host

Labels == {"idle", "resolve", "https", "http", "request", "truncate", "fill"}

Jobs == [cmd : Command, flag : Flags \cup {None}, env : Envs \cup {None},
         signedOut : BOOLEAN]

LEMMA ResolvedHostType ==
    ASSUME NEW j \in Jobs, NEW c \in KueConfig
    PROVE  ResolvedHost(j, c) \in Host
BY ResolveAPIHostType DEF ResolvedHost, KueConfig, Jobs

(* An answered login came from the server that is stored with it: where    *)
(* PostLogin garbles the address nobody answers.                           *)
LEMMA AnsweredLogin ==
    ASSUME NEW h \in Address, NEW s, [scheme |-> s, name |-> LoginName(h)] \in Online
    PROVE  LoginName(h) \in Name /\ LoginName(h) = h.name
BY SessionAssumption DEF LoginName, Address

LEMMA LoadedType ==
    ASSUME TypeOK, file # Torn
    PROVE  LoadKueConfig(file) \in KueConfig
BY DEF TypeOK, LoadKueConfig, NoConfig, KueConfig

-----------------------------------------------------------------------------
(* Tokens.  Host and login of one server are stored together; a command    *)
(* that holds other ones never saves them.                                 *)

Paired(c) == c.login # None => c.host # None /\ c.host.name = c.login

Addressed(p) ==
    pc[p] = "request" =>
        /\ config[p].host # None
        /\ config[p].login # None =>
             job[p].flag # None \/ config[p].host.name = config[p].login

Saves(p) ==
    pc[p] \in {"truncate", "fill"} =>
        /\ Paired(config[p])
        /\ job[p].cmd \in {"login", "logout"}
        /\ job[p].cmd = "logout" => config[p].login = None

LogsIn(p) == pc[p] \in {"https", "http"} => job[p].cmd = "login"

TokenInv ==
    /\ TypeOK
    /\ file \in KueConfig => Paired(file)
    /\ \A p \in Proc : Addressed(p) /\ Saves(p) /\ LogsIn(p)
    /\ TokenStaysWithHost

LEMMA TokenStart ==
    ASSUME TokenInv, NEW p \in Proc, NEW cmd \in Command,
           NEW flag \in Flags \cup {None}, NEW env \in Envs \cup {None},
           Start(p, cmd, flag, env)
    PROVE  TokenInv'
<1> USE DEF TokenInv
<1>1. TypeOK'
  BY DEF Start, TypeOK, Goto
<1>2. \A q \in Proc : job'[q].flag = IF q = p THEN flag ELSE job[q].flag
  BY DEF Start, TypeOK
<1>3. \A q \in Proc : job'[q].cmd = IF q = p THEN cmd ELSE job[q].cmd
  BY DEF Start, TypeOK
<1>4. \A q \in Proc : pc'[q] = IF q = p THEN "resolve" ELSE pc[q]
  BY DEF Start, TypeOK, Goto
<1>5. \A q \in Proc : request'[q] = IF q = p THEN None ELSE request[q]
  BY DEF Start, TypeOK
<1>6. (\A q \in Proc : Addressed(q) /\ Saves(q) /\ LogsIn(q))'
  BY <1>2, <1>3, <1>4 DEF Start, Addressed, Saves, LogsIn, Paired
<1>7. TokenStaysWithHost'
  BY <1>2, <1>5 DEF TokenStaysWithHost
<1>. QED
  BY <1>1, <1>6, <1>7 DEF Start, Paired

(* A command that ends without having saved or sent anything.              *)
LEMMA TokenFinish ==
    ASSUME TokenInv, NEW p \in Proc, NEW what \in {"ok", "failed", "unreachable"},
           Finish(p, what), UNCHANGED <<file, job, request, signedOut>>
    PROVE  TokenInv'
<1> USE DEF TokenInv, Finish, Exit, Goto
<1>1. TypeOK'
  BY DEF TypeOK, NoConfig, KueConfig
<1>2. \A q \in Proc : q # p => pc'[q] = pc[q] /\ config'[q] = config[q]
  BY DEF TypeOK
<1>3. pc'[p] = "idle"
  BY DEF TypeOK
<1>4. (\A q \in Proc : Addressed(q) /\ Saves(q) /\ LogsIn(q))'
  BY <1>2, <1>3 DEF Addressed, Saves, LogsIn, Paired
<1>. QED
  BY <1>1, <1>4 DEF TokenStaysWithHost, Paired

LEMMA TokenResolve ==
    ASSUME TokenInv, NEW p \in Proc, Resolve(p)
    PROVE  TokenInv'
<1> USE DEF TokenInv
<1> DEFINE loaded == LoadKueConfig(file)
           resolved == [loaded EXCEPT !.host = ResolvedHost(job[p], loaded)]
<1>1. CASE file = Torn
  <2>1. /\ Finish(p, "failed")
        /\ UNCHANGED <<file, job, request, signedOut>>
    BY <1>1 DEF Resolve
  <2>. QED
    BY <2>1, TokenFinish
<1>2. CASE file # Torn
  <2>1. loaded \in KueConfig /\ job[p] \in Jobs
    BY <1>2, LoadedType DEF TypeOK, Jobs
  <2>2. ResolvedHost(job[p], loaded) \in Host
    BY <2>1, ResolvedHostType
  <2>3. /\ resolved \in KueConfig
        /\ resolved.host = ResolvedHost(job[p], loaded)
        /\ resolved.login = loaded.login
    BY <2>1, <2>2 DEF KueConfig
  <2>4. Paired(loaded)
    BY <1>2 DEF LoadKueConfig, Paired, NoConfig, TypeOK
  <2>5. resolved.host # None
    BY <2>2, <2>3, NoneIsNoHost
  <2>6. resolved.login # None => job[p].flag # None \/ resolved.host.name = resolved.login
    BY <2>3, <2>4 DEF ResolvedHost, Paired
  <2>7. Forgotten(resolved) \in KueConfig /\ Forgotten(resolved).login = None
    BY <2>3 DEF Forgotten, KueConfig
  <2>8. /\ config' = [config EXCEPT ![p] = config'[p]]
        /\ pc' = [pc EXCEPT ![p] = pc'[p]]
        /\ UNCHANGED <<file, job, request, signedOut>>
    BY <1>2 DEF Resolve, TypeOK, Finish, Exit, Goto
  <2>9. \/ pc'[p] = "idle" /\ config'[p] = NoConfig
        \/ pc'[p] = "https" /\ config'[p] = resolved /\ job[p].cmd = "login"
        \/ pc'[p] = "truncate" /\ config'[p] = Forgotten(resolved) /\ job[p].cmd = "logout"
        \/ pc'[p] = "request" /\ config'[p] = resolved
    BY <1>2 DEF Resolve, TypeOK, Finish, Exit, Goto
  <2>10. outcome' \in [Proc -> {"none", "ok", "failed", "unreachable"}]
    BY <1>2 DEF Resolve, TypeOK, Finish
  <2>11. config'[p] \in KueConfig
    BY <2>3, <2>7, <2>9 DEF NoConfig, KueConfig
  <2>12. TypeOK'
    <3>1. pc' \in [Proc -> Labels]
      BY <2>8, <2>9 DEF TypeOK, Labels
    <3>2. config' \in [Proc -> KueConfig]
      BY <2>8, <2>11 DEF TypeOK
    <3>. QED
      BY <2>8, <2>10, <3>1, <3>2 DEF TypeOK, Labels
  <2>13. (Addressed(p) /\ Saves(p) /\ LogsIn(p))'
    BY <2>5, <2>6, <2>7, <2>8, <2>9 DEF Addressed, Saves, LogsIn, Paired, TypeOK
  <2>14. ASSUME NEW q \in Proc, q # p PROVE (Addressed(q) /\ Saves(q) /\ LogsIn(q))'
    BY <2>8, <2>14 DEF Addressed, Saves, LogsIn, Paired, TypeOK
  <2>15. TokenStaysWithHost' /\ (file \in KueConfig => Paired(file))'
    BY <2>8 DEF TokenStaysWithHost, Paired
  <2>. QED
    BY <2>12, <2>13, <2>14, <2>15
<1>. QED
  BY <1>1, <1>2

(* What holds of the process that takes the step is all there is to show   *)
(* of a step.                                                              *)
SentRight(p) ==
    request[p] # None /\ request[p].token # None =>
        job[p].flag # None \/ request[p].to.name = request[p].token

LEMMA TokenOfOne ==
    ASSUME TokenInv, NEW p \in Proc, TypeOK', UNCHANGED job,
           \A q \in Proc : q # p => /\ pc'[q] = pc[q] /\ config'[q] = config[q]
                                    /\ request'[q] = request[q],
           file' \in KueConfig => Paired(file'),
           (Addressed(p) /\ Saves(p) /\ LogsIn(p) /\ SentRight(p))'
    PROVE  TokenInv'
<1>1. ASSUME NEW q \in Proc PROVE (Addressed(q) /\ Saves(q) /\ LogsIn(q) /\ SentRight(q))'
  <2>1. CASE q = p
    BY <2>1
  <2>2. CASE q # p
    BY <2>2 DEF TokenInv, Addressed, Saves, LogsIn, SentRight, Paired, TokenStaysWithHost
  <2>. QED
    BY <2>1, <2>2
<1>. QED
  BY <1>1 DEF TokenInv, TokenStaysWithHost, SentRight, Paired

LEMMA TokenRequest ==
    ASSUME TokenInv, NEW p \in Proc, Request(p)
    PROVE  TokenInv'
<1> USE DEF TokenInv
<1> DEFINE to == NormalizeHost(config[p].host)
           token == IF job[p].cmd = "register" THEN None ELSE config[p].login
<1>1. config[p] \in KueConfig /\ config[p].host \in Host
  BY DEF TypeOK, Request, Addressed, KueConfig
<1>2. to \in Address /\ to.name = config[p].host.name
  BY <1>1, HostsAreGiven, NormalizeKeepsName
<1>3. request' = [request EXCEPT ![p] = [to |-> to, token |-> token]]
  BY DEF Request
<1>4. PICK what \in {"ok", "failed", "unreachable"} : Finish(p, what)
  BY DEF Request
<1>5. token \in Name \cup {None}
  BY <1>1 DEF KueConfig
<1>6. TypeOK'
  BY <1>2, <1>3, <1>4, <1>5 DEF TypeOK, Request, Finish, Exit, Goto, NoConfig, KueConfig
<1>7. request'[p] = [to |-> to, token |-> token] /\ pc'[p] = "idle"
  BY <1>3, <1>4 DEF TypeOK, Finish, Exit, Goto
<1>8. SentRight(p)'
  <2>1. token # None => token = config[p].login
    OBVIOUS
  <2>2. token # None => job[p].flag # None \/ to.name = token
    BY <1>2, <2>1 DEF Addressed, Request
  <2>. QED
    BY <1>7, <2>2 DEF SentRight, Request
<1>9. (Addressed(p) /\ Saves(p) /\ LogsIn(p))'
  BY <1>7 DEF Addressed, Saves, LogsIn
<1>. QED
  BY <1>3, <1>4, <1>6, <1>8, <1>9, TokenOfOne DEF Request, Finish, Exit, Goto, TypeOK, Paired

LEMMA TokenLogin ==
    ASSUME TokenInv, NEW p \in Proc, Login(p)
    PROVE  TokenInv'
<1> USE DEF TokenInv
<1> DEFINE host == ResolveAPIHost(job[p].flag, job[p].env)
           to == [scheme |-> pc[p], name |-> LoginName(host)]
           stored == [host |-> host, login |-> to.name]
<1>1. host \in Address /\ host \in Host
  BY ResolveAPIHostType DEF TypeOK
<1>2. job[p].cmd = "login"
  BY DEF Login, LogsIn
<1>3. CASE /\ to \in Online
           /\ config' = [config EXCEPT ![p] = stored]
           /\ Goto(p, "truncate")
           /\ UNCHANGED outcome
  <2>1. LoginName(host) \in Name /\ LoginName(host) = host.name
    BY <1>1, <1>3, AnsweredLogin
  <2>2. stored \in KueConfig /\ Paired(stored)
    BY <1>1, <2>1, NoneIsNoHost DEF KueConfig, Paired
  <2>3. config'[p] = stored /\ pc'[p] = "truncate"
    BY <1>3 DEF Goto, TypeOK
  <2>4. TypeOK'
    BY <1>3, <2>2 DEF TypeOK, Login, Goto
  <2>5. (Addressed(p) /\ Saves(p) /\ LogsIn(p))'
    BY <1>2, <2>2, <2>3 DEF Addressed, Saves, LogsIn, Login, Paired
  <2>6. SentRight(p)'
    BY DEF Login, SentRight, TokenStaysWithHost
  <2>. QED
    BY <1>3, <2>4, <2>5, <2>6, TokenOfOne DEF Login, Goto, TypeOK, Paired
<1>4. CASE Goto(p, "http") /\ UNCHANGED <<config, outcome>>
  <2>1. TypeOK'
    BY <1>4 DEF TypeOK, Login, Goto
  <2>2. pc'[p] = "http"
    BY <1>4 DEF Goto, TypeOK
  <2>3. (Addressed(p) /\ Saves(p) /\ LogsIn(p))'
    BY <1>2, <2>2 DEF Addressed, Saves, LogsIn, Login
  <2>4. SentRight(p)'
    BY DEF Login, SentRight, TokenStaysWithHost
  <2>. QED
    BY <1>4, <2>1, <2>3, <2>4, TokenOfOne DEF Login, Goto, TypeOK, Paired
<1>5. CASE Finish(p, "failed") \/ Finish(p, "unreachable")
  BY <1>5, TokenFinish DEF Login
<1>. QED
  BY <1>3, <1>4, <1>5 DEF Login

LEMMA TokenSaveTruncate ==
    ASSUME TokenInv, NEW p \in Proc, SaveTruncate(p)
    PROVE  TokenInv'
<1> USE DEF TokenInv
<1>1. pc[p] = "truncate" /\ pc'[p] = "fill"
  BY DEF SaveTruncate, Goto, TypeOK
<1>2. TypeOK'
  BY DEF TypeOK, SaveTruncate, Goto
<1>3. (Addressed(p) /\ Saves(p) /\ LogsIn(p))'
  BY <1>1 DEF Addressed, Saves, LogsIn, Paired, SaveTruncate
<1>4. SentRight(p)'
  BY DEF SaveTruncate, SentRight, TokenStaysWithHost
<1>5. file' \notin KueConfig
  BY FileAssumption DEF SaveTruncate
<1>. QED
  BY <1>2, <1>3, <1>4, <1>5, TokenOfOne DEF SaveTruncate, Goto, TypeOK

(* A step that ends a command and leaves a stored file that was paired, or *)
(* none.                                                                   *)
LEMMA TokenExit ==
    ASSUME TokenInv, NEW p \in Proc, TypeOK', Exit(p), UNCHANGED <<job, request>>,
           file' \in KueConfig => Paired(file')
    PROVE  TokenInv'
<1>1. pc'[p] = "idle"
  BY DEF TokenInv, TypeOK, Exit, Goto
<1>2. (Addressed(p) /\ Saves(p) /\ LogsIn(p))'
  BY <1>1 DEF Addressed, Saves, LogsIn
<1>3. SentRight(p)'
  BY DEF SentRight, TokenInv, TokenStaysWithHost
<1>. QED
  BY <1>2, <1>3, TokenOfOne DEF TokenInv, TypeOK, Exit, Goto

LEMMA CutShortFile ==
    ASSUME TokenInv, NEW p \in Proc, CutShort(p)
    PROVE  /\ file' \in KueConfig \cup {Missing, Empty, Torn}
           /\ file' \in KueConfig => file' = file /\ Paired(file')
BY FileAssumption DEF TokenInv, TypeOK, CutShort, Paired

LEMMA TokenSave ==
    ASSUME TokenInv, NEW p \in Proc, SaveFill(p) \/ SaveFailed(p) \/ Crash(p)
    PROVE  TokenInv'
<1> USE DEF TokenInv
<1>1. CASE SaveFill(p)
  <2>1. config[p] \in KueConfig /\ Paired(config[p])
    BY <1>1 DEF TypeOK, SaveFill, Saves
  <2>2. file' \in {config[p], Torn}
    BY <1>1 DEF SaveFill
  <2>3. file' \in KueConfig => Paired(file')
    BY <2>1, <2>2, FileAssumption
  <2>4. signedOut' \in BOOLEAN
    BY <1>1 DEF SaveFill, TypeOK
  <2>5. Finish(p, "ok") /\ UNCHANGED <<job, request>>
    BY <1>1 DEF SaveFill
  <2>6. TypeOK'
    BY <2>1, <2>2, <2>4, <2>5 DEF TypeOK, Finish, Exit, Goto, NoConfig, KueConfig
  <2>. QED
    BY <2>3, <2>5, <2>6, TokenExit DEF Finish
<1>2. CASE SaveFailed(p)
  <2>1. TypeOK'
    BY <1>2, CutShortFile DEF TypeOK, SaveFailed, Finish, Exit, Goto, NoConfig, KueConfig
  <2>. QED
    BY <1>2, <2>1, CutShortFile, TokenExit DEF SaveFailed, Finish
<1>3. CASE Crash(p)
  <2>1. TypeOK'
    BY <1>3, CutShortFile DEF TypeOK, Crash, Exit, Goto, NoConfig, KueConfig
  <2>. QED
    BY <1>3, <2>1, CutShortFile, TokenExit DEF Crash
<1>. QED
  BY <1>1, <1>2, <1>3

LEMMA TokenStep == TokenInv /\ [Next]_vars => TokenInv'
<1> SUFFICES ASSUME TokenInv, [Next]_vars PROVE TokenInv'
  OBVIOUS
<1>1. ASSUME NEW p \in Proc, NEW cmd \in Command, NEW flag \in Flags \cup {None},
             NEW env \in Envs \cup {None}, Start(p, cmd, flag, env)
      PROVE  TokenInv'
  BY <1>1, TokenStart
<1>2. ASSUME NEW p \in Proc, Step(p) PROVE TokenInv'
  BY <1>2, TokenResolve, TokenRequest, TokenLogin, TokenSaveTruncate, TokenSave DEF Step
<1>3. CASE UNCHANGED vars
  BY <1>3 DEF vars, TokenInv, TypeOK, Addressed, Saves, LogsIn, Paired, TokenStaysWithHost
<1>. QED
  BY <1>1, <1>2, <1>3 DEF Next

LEMMA TokenInit == Init => TokenInv
<1> SUFFICES ASSUME Init PROVE TokenInv
  OBVIOUS
<1>1. TypeOK
  <2>1. file \in KueConfig \cup {Missing}
    BY DEF Init, KueConfig, Host
  <2>2. config \in [Proc -> KueConfig]
    BY DEF Init, NoConfig, KueConfig
  <2>3. job \in [Proc -> Jobs]
    BY DEF Init, Jobs, Command
  <2>. QED
    BY <2>1, <2>2, <2>3 DEF Init, TypeOK, Jobs
<1>2. file \in KueConfig => Paired(file)
  BY FileAssumption DEF Init, Paired
<1>. QED
  BY <1>1, <1>2 DEF Init, TokenInv, Addressed, Saves, LogsIn, TokenStaysWithHost

LEMMA TokenInductive == Spec => []TokenInv
BY TokenInit, TokenStep, PTL DEF Spec

(* Every reachable state is well typed: in particular every host that is   *)
(* stored is one a user gave or one with a scheme, and every token one of  *)
(* a server.                                                               *)
THEOREM SessionTypeCorrect == Spec => []TypeOK
<1>1. TokenInv => TypeOK
  BY DEF TokenInv
<1>. QED
  BY <1>1, TokenInductive, PTL

(* However many commands overlap, crash or leave torn files behind, a      *)
(* token goes to the server that issued it or where --host says            *)
(* (config.Resolve, PostLogin, SaveKueConfig, performRequest).             *)
THEOREM TokensStay == Spec => []TokenStaysWithHost
<1>1. TokenInv => TokenStaysWithHost
  BY DEF TokenInv
<1>. QED
  BY <1>1, TokenInductive, PTL

-----------------------------------------------------------------------------
(* Logout.  While signed out no login runs, so nobody has a token to save; *)
(* what a command was started with after the logout it has read from a     *)
(* file without one.                                                       *)

SignedOut ==
    signedOut =>
        /\ LoginRuns = {}
        /\ file \in KueConfig => file.login = None

StartedSignedOut(p) ==
    job[p].signedOut =>
        /\ signedOut
        /\ pc[p] = "request" => config[p].login = None
        /\ request[p] # None => request[p].token = None

LogoutInv == TokenInv /\ SignedOut /\ \A p \in Proc : StartedSignedOut(p)

(* A step of a running command starts no login.                            *)
LEMMA NoLoginStarts ==
    ASSUME UNCHANGED job, NEW p \in Proc, pc[p] # "idle", LoginRuns = {},
           \A q \in Proc : q # p => pc'[q] = pc[q]
    PROVE  LoginRuns' = {} /\ job[p].cmd # "login"
BY DEF LoginRuns

LEMMA LogoutStep == LogoutInv /\ [Next]_vars => LogoutInv'
<1> SUFFICES ASSUME LogoutInv, [Next]_vars PROVE LogoutInv'
  OBVIOUS
<1> USE DEF LogoutInv
<1>t. TokenInv'
  BY TokenStep
<1>1. ASSUME NEW p \in Proc, NEW cmd \in Command, NEW flag \in Flags \cup {None},
             NEW env \in Envs \cup {None}, Start(p, cmd, flag, env)
      PROVE  LogoutInv'
  <2>1. signedOut' => signedOut /\ cmd # "login"
    BY <1>1 DEF Start, TokenInv, TypeOK
  <2>2. \A q \in Proc :
          /\ job'[q].cmd = IF q = p THEN cmd ELSE job[q].cmd
          /\ pc'[q] = IF q = p THEN "resolve" ELSE pc[q]
          /\ request'[q] = IF q = p THEN None ELSE request[q]
    BY <1>1 DEF Start, TokenInv, TypeOK, Goto
  <2>3. \A q \in Proc : job'[q].signedOut =>
          /\ signedOut /\ cmd # "login"
          /\ q # p => job[q].signedOut
    BY <1>1 DEF Start, TokenInv, TypeOK, StartedSignedOut
  <2>4. SignedOut'
    BY <1>1, <2>1, <2>2 DEF SignedOut, LoginRuns, Start
  <2>5. ASSUME NEW q \in Proc PROVE StartedSignedOut(q)'
    BY <1>1, <2>2, <2>3 DEF StartedSignedOut, Start
  <2>. QED
    BY <1>t, <2>4, <2>5
<1>2. ASSUME NEW p \in Proc, Step(p)
      PROVE  LogoutInv'
  <2>1. UNCHANGED job /\ pc[p] # "idle"
    BY <1>2 DEF Step, Resolve, Request, Login, SaveTruncate, SaveFill, SaveFailed, Crash
  <2>2. \A q \in Proc : q # p => /\ pc'[q] = pc[q] /\ config'[q] = config[q]
                                 /\ request'[q] = request[q]
    BY <1>2 DEF Step, Resolve, Request, Login, SaveTruncate, SaveFill, SaveFailed, Crash,
                Finish, Exit, Goto, TokenInv, TypeOK
  <2>3. signedOut => signedOut'
    BY <1>2 DEF Step, Resolve, Request, Login, SaveTruncate, SaveFill, SaveFailed, Crash
  <2>4. SUFFICES /\ signedOut' => LoginRuns = {}
                 /\ signedOut' /\ file' \in KueConfig => file'.login = None
                 /\ StartedSignedOut(p)'
    <3>1. ASSUME NEW q \in Proc, q # p PROVE StartedSignedOut(q)'
      BY <2>1, <2>2, <2>3, <3>1 DEF StartedSignedOut
    <3>. QED
      BY <1>t, <2>1, <2>2, <3>1, NoLoginStarts DEF SignedOut
  <2>5. CASE Resolve(p)
    <3>1. signedOut /\ file # Torn => LoadKueConfig(file).login = None
      BY DEF SignedOut, LoadKueConfig, NoConfig, TokenInv, TypeOK
    <3>2. signedOut' = signedOut /\ UNCHANGED <<file, request>>
      BY <2>5 DEF Resolve
    <3>3. signedOut /\ pc'[p] = "request" => config'[p].login = None
      BY <2>5, <3>1, LoadedType
         DEF Resolve, Finish, Exit, Goto, TokenInv, TypeOK, KueConfig
    <3>. QED
      BY <2>1, <3>2, <3>3 DEF SignedOut, StartedSignedOut
  <2>6. CASE Request(p)
    <3>1. pc'[p] = "idle"
      BY <2>6 DEF Request, Finish, Exit, Goto, TokenInv, TypeOK
    <3>2. request'[p].token \in {None, config[p].login} /\ pc[p] = "request"
      BY <2>6 DEF Request, TokenInv, TypeOK
    <3>. QED
      BY <2>1, <2>6, <3>1, <3>2 DEF Request, SignedOut, StartedSignedOut
  <2>7. CASE Login(p)
    <3>1. ~signedOut /\ UNCHANGED signedOut
      BY <2>1, <2>7 DEF Login, TokenInv, LogsIn, SignedOut, LoginRuns
    <3>. QED
      BY <2>1, <3>1 DEF StartedSignedOut
  <2>8. CASE SaveTruncate(p)
    <3>1. file' \notin KueConfig /\ pc'[p] = "fill"
      BY <2>8, FileAssumption DEF SaveTruncate, Goto, TokenInv, TypeOK
    <3>. QED
      BY <2>1, <2>8, <3>1 DEF SaveTruncate, SignedOut, StartedSignedOut
  <2>9. CASE SaveFill(p)
    <3>1. signedOut' => LoginRuns = {}
      BY <2>9 DEF SaveFill, SignedOut
    <3>2. signedOut' => job[p].cmd # "login"
      BY <2>1, <3>1 DEF LoginRuns
    <3>3. signedOut' => config[p].login = None
      BY <2>9, <3>2 DEF SaveFill, TokenInv, Saves
    <3>4. file' \in {config[p], Torn} /\ pc'[p] = "idle"
      BY <2>9 DEF SaveFill, Finish, Exit, Goto, TokenInv, TypeOK
    <3>. QED
      BY <2>1, <2>3, <2>9, <3>1, <3>3, <3>4, FileAssumption DEF SaveFill, StartedSignedOut
  <2>10. CASE SaveFailed(p) \/ Crash(p)
    <3>1. CutShort(p) /\ UNCHANGED <<signedOut, request>> /\ pc'[p] = "idle"
      BY <2>10 DEF SaveFailed, Crash, Finish, Exit, Goto, TokenInv, TypeOK
    <3>2. file' \in KueConfig => file' = file
      BY <3>1, CutShortFile
    <3>. QED
      BY <2>1, <3>1, <3>2 DEF SignedOut, StartedSignedOut
  <2>. QED
    BY <1>2, <2>5, <2>6, <2>7, <2>8, <2>9, <2>10 DEF Step
<1>3. CASE UNCHANGED vars
  BY <1>3, <1>t DEF vars, SignedOut, LoginRuns, StartedSignedOut
<1>. QED
  BY <1>1, <1>2, <1>3 DEF Next

(* A logout that no login overlaps is final until the next login: nothing  *)
(* is stored, and no command started afterwards sends a token, whatever    *)
(* commands still run, crash or tear the file (Logout, SaveKueConfig).     *)
THEOREM LogoutIsFinal == Spec => []LogoutForgets
<1>1. Init => LogoutInv
  BY TokenInit DEF Init, LogoutInv, SignedOut, StartedSignedOut
<1>2. LogoutInv => LogoutForgets
  BY DEF LogoutInv, SignedOut, StartedSignedOut, LogoutForgets
<1>. QED
  BY <1>1, <1>2, LogoutStep, PTL DEF Spec

=============================================================================
