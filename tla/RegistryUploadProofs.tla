------------------------- MODULE RegistryUploadProofs -------------------------
(***************************************************************************)
(* Theorems about RegistryUpload, for any number of processes, any         *)
(* workflows, texts and descriptors, with and without faults.              *)
(***************************************************************************)
EXTENDS RegistryUpload, WellFoundedInduction, TLAPS

(* A command works on the first of its workflows, and there is one.        *)
LEMMA FirstIn ==
    ASSUME NEW S \in SUBSET Workflow, S # {}
    PROVE  First(S) \in S
<1>1. S \in SUBSET Nat
  BY RegistryUploadAssumption DEF Workflow
<1>2. \E w \in S : \A x \in S : <<x, w>> \notin OpToRel(<, Nat)
  BY <1>1, NatLessThanWellFounded, WFMin, Zenon
<1>3. PICK w \in S : \A x \in S : <<x, w>> \notin OpToRel(<, Nat)
  BY <1>2
<1>4. \A x \in S : ~(x < w)
  BY <1>1, <1>3 DEF OpToRel
<1>5. \A x \in S : w <= x
  BY <1>1, <1>4
<1>. QED
  BY <1>5 DEF First

-----------------------------------------------------------------------------
(* Types.                                                                  *)

(* A command in the middle of a workflow has one and, once it is read, its *)
(* text; one that sends a descriptor has read it.                          *)
Working(p) ==
    /\ pc[p] \in {"parse", "send", "receive", "delete"} => todo[p] # {}
    /\ pc[p] \in {"parse", "send", "receive"} => payload[p][First(todo[p])] \in Content
    /\ pc[p] \in {"packageSend", "packageReceive"} => descriptor[p] \in Manifest

TypeInv == TypeOK /\ \A p \in Proc : Working(p)

LEMMA TypeInit == Init => TypeInv
BY RegistryUploadAssumption DEF Init, TypeInv, TypeOK, Working, Job, Lines, Replies

(* Updates keep the types of what they update.                             *)
LEMMA RememberType ==
    ASSUME held \in [Proc -> [Workflow -> SUBSET (Content \cup {Absent})]],
           NEW w \in Workflow, server' \in [Workflow -> Content \cup {Absent}], Remember(w)
    PROVE  held' \in [Proc -> [Workflow -> SUBSET (Content \cup {Absent})]]
<1>. SUFFICES ASSUME NEW p \in Proc
     PROVE  [held[p] EXCEPT ![w] = @ \cup {server'[w]}] \in
              [Workflow -> SUBSET (Content \cup {Absent})]
  BY DEF Remember
<1>. QED
  OBVIOUS

LEMMA LineType ==
    ASSUME report \in [Proc -> [Workflow -> Lines]], NEW p \in Proc, NEW w \in Workflow,
           NEW line \in Lines, Line(p, w, line)
    PROVE  report' \in [Proc -> [Workflow -> Lines]]
BY DEF Line

LEMMA DoneType ==
    ASSUME todo \in [Proc -> SUBSET Workflow], NEW p \in Proc, NEW w, Done(p, w)
    PROVE  /\ todo' \in [Proc -> SUBSET Workflow]
           /\ \A q \in Proc : q # p => todo'[q] = todo[q]
BY DEF Done

(* What the proofs below use of a step: the values a process's own fields  *)
(* take, and that nobody else's change.                                    *)
Moved(p, to) ==
    /\ pc' \in [Proc -> {"idle", "build", "parse", "send", "receive", "package",
                        "packageSend", "packageReceive", "names", "compare", "delete"}]
    /\ pc'[p] \in to
    /\ \A q \in Proc : q # p => pc'[q] = pc[q]

LEMMA TypeStep == TypeInv /\ [Next]_vars => TypeInv'
<1> SUFFICES ASSUME TypeInv, [Next]_vars PROVE TypeInv'
  OBVIOUS
<1> USE RegistryUploadAssumption DEF TypeInv, TypeOK, Working, Goto
<1>1. ASSUME NEW w \in Workflow, NEW c \in Content \cup {Absent}, Edit(w, c)
      PROVE  TypeInv'
  BY <1>1 DEF Edit, registry, packageJob, history
<1>2. ASSUME NEW m \in Manifest \cup {Absent}, EditManifest(m)
      PROVE  TypeInv'
  BY <1>2 DEF EditManifest, registry, packageJob, history
<1>3. ASSUME NEW p \in Proc, NEW cmd \in {"upload", "status", "delete"},
             NEW m \in {"POST", "PUT"}, NEW work \in SUBSET Workflow,
             NEW l \in {"build", "delete"}, l = "delete" => work # {},
             Begin(p, cmd, m, work, l)
      PROVE  TypeInv'
  BY <1>3 DEF Begin, project, registry, Job, Lines, Replies
<1>4. ASSUME NEW p \in Proc, NEW m \in Methods, NEW q \in SUBSET Workflow, StartUpload(p, m, q)
      PROVE  TypeInv'
  <2>1. Begin(p, "upload", m, q \cap Present, "build") /\ q \cap Present \in SUBSET Workflow
    BY <1>4 DEF StartUpload
  <2>2. m \in {"POST", "PUT"}
    OBVIOUS
  <2>. QED
    BY <1>3, <2>1, <2>2
<1>5. ASSUME NEW p \in Proc, StartStatus(p)
      PROVE  TypeInv'
  BY <1>3, <1>5 DEF StartStatus, Present
<1>6. ASSUME NEW p \in Proc, NEW w \in Workflow, StartDelete(p, w)
      PROVE  TypeInv'
  BY <1>3, <1>6 DEF StartDelete
<1>7. ASSUME NEW p \in Proc, Read(p)
      PROVE  TypeInv'
  <2>1. First(todo[p]) \in Workflow
    BY <1>7, FirstIn DEF Read
  <2>2. Source(First(todo[p])) \in Content
    BY <2>1 DEF Source
  <2>. QED
    BY <1>7, <2>1, <2>2 DEF Read, project, registry, packageJob, history
<1>8. ASSUME NEW p \in Proc, Parse(p)
      PROVE  TypeInv'
  <2>1. First(todo[p]) \in Workflow
    BY <1>8, FirstIn DEF Parse
  <2>2. UNCHANGED <<local, manifest, edits, server, package, job, payload, reply, descriptor,
                    packageReport, held, heldPackage>>
    BY <1>8 DEF Parse, project, registry, packageJob, history
  <2>3. CASE local[First(todo[p])] \in Broken \cup {Absent}
    <3>1. report' \in [Proc -> [Workflow -> Lines]]
      <4>1. PICK line \in Lines : Line(p, First(todo[p]), line)
        BY <1>8, <2>3 DEF Parse, Lines
      <4>. QED
        BY <2>1, <4>1, LineType
    <3>2. todo' \in [Proc -> SUBSET Workflow] /\ \A q \in Proc : q # p => todo'[q] = todo[q]
      <4>1. Done(p, First(todo[p]))
        BY <1>8, <2>3 DEF Parse
      <4>. QED
        BY <4>1, DoneType
    <3>3. Moved(p, {"build"})
      BY <1>8, <2>3 DEF Parse, Moved
    <3>. QED
      BY <2>2, <3>1, <3>2, <3>3 DEF Moved
  <2>4. CASE local[First(todo[p])] \notin Broken \cup {Absent} /\ job[p].cmd = "upload"
    <3>1. pc' = [pc EXCEPT ![p] = "send"] /\ UNCHANGED <<todo, report>>
      BY <1>8, <2>4 DEF Parse
    <3>. QED
      BY <1>8, <2>2, <3>1 DEF Parse
  <2>5. CASE local[First(todo[p])] \notin Broken \cup {Absent} /\ job[p].cmd # "upload"
    <3>1. pc' = [pc EXCEPT ![p] = "build"] /\ UNCHANGED report /\ Done(p, First(todo[p]))
      BY <1>8, <2>5 DEF Parse
    <3>. QED
      BY <2>2, <3>1 DEF Done
  <2>. QED
    BY <2>3, <2>4, <2>5
<1>9. ASSUME NEW p \in Proc, Built(p)
      PROVE  TypeInv'
  BY <1>9 DEF Built, project, registry, packageJob, history
<1>10. ASSUME NEW p \in Proc, Send(p)
       PROVE  TypeInv'
  <2>1. First(todo[p]) \in Workflow
    BY <1>10, FirstIn DEF Send
  <2>2. server' \in [Workflow -> Content \cup {Absent}]
    BY <1>10, <2>1 DEF Send, Store, NotSent, registry
  <2>3. held' \in [Proc -> [Workflow -> SUBSET (Content \cup {Absent})]]
    BY <1>10, <2>1, <2>2, RememberType DEF Send, Store, NotSent, history
  <2>5. reply' \in [Proc -> Replies]
    <3>1. PICK code \in Replies : reply' = [reply EXCEPT ![p] = code]
      BY <1>10 DEF Send, Store, NotSent, Answered, Replies
    <3>. QED
      BY <3>1
  <2>4. UNCHANGED <<package, heldPackage>>
    BY <1>10 DEF Send, Store, NotSent, registry, history
  <2>. QED
    BY <1>10, <2>2, <2>3, <2>4, <2>5 DEF Send, project, packageJob
<1>11. ASSUME NEW p \in Proc, Receive(p)
       PROVE  TypeInv'
  <2>1. First(todo[p]) \in Workflow
    BY <1>11, FirstIn DEF Receive
  <2>. QED
    BY <1>11, <2>1 DEF Receive, Line, LineFor, Done, Lines, project, registry, packageJob, history
<1>12. ASSUME NEW p \in Proc, ReadPackage(p)
       PROVE  TypeInv'
  <2>1. UNCHANGED <<local, manifest, edits, server, package, job, todo, payload, reply, report,
                    held, heldPackage>>
    BY <1>12 DEF ReadPackage, project, registry, history
  <2>2. CASE manifest = Absent /\ Goto(p, "idle") /\ UNCHANGED packageJob
    BY <2>1, <2>2 DEF packageJob
  <2>3. CASE Goto(p, "idle") /\ UNCHANGED descriptor /\
             packageReport' = [packageReport EXCEPT ![p] = "failed"]
    BY <2>1, <2>3
  <2>4. CASE manifest \in Manifest \ Broken /\ descriptor' = [descriptor EXCEPT ![p] = manifest] /\
             Goto(p, "packageSend") /\ UNCHANGED packageReport
    BY <2>1, <2>4
  <2>. QED
    BY <1>12, <2>2, <2>3, <2>4 DEF ReadPackage
<1>13. ASSUME NEW p \in Proc, SendPackage(p)
       PROVE  TypeInv'
  <2>1. package' \in Manifest \cup {Absent}
    BY <1>13 DEF SendPackage, NotSent, registry
  <2>4. reply' \in [Proc -> Replies]
    <3>1. PICK code \in Replies : reply' = [reply EXCEPT ![p] = code]
      BY <1>13 DEF SendPackage, NotSent, Answered, Replies
    <3>. QED
      BY <3>1
  <2>2. heldPackage' \in [Proc -> SUBSET (Manifest \cup {Absent})]
    BY <1>13, <2>1 DEF SendPackage, NotSent, RememberPackage, history
  <2>3. UNCHANGED <<server, held>>
    BY <1>13 DEF SendPackage, NotSent, registry, history
  <2>. QED
    BY <1>13, <2>1, <2>2, <2>3, <2>4 DEF SendPackage, project, packageJob
<1>14. ASSUME NEW p \in Proc, PackageReceive(p)
       PROVE  TypeInv'
  <2>1. UNCHANGED <<local, manifest, edits, server, package, todo, payload, descriptor, reply,
                    report, held, heldPackage>>
    BY <1>14 DEF PackageReceive, project, registry, history
  <2>2. CASE Retry(p)
    <3>1. /\ job' = [job EXCEPT ![p].method = "PUT"]
          /\ pc' = [pc EXCEPT ![p] = "packageSend"]
          /\ UNCHANGED packageReport
      BY <1>14, <2>2 DEF PackageReceive
    <3>2. job' \in [Proc -> Job]
      <4>1. job[p] \in [cmd : {"upload", "status", "delete"}, method : {"POST", "PUT"}]
        BY DEF Job
      <4>2. [job[p] EXCEPT !.method = "PUT"] \in Job
        BY <4>1 DEF Job
      <4>. QED
        BY <3>1, <4>2
    <3>. QED
      BY <1>14, <2>1, <3>1, <3>2 DEF PackageReceive
  <2>3. CASE ~Retry(p)
    <3>1. /\ packageReport' = [packageReport EXCEPT
                                  ![p] = IF reply[p] = 200 THEN "ok" ELSE "failed"]
          /\ pc' = [pc EXCEPT ![p] = "idle"]
          /\ UNCHANGED job
      BY <1>14, <2>3 DEF PackageReceive
    <3>. QED
      BY <2>1, <3>1
  <2>. QED
    BY <2>2, <2>3
<1>15. ASSUME NEW p \in Proc, Names(p)
       PROVE  TypeInv'
  <2>1. report' \in [Proc -> [Workflow -> Lines]]
    BY <1>15 DEF Names, Lines
  <2>2. todo' \in [Proc -> SUBSET Workflow]
    BY <1>15 DEF Names, Discovered
  <2>. QED
    BY <1>15, <2>1, <2>2 DEF Names, project, registry, packageJob, history
<1>16. ASSUME NEW p \in Proc, Quit(p), UNCHANGED <<project, registry, job, heldPackage>>
       PROVE  TypeInv'
  BY <1>16 DEF Quit, Lines, Replies, project, registry
<1>17. ASSUME NEW p \in Proc, Compare(p)
       PROVE  TypeInv'
  <2>1. UNCHANGED <<local, manifest, edits, server, package, job, payload, reply, descriptor,
                    packageReport, held, heldPackage>>
    BY <1>17 DEF Compare, project, registry, packageJob, history
  <2>2. CASE todo[p] = {}
    BY <1>17, <2>1, <2>2 DEF Compare
  <2>3. CASE todo[p] # {}
    <3>1. First(todo[p]) \in Workflow
      BY <2>3, FirstIn
    <3>2. PICK line \in Lines : Line(p, First(todo[p]), line)
      BY <1>17, <2>3 DEF Compare, FetchError, Lines
    <3>3. Done(p, First(todo[p])) /\ UNCHANGED pc /\ pc[p] = "compare"
      BY <1>17, <2>3 DEF Compare
    <3>. QED
      BY <2>1, <3>1, <3>2, <3>3 DEF Line, Done
  <2>. QED
    BY <2>2, <2>3
<1>18. ASSUME NEW p \in Proc, Delete(p)
       PROVE  TypeInv'
  <2>1. First(todo[p]) \in Workflow
    BY <1>18, FirstIn DEF Delete
  <2>2. server' \in [Workflow -> Content \cup {Absent}]
    BY <1>18, <2>1 DEF Delete, NotSent, registry
  <2>3. held' \in [Proc -> [Workflow -> SUBSET (Content \cup {Absent})]]
    BY <1>18, <2>1, <2>2, RememberType DEF Delete, NotSent, history
  <2>6. reply' \in [Proc -> Replies]
    <3>1. PICK code \in Replies : reply' = [reply EXCEPT ![p] = code]
      BY <1>18 DEF Delete, NotSent, Answered, Replies
    <3>. QED
      BY <3>1
  <2>4. UNCHANGED <<package, heldPackage>>
    BY <1>18 DEF Delete, NotSent, registry, history
  <2>5. report' \in [Proc -> [Workflow -> Lines]]
    BY <1>18, <2>1 DEF Delete, Line, Lines
  <2>. QED
    <3>1. pc' = [pc EXCEPT ![p] = "idle"] /\ UNCHANGED <<project, job, todo, payload, packageJob>>
      BY <1>18 DEF Delete
    <3>. QED
      BY <2>2, <2>3, <2>4, <2>5, <2>6, <3>1 DEF project, packageJob
<1>19. CASE UNCHANGED vars
  BY <1>19 DEF vars
<1>. QED
  BY <1>1, <1>2, <1>4, <1>5, <1>6, <1>7, <1>8, <1>9, <1>10, <1>11, <1>12, <1>13, <1>14,
     <1>15, <1>16, <1>17, <1>18, <1>19 DEF Next, Step, NamesFailed, Crash

LEMMA TypeAlways == Spec => []TypeInv
BY TypeInit, TypeStep, PTL DEF Spec

(* Every reachable state of the commands and the registry is well typed:   *)
(* in particular only a text that was read is ever sent.                   *)
THEOREM RegistryUploadTypeCorrect == Spec => []TypeOK
BY TypeAlways, PTL DEF TypeInv

-----------------------------------------------------------------------------
(* What a command remembers.                                               *)

(* While a command runs, what the server holds is among what it has held   *)
(* since the start: every store and every delete is remembered for all the *)
(* commands under way, not only for the one that sends it.                 *)
HeldInv(p) ==
    pc[p] # "idle" =>
        /\ \A w \in Workflow : server[w] \in held[p][w]
        /\ package \in heldPackage[p]

AllHeld == \A p \in Proc : HeldInv(p)

LEMMA RememberHeld ==
    ASSUME TypeOK, AllHeld, NEW p \in Proc, pc[p] # "idle",
           NEW w \in Workflow, NEW c \in Content \cup {Absent},
           server' = [server EXCEPT ![w] = c], Remember(w), UNCHANGED <<package, heldPackage>>,
           \A q \in Proc : pc'[q] # "idle" => pc[q] # "idle"
    PROVE  AllHeld'
<1>1. SUFFICES ASSUME NEW q \in Proc, pc'[q] # "idle" PROVE HeldInv(q)'
  BY DEF AllHeld, HeldInv
<1>2. pc[q] # "idle"
  BY <1>1
<1>3. held'[q] = [held[q] EXCEPT ![w] = @ \cup {server'[w]}]
  BY <1>2 DEF Remember
<1>4. /\ held[q] \in [Workflow -> SUBSET (Content \cup {Absent})]
      /\ server \in [Workflow -> Content \cup {Absent}]
  BY DEF TypeOK
<1>5. \A v \in Workflow : server'[v] \in held'[q][v]
  BY <1>2, <1>3, <1>4 DEF AllHeld, HeldInv
<1>. QED
  BY <1>2, <1>5 DEF AllHeld, HeldInv

LEMMA HeldStep == TypeInv /\ AllHeld /\ [Next]_vars => AllHeld'
<1> SUFFICES ASSUME TypeInv, AllHeld, [Next]_vars PROVE AllHeld'
  OBVIOUS
<1> USE DEF Goto
<1>0. TypeOK
  BY DEF TypeInv
<1>1. ASSUME NEW w \in Workflow, NEW c \in Content \cup {Absent}, Edit(w, c)
      PROVE  AllHeld'
  BY <1>1 DEF Edit, registry, history, AllHeld, HeldInv
<1>2. ASSUME NEW m \in Manifest \cup {Absent}, EditManifest(m)
      PROVE  AllHeld'
  BY <1>2 DEF EditManifest, registry, history, AllHeld, HeldInv
<1>3. ASSUME NEW p \in Proc, NEW cmd, NEW m, NEW work, NEW l, Begin(p, cmd, m, work, l)
      PROVE  AllHeld'
  <2>1. UNCHANGED <<server, package>>
    BY <1>3 DEF Begin, registry
  <2>2. held'[p] = [w \in Workflow |-> {server[w]}] /\ heldPackage'[p] = {package}
    BY <1>0, <1>3 DEF Begin, TypeOK
  <2>3. \A q \in Proc : q # p =>
          held'[q] = held[q] /\ heldPackage'[q] = heldPackage[q] /\ pc'[q] = pc[q]
    BY <1>0, <1>3 DEF Begin, TypeOK
  <2>. QED
    BY <2>1, <2>2, <2>3 DEF AllHeld, HeldInv
<1>4. ASSUME NEW p \in Proc, pc[p] # "idle", pc' = [pc EXCEPT ![p] = pc'[p]],
             UNCHANGED <<registry, history>>
      PROVE  AllHeld'
  BY <1>0, <1>4 DEF AllHeld, HeldInv, registry, history, TypeOK
<1>5. ASSUME NEW p \in Proc, Read(p) \/ Built(p) \/ Receive(p) \/ Names(p)
      PROVE  AllHeld'
  BY <1>0, <1>5, <1>4 DEF Read, Built, Receive, Names, TypeOK
<1>6. ASSUME NEW p \in Proc, Parse(p)
      PROVE  AllHeld'
  BY <1>0, <1>6, <1>4 DEF Parse, TypeOK
<1>7. ASSUME NEW p \in Proc, ReadPackage(p)
      PROVE  AllHeld'
  BY <1>0, <1>7, <1>4 DEF ReadPackage, TypeOK
<1>8. ASSUME NEW p \in Proc, PackageReceive(p)
      PROVE  AllHeld'
  BY <1>0, <1>8, <1>4 DEF PackageReceive, TypeOK
<1>9. ASSUME NEW p \in Proc, Compare(p)
      PROVE  AllHeld'
  BY <1>0, <1>9, <1>4 DEF Compare, TypeOK
<1>10. ASSUME NEW p \in Proc, Quit(p), UNCHANGED <<registry, heldPackage>>
       PROVE  AllHeld'
  BY <1>0, <1>10 DEF Quit, registry, AllHeld, HeldInv, TypeOK
<1>11. ASSUME NEW p \in Proc, Send(p)
       PROVE  AllHeld'
  <2>1. First(todo[p]) \in Workflow /\ payload[p][First(todo[p])] \in Content
    BY <1>0, <1>11, FirstIn DEF Send, TypeInv, Working, TypeOK
  <2>2. pc[p] # "idle" /\ pc' = [pc EXCEPT ![p] = "receive"]
    BY <1>11 DEF Send
  <2>3. CASE UNCHANGED <<registry, history>>
    BY <1>0, <2>2, <2>3, <1>4 DEF TypeOK
  <2>4. CASE /\ server' = [server EXCEPT ![First(todo[p])] = payload[p][First(todo[p])]]
             /\ Remember(First(todo[p]))
             /\ UNCHANGED <<package, heldPackage>>
    BY <1>0, <2>1, <2>2, <2>4, RememberHeld DEF TypeOK
  <2>. QED
    BY <1>11, <2>3, <2>4 DEF Send, Store, NotSent
<1>12. ASSUME NEW p \in Proc, Delete(p)
       PROVE  AllHeld'
  <2>1. First(todo[p]) \in Workflow
    BY <1>0, <1>12, FirstIn DEF Delete, TypeInv, Working, TypeOK
  <2>2. pc[p] # "idle" /\ pc' = [pc EXCEPT ![p] = "idle"]
    BY <1>12 DEF Delete
  <2>3. CASE UNCHANGED <<registry, history>>
    BY <1>0, <2>2, <2>3, <1>4 DEF TypeOK
  <2>4. CASE /\ server' = [server EXCEPT ![First(todo[p])] = Absent]
             /\ Remember(First(todo[p]))
             /\ UNCHANGED <<package, heldPackage>>
    BY <1>0, <2>1, <2>2, <2>4, RememberHeld DEF TypeOK
  <2>. QED
    BY <1>12, <2>3, <2>4 DEF Delete, NotSent
<1>13. ASSUME NEW p \in Proc, SendPackage(p)
       PROVE  AllHeld'
  <2>1. pc[p] # "idle" /\ pc' = [pc EXCEPT ![p] = "packageReceive"]
    BY <1>13 DEF SendPackage
  <2>2. CASE UNCHANGED <<registry, history>>
    BY <1>0, <2>1, <2>2, <1>4 DEF TypeOK
  <2>3. CASE RememberPackage /\ UNCHANGED <<server, held>>
    BY <1>0, <2>1, <2>3 DEF RememberPackage, AllHeld, HeldInv, TypeOK
  <2>. QED
    BY <1>13, <2>2, <2>3 DEF SendPackage, NotSent
<1>14. CASE UNCHANGED vars
  BY <1>14 DEF vars, AllHeld, HeldInv
<1>. QED
  BY <1>1, <1>2, <1>3, <1>5, <1>6, <1>7, <1>8, <1>9, <1>10, <1>11, <1>12, <1>13, <1>14
     DEF Next, Step, StartUpload, StartStatus, StartDelete, NamesFailed, Crash

LEMMA HeldAlways == Spec => []AllHeld
<1>1. Init => AllHeld
  BY DEF Init, AllHeld, HeldInv
<1>. QED
  BY <1>1, HeldStep, TypeAlways, PTL DEF Spec

-----------------------------------------------------------------------------
(* Reports.                                                                *)

(* A registry that carries out every POST of an upload, or uploads by PUT. *)
NoConflict == PostUpdates \/ "POST" \notin Methods

(* Which command is where: this is what tells the lines of an upload from  *)
(* those of a status.                                                      *)
CommandInv(p) ==
    /\ pc[p] \in {"send", "receive", "package", "packageSend", "packageReceive"} =>
         job[p].cmd = "upload"
    /\ pc[p] \in {"names", "compare"} => job[p].cmd = "status"
    /\ pc[p] = "delete" => job[p].cmd = "delete"
    /\ pc[p] \in {"build", "parse"} => job[p].cmd \in {"upload", "status"}
    /\ pc[p] \in {"build", "parse", "send", "receive"} /\ job[p].cmd = "upload" =>
         job[p].method \in Methods

(* A workflow has no line before the command is done with it.              *)
LinesInv(p) ==
    /\ pc[p] # "idle" => \A w \in todo[p] : report[p][w] = "none"
    /\ job[p].cmd \in {"upload", "delete"} =>
         \A w \in Workflow : report[p][w] \in {"none", "ok", "failed"}
    /\ job[p].cmd = "status" =>
         \A w \in Workflow : report[p][w] \notin {"ok", "failed"}
    /\ pc[p] \in {"build", "parse", "names"} =>
         \A w \in Workflow : report[p][w] \in {"none", "ok", "failed", "error"}

(* Nor has the package, and its descriptor is read last.                   *)
PackageInv(p) ==
    /\ pc[p] # "idle" => packageReport[p] = "none"
    /\ pc[p] \notin {"idle", "packageSend", "packageReceive"} => descriptor[p] = None

(* A good answer is to a request that the server has carried out, and only *)
(* a POST is answered by a conflict.                                       *)
AnswerInv(p) ==
    /\ pc[p] = "receive" =>
         /\ reply[p] = 200 => payload[p][First(todo[p])] \in held[p][First(todo[p])]
         /\ NoConflict => reply[p] # 409
    /\ pc[p] = "packageReceive" =>
         /\ reply[p] \in {0, 200, 409}
         /\ reply[p] = 200 => descriptor[p] \in heldPackage[p]
         /\ reply[p] = 409 => job[p].method = "POST"

UploadLine(p, w) ==
    NoConflict /\ report[p][w] = "ok" =>
        \/ job[p].cmd = "upload" /\ payload[p][w] \in held[p][w]
        \/ job[p].cmd = "delete" /\ Absent \in held[p][w]

(* Stronger than StatusReportIsTrue in its last line, which would not stay *)
(* true of its own: nothing would come of it but that held[p] is {}.       *)
StatusLine(p, w) ==
    /\ report[p][w] = "new" => Absent \in held[p][w]
    /\ report[p][w] = "unchanged" => payload[p][w] \in held[p][w]
    /\ report[p][w] = "modified" => held[p][w] \ {payload[p][w], Absent} # {}
    /\ report[p][w] = "serverOnly" => payload[p][w] = None /\ held[p][w] \ {Absent} # {}

PackageLine(p) ==
    /\ packageReport[p] = "ok" => descriptor[p] \in heldPackage[p]
    /\ packageReport[p] = "failed" => reply[p] = 0 \/ descriptor[p] = None

ReportInv(p) ==
    /\ CommandInv(p) /\ LinesInv(p) /\ PackageInv(p) /\ AnswerInv(p) /\ PackageLine(p)
    /\ \A w \in Workflow : UploadLine(p, w) /\ StatusLine(p, w)

AllReports == \A p \in Proc : ReportInv(p)

(* What the others do to a process: they make it remember more.            *)
Fields(p) == <<pc[p], job[p], todo[p], payload[p], reply[p], report[p], descriptor[p],
               packageReport[p]>>

Alone(p) ==
    /\ UNCHANGED Fields(p)
    /\ \A w \in Workflow : held[p][w] \subseteq held'[p][w]
    /\ heldPackage[p] \subseteq heldPackage'[p]

LEMMA AloneReports ==
    ASSUME TypeInv, NEW p \in Proc, ReportInv(p), Alone(p)
    PROVE  ReportInv(p)'
<1>1. UNCHANGED <<pc[p], job[p], todo[p], payload[p], reply[p], report[p], descriptor[p],
                  packageReport[p]>>
  BY DEF Alone, Fields
<1>2. pc[p] = "receive" => First(todo[p]) \in Workflow
  BY FirstIn DEF TypeInv, TypeOK, Working
<1>3. \A w \in Workflow : held[p][w] \subseteq held'[p][w]
  BY DEF Alone
<1>4. heldPackage[p] \subseteq heldPackage'[p]
  BY DEF Alone
<1>5. CommandInv(p)' /\ LinesInv(p)' /\ PackageInv(p)'
  BY <1>1 DEF ReportInv, CommandInv, LinesInv, PackageInv
<1>6. AnswerInv(p)' /\ PackageLine(p)'
  BY <1>1, <1>2, <1>3, <1>4 DEF ReportInv, AnswerInv, PackageLine
<1>7. \A w \in Workflow : UploadLine(p, w)' /\ StatusLine(p, w)'
  BY <1>1, <1>3 DEF ReportInv, UploadLine, StatusLine
<1>. QED
  BY <1>5, <1>6, <1>7 DEF ReportInv

(* A step of p without an effect on the registry.                          *)
Own(p) ==
    /\ held' = held /\ heldPackage' = heldPackage
    /\ \A q \in Proc : q # p => UNCHANGED Fields(q)

LEMMA OwnReports ==
    ASSUME TypeInv, AllReports, NEW p \in Proc, Own(p), ReportInv(p)'
    PROVE  AllReports'
<1>1. ASSUME NEW q \in Proc, q # p PROVE Alone(q)
  BY <1>1 DEF Own, Alone
<1>. QED
  BY <1>1, AloneReports DEF AllReports

LEMMA RememberGrows ==
    ASSUME TypeOK, NEW w \in Workflow, server' \in [Workflow -> Content \cup {Absent}],
           UNCHANGED held \/ Remember(w)
    PROVE  \A p \in Proc, v \in Workflow : held[p][v] \subseteq held'[p][v]
<1>1. ASSUME NEW p \in Proc, NEW v \in Workflow PROVE held[p][v] \subseteq held'[p][v]
  <2>1. held[p] \in [Workflow -> SUBSET (Content \cup {Absent})]
    BY DEF TypeOK
  <2>2. CASE held'[p] = held[p]
    BY <2>2
  <2>3. CASE held'[p] = [held[p] EXCEPT ![w] = @ \cup {server'[w]}]
    BY <2>1, <2>3
  <2>. QED
    BY <2>2, <2>3 DEF Remember
<1>. QED
  BY <1>1

LEMMA ReportStep == TypeInv /\ AllHeld /\ AllReports /\ [Next]_vars => AllReports'
<1> SUFFICES ASSUME TypeInv, AllHeld, AllReports, [Next]_vars PROVE AllReports'
  OBVIOUS
<1> USE DEF Goto
<1>0. TypeOK
  BY DEF TypeInv
<1>1. ASSUME UNCHANGED <<pc, job, todo, payload, reply, report, descriptor, packageReport, history>>
      PROVE  AllReports'
  <2>1. ASSUME NEW p \in Proc PROVE Alone(p)
    BY <1>1 DEF Alone, Fields, history
  <2>. QED
    BY <2>1, AloneReports DEF AllReports
<1>2. ASSUME NEW w \in Workflow, NEW c \in Content \cup {Absent}, Edit(w, c)
      PROVE  AllReports'
  BY <1>1, <1>2 DEF Edit, packageJob
<1>3. ASSUME NEW m \in Manifest \cup {Absent}, EditManifest(m)
      PROVE  AllReports'
  BY <1>1, <1>3 DEF EditManifest, packageJob
<1>4. ASSUME NEW p \in Proc, NEW cmd \in {"upload", "status", "delete"}, NEW m,
             NEW work \in SUBSET Workflow, NEW l \in {"build", "delete"}, Begin(p, cmd, m, work, l),
             l = "delete" <=> cmd = "delete", cmd = "upload" => m \in Methods
      PROVE  AllReports'
  <2>1. /\ pc'[p] = l /\ job'[p].cmd = cmd /\ job'[p].method = m
        /\ report'[p] = [w \in Workflow |-> "none"]
        /\ packageReport'[p] = "none" /\ descriptor'[p] = None
    BY <1>0, <1>4 DEF Begin, TypeOK
  <2>2. ReportInv(p)'
    <3>1. CommandInv(p)' /\ PackageInv(p)' /\ AnswerInv(p)' /\ PackageLine(p)'
      BY <1>4, <2>1 DEF CommandInv, PackageInv, AnswerInv, PackageLine
    <3>2. \A w \in Workflow : report'[p][w] = "none"
      BY <2>1
    <3>3. todo'[p] \subseteq Workflow
      BY <1>0, <1>4 DEF Begin, TypeOK
    <3>4. LinesInv(p)' /\ \A w \in Workflow : UploadLine(p, w)' /\ StatusLine(p, w)'
      BY <3>2, <3>3 DEF LinesInv, UploadLine, StatusLine
    <3>. QED
      BY <3>1, <3>4 DEF ReportInv
  <2>3. ASSUME NEW q \in Proc, q # p PROVE Alone(q)
    BY <1>0, <1>4, <2>3 DEF Begin, Alone, Fields, TypeOK
  <2>. QED
    BY <2>2, <2>3, AloneReports DEF AllReports
<1>5. ASSUME NEW p \in Proc, NEW m \in Methods, NEW q \in SUBSET Workflow, StartUpload(p, m, q)
      PROVE  AllReports'
  <2>1. Begin(p, "upload", m, q \cap Present, "build")
    BY <1>5 DEF StartUpload
  <2>. QED
    BY <1>4, <2>1
<1>6. ASSUME NEW p \in Proc, StartStatus(p)
      PROVE  AllReports'
  <2>1. Begin(p, "status", "POST", Present, "build") /\ Present \in SUBSET Workflow
    BY <1>6 DEF StartStatus, Present
  <2>. QED
    BY <1>4, <2>1
<1>7. ASSUME NEW p \in Proc, NEW w \in Workflow, StartDelete(p, w)
      PROVE  AllReports'
  <2>1. Begin(p, "delete", "POST", {w}, "delete")
    BY <1>7 DEF StartDelete
  <2>. QED
    BY <1>4, <2>1
<1>8. ASSUME NEW p \in Proc, Read(p)
      PROVE  AllReports'
  <2> DEFINE w == First(todo[p])
  <2>1. w \in Workflow /\ w \in todo[p] /\ report[p][w] = "none"
    BY <1>0, <1>8, FirstIn DEF Read, TypeOK, AllReports, ReportInv, LinesInv
  <2>2. /\ pc[p] = "build" /\ pc'[p] = "parse"
        /\ payload'[p] = [payload[p] EXCEPT ![w] = Source(w)]
        /\ UNCHANGED <<job, todo, reply, report, packageJob, history>>
    BY <1>0, <1>8 DEF Read, TypeOK
  <2>3. ReportInv(p)
    BY DEF AllReports
  <2>4. payload[p] \in [Workflow -> Content \cup {None}]
    BY <1>0 DEF TypeOK
  <2>5. CommandInv(p)' /\ LinesInv(p)' /\ PackageInv(p)' /\ AnswerInv(p)' /\ PackageLine(p)'
    BY <2>2, <2>3 DEF ReportInv, CommandInv, LinesInv, PackageInv, AnswerInv, PackageLine,
                      packageJob, history
  <2>6. ASSUME NEW v \in Workflow PROVE UploadLine(p, v)' /\ StatusLine(p, v)'
    <3>1. report'[p][v] = report[p][v] /\ held'[p][v] = held[p][v] /\ job'[p] = job[p]
      BY <2>2 DEF history
    <3>2. CASE v = w
      BY <2>1, <3>1, <3>2 DEF UploadLine, StatusLine
    <3>3. CASE v # w
      <4>1. payload'[p][v] = payload[p][v]
        BY <2>2, <2>4, <3>3
      <4>. QED
        BY <2>3, <3>1, <4>1 DEF ReportInv, UploadLine, StatusLine
    <3>. QED
      BY <3>2, <3>3
  <2>7. Own(p)
    BY <1>0, <1>8 DEF Read, Own, Fields, packageJob, history, TypeOK
  <2>. QED
    BY <2>5, <2>6, <2>7, OwnReports DEF ReportInv
<1>9. ASSUME NEW p \in Proc, NEW w \in Workflow, NEW line \in Lines,
             pc[p] \in {"parse", "compare", "receive"}, Line(p, w, line), Done(p, w),
             pc'[p] \in {"build", "compare"}, \A q \in Proc : q # p => pc'[q] = pc[q],
             UNCHANGED <<job, payload, reply, packageJob, history>>,
             pc'[p] = "build" => pc[p] # "compare" /\ line \in {"ok", "failed", "error"},
             pc'[p] = "compare" => pc[p] = "compare",
             job[p].cmd = "upload" => line \in {"ok", "failed"},
             job[p].cmd = "status" => line \notin {"ok", "failed"},
             NoConflict /\ line = "ok" => job[p].cmd = "upload" /\ payload[p][w] \in held[p][w],
             line \notin {"new", "serverOnly"},
             line = "unchanged" => payload[p][w] \in held[p][w],
             line = "modified" => held[p][w] \ {payload[p][w], Absent} # {}
      PROVE  AllReports'
  <2>1. /\ report'[p] = [report[p] EXCEPT ![w] = line]
        /\ todo'[p] = todo[p] \ {w}
        /\ todo[p] \subseteq Workflow
        /\ report[p] \in [Workflow -> Lines]
    BY <1>0, <1>9 DEF Line, Done, TypeOK
  <2>2. ReportInv(p)
    BY DEF AllReports
  <2>3. job[p].cmd \in {"upload", "status"}
    BY <1>9, <2>2 DEF ReportInv, CommandInv
  <2>4. CommandInv(p)'
    BY <1>9, <2>2 DEF ReportInv, CommandInv
  <2>5. LinesInv(p)'
    <3>1. LinesInv(p) /\ job'[p] = job[p] /\ pc[p] # "idle"
      BY <1>9, <2>2 DEF ReportInv
    <3>2. \A v \in Workflow : report'[p][v] = IF v = w THEN line ELSE report[p][v]
      BY <2>1
    <3>3. \A v \in todo'[p] : report'[p][v] = "none"
      BY <2>1, <3>1, <3>2 DEF LinesInv
    <3>4. job[p].cmd = "upload" => \A v \in Workflow : report'[p][v] \in {"none", "ok", "failed"}
      BY <1>9, <3>1, <3>2 DEF LinesInv
    <3>5. job[p].cmd = "status" => \A v \in Workflow : report'[p][v] \notin {"ok", "failed"}
      BY <1>9, <3>1, <3>2 DEF LinesInv
    <3>6. pc'[p] = "build" => pc[p] \in {"parse", "receive"} /\ line \in {"ok", "failed", "error"}
      BY <1>9
    <3>7. pc[p] = "receive" => job[p].cmd = "upload"
      BY <2>2 DEF ReportInv, CommandInv
    <3>8. pc'[p] = "build" =>
            \A v \in Workflow : report'[p][v] \in {"none", "ok", "failed", "error"}
      BY <3>1, <3>2, <3>6, <3>7 DEF LinesInv
    <3>. QED
      BY <1>9, <2>3, <3>1, <3>3, <3>4, <3>5, <3>8 DEF LinesInv
  <2>6. PackageInv(p)' /\ AnswerInv(p)' /\ PackageLine(p)'
    BY <1>9, <2>2 DEF ReportInv, PackageInv, AnswerInv, PackageLine, packageJob
  <2>7. ASSUME NEW v \in Workflow PROVE UploadLine(p, v)' /\ StatusLine(p, v)'
    <3>1. payload'[p][v] = payload[p][v] /\ held'[p][v] = held[p][v] /\ job'[p] = job[p]
      BY <1>9 DEF history
    <3>2. CASE v = w
      <4>1. report'[p][v] = line
        BY <2>1, <3>2
      <4>. QED
        BY <1>9, <3>1, <3>2, <4>1 DEF UploadLine, StatusLine
    <3>3. CASE v # w
      <4>1. report'[p][v] = report[p][v]
        BY <2>1, <3>3
      <4>. QED
        BY <2>2, <3>1, <4>1 DEF ReportInv, UploadLine, StatusLine
    <3>. QED
      BY <3>2, <3>3
  <2>8. Own(p)
    BY <1>0, <1>9 DEF Line, Done, Own, Fields, packageJob, history, TypeOK
  <2>. QED
    BY <2>4, <2>5, <2>6, <2>7, <2>8, OwnReports DEF ReportInv
<1>10. ASSUME NEW p \in Proc, Parse(p)
       PROVE  AllReports'
  <2> DEFINE w == First(todo[p])
  <2>1. w \in Workflow
    BY <1>0, <1>10, FirstIn DEF Parse, TypeInv, Working, TypeOK
  <2>2. pc[p] = "parse" /\ job[p].cmd \in {"upload", "status"} /\ ReportInv(p)
    BY <1>10 DEF Parse, AllReports, ReportInv, CommandInv
  <2>3. UNCHANGED <<job, payload, reply, packageJob, history>>
    BY <1>10 DEF Parse
  <2>4. CASE local[w] \in Broken \cup {Absent}
    <3>1. Line(p, w, IF job[p].cmd = "upload" THEN "failed" ELSE "error")
      BY <1>10, <2>4 DEF Parse
    <3>2. Done(p, w) /\ pc' = [pc EXCEPT ![p] = "build"]
      BY <1>10, <2>4 DEF Parse
    <3>3. pc'[p] = "build" /\ \A q \in Proc : q # p => pc'[q] = pc[q]
      BY <1>0, <3>2 DEF TypeOK
    <3>4. CASE job[p].cmd = "upload"
      <4>1. Line(p, w, "failed")
        BY <3>1, <3>4
      <4>. QED
        BY <1>9, <2>1, <2>2, <2>3, <3>2, <3>3, <3>4, <4>1 DEF Lines
    <3>5. CASE job[p].cmd = "status"
      <4>1. Line(p, w, "error")
        BY <3>1, <3>5
      <4>. QED
        BY <1>9, <2>1, <2>2, <2>3, <3>2, <3>3, <3>5, <4>1 DEF Lines
    <3>. QED
      BY <2>2, <3>4, <3>5
  <2>5. CASE local[w] \notin Broken \cup {Absent}
    <3>1. UNCHANGED report /\ pc'[p] \in {"send", "build"}
          /\ (pc'[p] = "send" => job[p].cmd = "upload")
      BY <1>0, <1>10, <2>5 DEF Parse, TypeOK
    <3>2. todo'[p] \subseteq todo[p]
      BY <1>0, <1>10, <2>5 DEF Parse, Done, TypeOK
    <3>3. CommandInv(p)' /\ LinesInv(p)' /\ PackageInv(p)' /\ AnswerInv(p)' /\ PackageLine(p)'
      BY <2>2, <2>3, <3>1, <3>2 DEF ReportInv, CommandInv, LinesInv, PackageInv, AnswerInv,
                                    PackageLine, packageJob, history
    <3>4. \A v \in Workflow : UploadLine(p, v)' /\ StatusLine(p, v)'
      BY <2>2, <2>3, <3>1 DEF ReportInv, UploadLine, StatusLine, history
    <3>5. Own(p)
      BY <1>0, <1>10, <2>5 DEF Parse, Done, Own, Fields, packageJob, history, TypeOK
    <3>. QED
      BY <3>3, <3>4, <3>5, OwnReports DEF ReportInv
  <2>. QED
    BY <2>4, <2>5
<1>11. ASSUME NEW p \in Proc, Built(p)
       PROVE  AllReports'
  <2>1. pc[p] = "build" /\ job[p].cmd \in {"upload", "status"} /\ ReportInv(p)
    BY <1>11 DEF Built, AllReports, ReportInv, CommandInv
  <2>2. UNCHANGED <<job, todo, payload, reply, report, packageJob, history>>
    BY <1>11 DEF Built
  <2>3. pc'[p] = IF job[p].cmd = "upload" THEN "package" ELSE "names"
    BY <1>0, <1>11 DEF Built, TypeOK
  <2>4. CommandInv(p)' /\ LinesInv(p)' /\ PackageInv(p)' /\ AnswerInv(p)' /\ PackageLine(p)'
    BY <2>1, <2>2, <2>3 DEF ReportInv, CommandInv, LinesInv, PackageInv, AnswerInv, PackageLine,
                            packageJob, history
  <2>5. \A v \in Workflow : UploadLine(p, v)' /\ StatusLine(p, v)'
    BY <2>1, <2>2 DEF ReportInv, UploadLine, StatusLine, history
  <2>6. Own(p)
    BY <1>0, <1>11 DEF Built, Own, Fields, packageJob, history, TypeOK
  <2>. QED
    BY <2>4, <2>5, <2>6, OwnReports DEF ReportInv
<1>12. ASSUME NEW p \in Proc, Receive(p)
       PROVE  AllReports'
  <2> DEFINE w == First(todo[p])
  <2>1. w \in Workflow
    BY <1>0, <1>12, FirstIn DEF Receive, TypeInv, Working, TypeOK
  <2>2. pc[p] = "receive" /\ job[p].cmd = "upload" /\ AnswerInv(p)
    BY <1>12 DEF Receive, AllReports, ReportInv, CommandInv
  <2>3. LineFor(reply[p]) \in {"ok", "failed"} /\ Line(p, w, LineFor(reply[p]))
    BY <1>12 DEF Receive, LineFor
  <2>4. NoConflict /\ LineFor(reply[p]) = "ok" => payload[p][w] \in held[p][w]
    BY <2>2 DEF AnswerInv, LineFor
  <2>5. Done(p, w) /\ pc'[p] = "build" /\ \A q \in Proc : q # p => pc'[q] = pc[q]
    BY <1>0, <1>12 DEF Receive, TypeOK
  <2>6. UNCHANGED <<job, payload, reply, packageJob, history>>
    BY <1>12 DEF Receive
  <2>. QED
    BY <1>9, <2>1, <2>2, <2>3, <2>4, <2>5, <2>6 DEF Lines
<1>13. ASSUME NEW p \in Proc, ReadPackage(p)
       PROVE  AllReports'
  <2>1. pc[p] = "package" /\ ReportInv(p) /\ packageReport[p] = "none" /\ descriptor[p] = None
    BY <1>13 DEF ReadPackage, AllReports, ReportInv, PackageInv
  <2>2. UNCHANGED <<job, todo, payload, reply, report, history>>
    BY <1>13 DEF ReadPackage
  <2>3. \/ pc'[p] = "idle" /\ packageReport'[p] \in {"none", "failed"} /\ descriptor'[p] = None
        \/ pc'[p] = "packageSend" /\ packageReport'[p] = "none"
    <3>1. CASE manifest = Absent /\ Goto(p, "idle") /\ UNCHANGED packageJob
      BY <1>0, <2>1, <3>1 DEF packageJob, TypeOK
    <3>2. CASE Goto(p, "idle") /\ UNCHANGED descriptor /\
               packageReport' = [packageReport EXCEPT ![p] = "failed"]
      BY <1>0, <2>1, <3>2 DEF TypeOK
    <3>3. CASE Goto(p, "packageSend") /\ UNCHANGED packageReport
      BY <1>0, <2>1, <3>3 DEF TypeOK
    <3>. QED
      BY <1>13, <3>1, <3>2, <3>3 DEF ReadPackage
  <2>4. CommandInv(p)' /\ LinesInv(p)' /\ PackageInv(p)' /\ AnswerInv(p)' /\ PackageLine(p)'
    BY <2>1, <2>2, <2>3 DEF ReportInv, CommandInv, LinesInv, PackageInv, AnswerInv, PackageLine
  <2>5. \A v \in Workflow : UploadLine(p, v)' /\ StatusLine(p, v)'
    BY <2>1, <2>2 DEF ReportInv, UploadLine, StatusLine, history
  <2>6. Own(p)
    BY <1>0, <1>13 DEF ReadPackage, Own, Fields, packageJob, history, TypeOK
  <2>. QED
    BY <2>4, <2>5, <2>6, OwnReports DEF ReportInv
<1>14. ASSUME NEW p \in Proc, PackageReceive(p)
       PROVE  AllReports'
  <2>1. pc[p] = "packageReceive" /\ ReportInv(p) /\ packageReport[p] = "none"
    BY <1>14 DEF PackageReceive, AllReports, ReportInv, PackageInv
  <2>2. UNCHANGED <<todo, payload, descriptor, reply, report, history>>
    BY <1>14 DEF PackageReceive
  <2>3. job'[p].cmd = job[p].cmd
    <3>1. CASE job' = [job EXCEPT ![p].method = "PUT"]
      BY <1>0, <3>1 DEF TypeOK, Job
    <3>. QED
      BY <1>14, <3>1 DEF PackageReceive
  <2>4. \/ pc'[p] = "packageSend" /\ packageReport'[p] = "none"
        \/ /\ pc'[p] = "idle" /\ ~Retry(p)
           /\ packageReport'[p] = IF reply[p] = 200 THEN "ok" ELSE "failed"
    BY <1>0, <1>14, <2>1 DEF PackageReceive, TypeOK
  <2>5. CommandInv(p)' /\ LinesInv(p)' /\ PackageInv(p)'
    BY <2>1, <2>2, <2>3, <2>4 DEF ReportInv, CommandInv, LinesInv, PackageInv
  <2>6. AnswerInv(p)' /\ PackageLine(p)'
    BY <2>1, <2>2, <2>4 DEF ReportInv, AnswerInv, PackageLine, Retry, history
  <2>7. \A v \in Workflow : UploadLine(p, v)' /\ StatusLine(p, v)'
    BY <2>1, <2>2, <2>3 DEF ReportInv, UploadLine, StatusLine, history
  <2>8. Own(p)
    BY <1>0, <1>14 DEF PackageReceive, Own, Fields, packageJob, history, TypeOK
  <2>. QED
    BY <2>5, <2>6, <2>7, <2>8, OwnReports DEF ReportInv
<1>15. ASSUME NEW p \in Proc, Quit(p), UNCHANGED <<job, heldPackage>>
       PROVE  AllReports'
  <2>1. /\ pc'[p] = "idle" /\ report'[p] = [w \in Workflow |-> "none"]
        /\ packageReport'[p] = "none" /\ todo'[p] = {}
    BY <1>0, <1>15 DEF Quit, TypeOK
  <2>2. CommandInv(p)' /\ PackageInv(p)' /\ AnswerInv(p)' /\ PackageLine(p)'
    BY <2>1 DEF CommandInv, PackageInv, AnswerInv, PackageLine
  <2>3. LinesInv(p)' /\ \A v \in Workflow : UploadLine(p, v)' /\ StatusLine(p, v)'
    <3>1. \A v \in Workflow : report'[p][v] = "none"
      BY <2>1
    <3>. QED
      BY <2>1, <3>1 DEF LinesInv, UploadLine, StatusLine
  <2>4. ASSUME NEW q \in Proc, q # p PROVE Alone(q)
    BY <1>0, <1>15, <2>4 DEF Quit, Alone, Fields, TypeOK
  <2>5. ReportInv(p)'
    BY <2>2, <2>3 DEF ReportInv
  <2>. QED
    BY <2>4, <2>5, AloneReports DEF AllReports
<1>16. ASSUME NEW p \in Proc, Names(p)
       PROVE  AllReports'
  <2> DEFINE readable == {w \in Discovered(p) : report[p][w] # "error"}
  <2>1. /\ pc[p] = "names" /\ pc'[p] = "compare" /\ ReportInv(p) /\ job[p].cmd = "status"
        /\ UNCHANGED <<job, payload, reply, packageJob, history>>
    BY <1>0, <1>16 DEF Names, TypeOK, AllReports, ReportInv, CommandInv
  <2>2. todo'[p] = readable \cap Listed
    BY <1>0, <1>16 DEF Names, TypeOK
  <2>3. ASSUME NEW v \in Workflow
        PROVE  /\ v \in readable \ Listed => report'[p][v] = "new"
               /\ v \in Listed \ Discovered(p) => report'[p][v] = "serverOnly"
               /\ v \notin readable \ Listed /\ v \notin Listed \ Discovered(p) =>
                    report'[p][v] = report[p][v]
    BY <1>0, <1>16, Zenon DEF Names, TypeOK
  <2>4. \A v \in Workflow : server[v] \in held[p][v]
    BY <2>1 DEF AllHeld, HeldInv
  <2>5. readable \subseteq Workflow /\ Listed \subseteq Workflow /\ Discovered(p) \subseteq Workflow
    BY DEF Discovered, Listed
  <2>6. \A v \in Workflow : report'[p][v] \in {"new", "serverOnly", report[p][v]}
    BY <2>3
  <2>7. \A v \in readable \cap Listed : report[p][v] = "none" /\ report'[p][v] = "none"
    BY <2>1, <2>3, <2>5 DEF ReportInv, LinesInv
  <2>8. LinesInv(p)'
    BY <2>1, <2>2, <2>6, <2>7 DEF ReportInv, LinesInv
  <2>9. CommandInv(p)' /\ PackageInv(p)' /\ AnswerInv(p)' /\ PackageLine(p)'
    BY <2>1 DEF ReportInv, CommandInv, PackageInv, AnswerInv, PackageLine, packageJob, history
  <2>10. ASSUME NEW v \in Workflow PROVE UploadLine(p, v)' /\ StatusLine(p, v)'
    <3>1. UploadLine(p, v) /\ StatusLine(p, v) /\ UNCHANGED <<job, payload, held>>
      BY <2>1 DEF ReportInv, history
    <3>2. CASE v \in readable \ Listed
      <4>1. report'[p][v] = "new" /\ server[v] = Absent
        BY <2>3, <3>2 DEF Listed
      <4>. QED
        BY <2>4, <3>1, <4>1 DEF UploadLine, StatusLine
    <3>3. CASE v \in Listed \ Discovered(p)
      <4>1. report'[p][v] = "serverOnly" /\ server[v] # Absent /\ payload[p][v] = None
        BY <2>3, <3>3 DEF Listed, Discovered
      <4>. QED
        BY <2>4, <3>1, <4>1 DEF UploadLine, StatusLine
    <3>4. CASE report'[p][v] = report[p][v]
      BY <3>1, <3>4 DEF UploadLine, StatusLine
    <3>. QED
      BY <2>3, <3>2, <3>3, <3>4
  <2>11. Own(p)
    BY <1>0, <1>16 DEF Names, Own, Fields, packageJob, history, TypeOK
  <2>. QED
    BY <2>8, <2>9, <2>10, <2>11, OwnReports DEF ReportInv
<1>17. ASSUME NEW p \in Proc, Compare(p)
       PROVE  AllReports'
  <2> DEFINE w == First(todo[p])
  <2>1. pc[p] = "compare" /\ job[p].cmd = "status" /\ ReportInv(p)
    BY <1>17 DEF Compare, AllReports, ReportInv, CommandInv
  <2>2. UNCHANGED <<job, payload, reply, packageJob, history>>
    BY <1>17 DEF Compare
  <2>3. CASE todo[p] = {}
    <3>1. pc'[p] = "idle" /\ UNCHANGED <<todo, report>>
      BY <1>0, <1>17, <2>3 DEF Compare, TypeOK
    <3>2. CommandInv(p)' /\ LinesInv(p)' /\ PackageInv(p)' /\ AnswerInv(p)' /\ PackageLine(p)'
      BY <2>1, <2>2, <3>1 DEF ReportInv, CommandInv, LinesInv, PackageInv, AnswerInv,
                              PackageLine, packageJob
    <3>3. \A v \in Workflow : UploadLine(p, v)' /\ StatusLine(p, v)'
      BY <2>1, <2>2, <3>1 DEF ReportInv, UploadLine, StatusLine, history
    <3>4. Own(p)
      BY <1>0, <1>17, <2>3 DEF Compare, Own, Fields, packageJob, history, TypeOK
    <3>. QED
      BY <3>2, <3>3, <3>4, OwnReports DEF ReportInv
  <2>4. CASE todo[p] # {}
    <3>1. w \in Workflow /\ server[w] \in held[p][w]
      BY <1>0, <2>1, <2>4, FirstIn DEF AllHeld, HeldInv, TypeOK
    <3>2. PICK line \in {"error", "unchanged", "modified"} :
            /\ Line(p, w, line)
            /\ line = "unchanged" => server[w] = payload[p][w]
            /\ line = "modified" => server[w] \notin {payload[p][w], Absent}
      BY <1>17, <2>4 DEF Compare, FetchError
    <3>3. Done(p, w) /\ UNCHANGED pc
      BY <1>17, <2>4 DEF Compare
    <3>4. line \in Lines
      BY DEF Lines
    <3>. QED
      BY <1>9, <2>1, <2>2, <3>1, <3>2, <3>3, <3>4
  <2>. QED
    BY <2>3, <2>4
<1>18. ASSUME NEW p \in Proc, SendPackage(p)
       PROVE  AllReports'
  <2>1. /\ pc[p] = "packageSend" /\ pc'[p] = "packageReceive" /\ ReportInv(p)
        /\ UNCHANGED <<job, todo, payload, report, packageJob>>
    BY <1>0, <1>18 DEF SendPackage, TypeOK, AllReports
  <2>2. PICK code \in {0, 200, 409} :
          /\ reply' = [reply EXCEPT ![p] = code]
          /\ code = 200 => package' = descriptor[p] /\ RememberPackage
          /\ code = 409 => job[p].method = "POST"
    BY <1>18 DEF SendPackage, NotSent, Answered
  <2>3. UNCHANGED held
    BY <1>18 DEF SendPackage, NotSent, history
  <2>4. UNCHANGED heldPackage \/ RememberPackage
    BY <1>18 DEF SendPackage, NotSent, history
  <2>5. \A q \in Proc : heldPackage[q] \subseteq heldPackage'[q]
    BY <2>4 DEF RememberPackage
  <2>6. code = 200 => descriptor[p] \in heldPackage'[p]
    <3>1. CASE code = 200
      <4>1. package' = descriptor[p] /\ RememberPackage
        BY <2>2, <3>1
      <4>2. heldPackage'[p] = heldPackage[p] \cup {package'}
        BY <2>1, <4>1 DEF RememberPackage
      <4>. QED
        BY <4>1, <4>2
    <3>. QED
      BY <3>1
  <2>7. reply'[p] = code
    BY <1>0, <2>2 DEF TypeOK
  <2>8. CommandInv(p)' /\ LinesInv(p)' /\ PackageInv(p)'
    BY <2>1 DEF ReportInv, CommandInv, LinesInv, PackageInv, packageJob
  <2>9. AnswerInv(p)' /\ PackageLine(p)'
    BY <2>1, <2>2, <2>6, <2>7 DEF ReportInv, AnswerInv, PackageInv, PackageLine, packageJob
  <2>10. \A v \in Workflow : UploadLine(p, v)' /\ StatusLine(p, v)'
    BY <2>1, <2>3 DEF ReportInv, UploadLine, StatusLine
  <2>11. ASSUME NEW q \in Proc, q # p PROVE Alone(q)
    BY <1>0, <1>18, <2>1, <2>2, <2>3, <2>5, <2>11 DEF SendPackage, Alone, Fields, packageJob, TypeOK
  <2>. QED
    BY <2>8, <2>9, <2>10, <2>11, AloneReports DEF AllReports, ReportInv
<1>19. ASSUME NEW p \in Proc, NEW w \in Workflow, NEW c \in Content \cup {Absent},
              pc[p] # "idle", server' = [server EXCEPT ![w] = c], Remember(w)
       PROVE  c \in held'[p][w]
  <2>1. server'[w] = c
    BY <1>0, <1>19 DEF TypeOK
  <2>2. held'[p] = [held[p] EXCEPT ![w] = @ \cup {server'[w]}]
    BY <1>19 DEF Remember
  <2>3. held[p] \in [Workflow -> SUBSET (Content \cup {Absent})]
    BY <1>0 DEF TypeOK
  <2>. QED
    BY <2>1, <2>2, <2>3
<1>20. ASSUME NEW p \in Proc, Send(p)
       PROVE  AllReports'
  <2> DEFINE w == First(todo[p])
  <2>1. w \in Workflow /\ payload[p][w] \in Content
    BY <1>0, <1>20, FirstIn DEF Send, TypeInv, Working, TypeOK
  <2>2. /\ pc[p] = "send" /\ pc'[p] = "receive" /\ ReportInv(p)
        /\ UNCHANGED <<job, todo, payload, report, packageJob>>
    BY <1>0, <1>20 DEF Send, TypeOK, AllReports
  <2>3. PICK code \in {0, 200, 409} :
          /\ reply' = [reply EXCEPT ![p] = code]
          /\ code = 200 => server' = [server EXCEPT ![w] = payload[p][w]] /\ Remember(w)
          /\ code = 409 => job[p].method = "POST" /\ ~PostUpdates
    BY <1>20 DEF Send, Store, NotSent, Answered, Conflict
  <2>4. reply'[p] = code
    BY <1>0, <2>3 DEF TypeOK
  <2>5. UNCHANGED heldPackage /\ (UNCHANGED <<server, held>> \/ Remember(w))
        /\ server' \in [Workflow -> Content \cup {Absent}]
    BY <1>0, <1>20, <2>1 DEF Send, Store, NotSent, registry, history, TypeOK
  <2>6. \A q \in Proc, v \in Workflow : held[q][v] \subseteq held'[q][v]
    BY <1>0, <2>1, <2>5, RememberGrows
  <2>7. code = 200 => payload[p][w] \in held'[p][w]
    BY <1>19, <2>1, <2>2, <2>3
  <2>8. NoConflict => code # 409
    BY <2>2, <2>3 DEF NoConflict, ReportInv, CommandInv, AllReports
  <2>9. CommandInv(p)' /\ LinesInv(p)' /\ PackageInv(p)' /\ AnswerInv(p)' /\ PackageLine(p)'
    BY <2>2, <2>4, <2>7, <2>8 DEF ReportInv, CommandInv, LinesInv, PackageInv, AnswerInv,
                                 PackageLine, packageJob
  <2>10. \A v \in Workflow : UploadLine(p, v)' /\ StatusLine(p, v)'
    BY <2>2, <2>6 DEF ReportInv, UploadLine, StatusLine
  <2>11. ASSUME NEW q \in Proc, q # p PROVE Alone(q)
    BY <1>0, <1>20, <2>2, <2>3, <2>5, <2>6, <2>11 DEF Send, Alone, Fields, packageJob, TypeOK
  <2>. QED
    BY <2>9, <2>10, <2>11, AloneReports DEF AllReports, ReportInv
<1>21. ASSUME NEW p \in Proc, Delete(p)
       PROVE  AllReports'
  <2> DEFINE w == First(todo[p])
  <2>1. w \in Workflow
    BY <1>0, <1>21, FirstIn DEF Delete, TypeInv, Working, TypeOK
  <2>2. /\ pc[p] = "delete" /\ pc'[p] = "idle" /\ ReportInv(p) /\ job[p].cmd = "delete"
        /\ UNCHANGED <<job, todo, payload, packageJob>>
    BY <1>0, <1>21 DEF Delete, TypeOK, AllReports, ReportInv, CommandInv
  <2>3. PICK code \in {0, 200, 404} :
          /\ reply' = [reply EXCEPT ![p] = code]
          /\ code = 200 => server' = [server EXCEPT ![w] = Absent] /\ Remember(w)
    BY <1>21 DEF Delete, NotSent, Answered
  <2>4. reply'[p] = code
    BY <1>0, <2>3 DEF TypeOK
  <2>5. UNCHANGED heldPackage /\ (UNCHANGED <<server, held>> \/ Remember(w))
        /\ server' \in [Workflow -> Content \cup {Absent}]
    BY <1>0, <1>21, <2>1 DEF Delete, NotSent, registry, history, TypeOK
  <2>6. \A q \in Proc, v \in Workflow : held[q][v] \subseteq held'[q][v]
    BY <1>0, <2>1, <2>5, RememberGrows
  <2>7. code = 200 => Absent \in held'[p][w]
    BY <1>19, <2>1, <2>2, <2>3
  <2>8. Line(p, w, IF code = 200 THEN "ok" ELSE "failed")
    BY <1>21, <2>4 DEF Delete
  <2>9. \A v \in Workflow : report'[p][v] =
          IF v = w THEN IF code = 200 THEN "ok" ELSE "failed" ELSE report[p][v]
    BY <1>0, <2>8 DEF Line, TypeOK
  <2>10. CommandInv(p)' /\ PackageInv(p)' /\ AnswerInv(p)' /\ PackageLine(p)'
    BY <2>2 DEF ReportInv, CommandInv, PackageInv, AnswerInv, PackageLine, packageJob
  <2>11. LinesInv(p)'
    BY <2>2, <2>9 DEF ReportInv, LinesInv
  <2>12. ASSUME NEW v \in Workflow PROVE UploadLine(p, v)' /\ StatusLine(p, v)'
    <3>1. UploadLine(p, v) /\ StatusLine(p, v)
      BY <2>2 DEF ReportInv
    <3>2. CASE v = w
      BY <2>2, <2>7, <2>9, <3>2 DEF UploadLine, StatusLine
    <3>3. CASE v # w
      BY <2>2, <2>6, <2>9, <3>1, <3>3 DEF UploadLine, StatusLine
    <3>. QED
      BY <3>2, <3>3
  <2>13. ASSUME NEW q \in Proc, q # p PROVE Alone(q)
    <3>1. report'[q] = report[q] /\ reply'[q] = reply[q]
      BY <1>0, <2>3, <2>8, <2>13 DEF Line, TypeOK
    <3>2. pc'[q] = pc[q]
      BY <1>0, <1>21, <2>13 DEF Delete, TypeOK
    <3>. QED
      BY <2>2, <2>5, <2>6, <3>1, <3>2 DEF Alone, Fields, packageJob
  <2>. QED
    BY <2>10, <2>11, <2>12, <2>13, AloneReports DEF AllReports, ReportInv
<1>22. CASE UNCHANGED vars
  BY <1>1, <1>22 DEF vars, history
<1>. QED
  BY <1>2, <1>3, <1>5, <1>6, <1>7, <1>8, <1>10, <1>11, <1>12, <1>13, <1>14, <1>15, <1>16, <1>17,
     <1>18, <1>20, <1>21, <1>22 DEF Next, Step, NamesFailed, Crash

LEMMA ReportsAlways == Spec => []AllReports
<1>1. Init => AllReports
  <2>. SUFFICES ASSUME Init, NEW p \in Proc PROVE ReportInv(p)
    BY DEF AllReports
  <2>1. pc[p] = "idle" /\ job[p].cmd = "status" /\ packageReport[p] = "none"
    BY DEF Init
  <2>2. \A w \in Workflow : report[p][w] = "none"
    BY DEF Init
  <2>. QED
    BY <2>1, <2>2 DEF ReportInv, CommandInv, LinesInv, PackageInv, AnswerInv, PackageLine,
                      UploadLine, StatusLine
<1>. QED
  BY <1>1, ReportStep, TypeAlways, HeldAlways, PTL DEF Spec

(* upload.txt, delete.txt: a workflow reported as uploaded was on the      *)
(* server as it was read, one reported as deleted was gone, however many   *)
(* commands run beside it and whichever answers are lost.  The hypothesis  *)
(* is what ru_conflict shows to be needed: a conflict counts as uploaded.  *)
THEOREM UploadReportCorrect == ASSUME NoConflict PROVE Spec => []UploadReportIsTrue
<1>1. AllReports => UploadReportIsTrue
  BY NoConflict DEF AllReports, ReportInv, UploadLine, UploadReportIsTrue
<1>. QED
  BY <1>1, ReportsAlways, PTL

(* status.txt: every mark of a status was right at some moment of it.      *)
THEOREM StatusReportCorrect == Spec => []StatusReportIsTrue
<1>1. AllReports => StatusReportIsTrue
  BY DEF AllReports, ReportInv, StatusLine, StatusReportIsTrue
<1>. QED
  BY <1>1, ReportsAlways, PTL

(* A descriptor reported as uploaded was on the server, and the upload of  *)
(* a readable one fails only where a request is not answered.              *)
THEOREM PackageReportCorrect == Spec => []PackageReportIsTrue
<1>1. AllReports => PackageReportIsTrue
  BY DEF AllReports, ReportInv, PackageLine, PackageReportIsTrue
<1>. QED
  BY <1>1, ReportsAlways, PTL

=============================================================================
