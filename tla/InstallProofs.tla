---------------------------- MODULE InstallProofs ----------------------------
(***************************************************************************)
(* Theorems about Install, for any registry, any names, modules and needs. *)
(***************************************************************************)
EXTENDS Install, TLAPS

Writing == {"truncate", "fill"}
Fetched == {"imports", "truncate", "fill"}

(* A command past its fetch has a workflow with a text, and only imports   *)
(* with a text are still to write; one that runs `go get` found a go.mod.  *)
TypeInv ==
    /\ TypeOK
    /\ pc \in Fetched =>
         /\ registry[record] # None /\ kind = "workflow"
         /\ imports \subseteq Imported(record)
    /\ pc \in Writing => target # None
    /\ pc = "goget" => gomod # None

LEMMA TypeInit == Init => TypeInv
BY DEF Init, TypeInv, TypeOK, Fetched, Writing

LEMMA TypeStep == TypeInv /\ [Next]_vars => TypeInv'
<1> SUFFICES ASSUME TypeInv, [Next]_vars PROVE TypeInv'
  OBVIOUS
<1> USE InstallAssumption DEF TypeInv, TypeOK, Fetched, Writing, Imported
<1>1. ASSUME NEW t \in {"", "workflow", "package"}, NEW l \in BOOLEAN,
             NEW records \in SUBSET Workflow, Start(t, l, records)
      PROVE  TypeInv'
  BY <1>1 DEF Start, project, locals
<1>2. CASE NextRecord
  BY <1>2 DEF NextRecord, project, locals, report
<1>3. CASE Done
  BY <1>3 DEF Done, project, command, locals, report
<1>4. CASE FetchWorkflow
  <2>1. registry[record] \in Asset /\ registry[record].content \in Content
    BY <1>4 DEF FetchWorkflow, Asset
  <2>2. target' \in Target /\ pc' \in {"imports", "truncate"}
    BY <1>4, <2>1 DEF FetchWorkflow, Write, Target
  <2>3. imports' \subseteq Imported(record) /\ mods' \subseteq Module
    BY <1>4 DEF FetchWorkflow, ToWrite
  <2>4. UNCHANGED <<registry, files, gomod, type, login, todo, record, known, lines, modErrs>>
        /\ kind' = "workflow"
    BY <1>4 DEF FetchWorkflow, project, command, report
  <2>. QED
    BY <2>1, <2>2, <2>3, <2>4, NoneAssumption
<1>5. CASE FallThrough
  BY <1>5 DEF FallThrough, project, command, locals, report
<1>6. CASE FetchPackage
  BY <1>6 DEF FetchPackage, project, command, report
<1>7. CASE FetchFailed
  BY <1>7 DEF FetchFailed, Report, Forget, project, command
<1>8. CASE WriteImport
  <2>1. PICK w \in imports : imports' = imports \ {w} /\ Write(w, registry[record].imports[w])
    BY <1>8 DEF WriteImport
  <2>2. registry[record] \in Asset /\ w \in Imported(record)
    BY <1>8, <2>1 DEF WriteImport
  <2>3. registry[record].imports[w] \in Content
    BY <2>2 DEF Asset
  <2>4. target' \in Target /\ pc' \in {"imports", "truncate"}
    BY <2>1, <2>3 DEF Write, Target
  <2>5. UNCHANGED <<registry, files, gomod, type, login, todo, record, kind, mods, known,
                    lines, modErrs>>
    BY <1>8 DEF WriteImport, project, command, report
  <2>. QED
    BY <1>8, <2>1, <2>4, <2>5, NoneAssumption DEF WriteImport
<1>9. CASE Truncate
  BY <1>9 DEF Truncate, command, locals, report
<1>10. CASE Fill
  <2>1. target \in Target /\ target.text \in Content
    BY <1>10 DEF Fill, Target
  <2>2. files' \in [Workflow -> Content \cup {Absent, Empty, Torn}]
    BY <1>10, <2>1 DEF Fill
  <2>. QED
    BY <1>10, <2>2 DEF Fill, command, locals, report
<1>11. CASE WriteFailed
  BY <1>11 DEF WriteFailed, CutShort, Report, Forget, command
<1>12. CASE Written
  BY <1>12 DEF Written, project, command, locals, report
<1>13. CASE NoRequires
  BY <1>13 DEF NoRequires, Report, Forget, project, command
<1>14. CASE ReadRequires
  <2>1. known' \subseteq Module
    BY <1>14 DEF ReadRequires
  <2>2. pc' = "goget"
    BY <1>14 DEF ReadRequires
  <2>. QED
    BY <1>14, <2>1, <2>2 DEF ReadRequires, project, command, report
<1>15. CASE GoGet
  <2>1. PICK m \in mods : mods' = mods \ {m} /\ (Skip(m) \/ Add(m) \/ AddFailed(m))
    BY <1>15 DEF GoGet
  <2>2. m \in Module /\ gomod \in SUBSET Module
    BY <1>15 DEF GoGet
  <2>3. gomod' \in SUBSET Module /\ known' \subseteq Module /\ modErrs' \subseteq Module
    BY <2>1, <2>2 DEF Skip, Add, AddFailed, Errors
  <2>4. gomod' # None
    BY <1>15, <2>1, <2>2, NoneAssumption DEF GoGet, Skip, Add, AddFailed
  <2>. QED
    BY <1>15, <2>1, <2>3, <2>4 DEF GoGet, command
<1>16. CASE Installed
  BY <1>16 DEF Installed, Report, Forget, project, command
<1>17. CASE Crash
  BY <1>17 DEF Crash, CutShort, Forget, command
<1>18. CASE UNCHANGED vars
  BY <1>18 DEF vars, project, command, locals, report
<1>. QED
  BY <1>1, <1>2, <1>3, <1>4, <1>5, <1>6, <1>7, <1>8, <1>9, <1>10, <1>11, <1>12, <1>13,
     <1>14, <1>15, <1>16, <1>17, <1>18 DEF Next, Step

LEMMA TypeAlways == Spec => []TypeInv
BY TypeInit, TypeStep, PTL DEF Spec

(* Every reachable state of an installation is well typed: in particular   *)
(* nothing but a workflow's text is ever handed to a write.                *)
THEOREM InstallTypeCorrect == Spec => []TypeOK
BY TypeAlways, PTL DEF TypeInv

-----------------------------------------------------------------------------
(* Files.  Where all imports are what is published, a file that holds the  *)
(* published text of its name is never written again, so what one record   *)
(* has put in place is safe from every later one.                          *)

UpToDateFile(w) == registry[w] # None /\ files[w] = registry[w].content

(* A write is of the published text, and of a file that does not hold it.  *)
TargetInv ==
    pc \in Writing =>
        /\ registry[target.name] # None
        /\ target.text = registry[target.name].content
        /\ files[target.name] # target.text

(* The files of the record under way are in place, but for those still to  *)
(* write.                                                                  *)
ProgressInv ==
    /\ pc \in Fetched =>
         \A v \in Imported(record) \cup {record} :
             \/ v \in imports
             \/ pc \in Writing /\ v = target.name
             \/ UpToDateFile(v)
    /\ pc \in {"require", "goget"} /\ kind = "workflow" =>
         registry[record] # None /\ \A v \in Imported(record) \cup {record} : UpToDateFile(v)

LineInv ==
    \A w \in Workflow : lines[w] = "workflow" =>
        registry[w] # None /\ \A v \in Imported(w) \cup {w} : UpToDateFile(v)

FileInv == TypeInv /\ InLine /\ TargetInv /\ ProgressInv /\ LineInv

LEMMA FileInit == Aligned /\ Init => FileInv
<1> SUFFICES ASSUME Aligned, Init PROVE FileInv
  OBVIOUS
<1>. QED
  BY TypeInit DEF Init, FileInv, TargetInv, ProgressInv, LineInv, Fetched, Writing

(* An up-to-date file is not touched.                                      *)
LEMMA UpToDateStays ==
    ASSUME FileInv, [Next]_vars, NEW w \in Workflow, UpToDateFile(w)
    PROVE  UpToDateFile(w)'
<1>1. registry' = registry
  BY DEF Next, Step, Start, NextRecord, Done, FetchWorkflow, FallThrough, FetchPackage,
     FetchFailed, WriteImport, Truncate, Fill, WriteFailed, Written, NoRequires,
     ReadRequires, GoGet, Installed, Crash, vars
<1>2. files' = files \/ (pc \in Writing /\ \E s : files' = [files EXCEPT ![target.name] = s])
  BY DEF Next, Step, Start, NextRecord, Done, FetchWorkflow, FallThrough, FetchPackage,
     FetchFailed, WriteImport, Truncate, Fill, WriteFailed, Written, NoRequires,
     ReadRequires, GoGet, Installed, Crash, CutShort, vars, project, Writing
<1>3. pc \in Writing => w # target.name
  BY DEF FileInv, TargetInv, UpToDateFile
<1>4. files'[w] = files[w]
  BY <1>2, <1>3 DEF FileInv, TypeInv, TypeOK
<1>. QED
  BY <1>1, <1>4 DEF UpToDateFile

LEMMA FileStep == Aligned /\ FileInv /\ [Next]_vars => FileInv'
<1> SUFFICES ASSUME FileInv, [Next]_vars PROVE FileInv'
  OBVIOUS
<1> USE DEF FileInv
<1>1. TypeInv'
  BY TypeStep
<1>2. registry' = registry
  BY DEF Next, Step, Start, NextRecord, Done, FetchWorkflow, FallThrough, FetchPackage,
     FetchFailed, WriteImport, Truncate, Fill, WriteFailed, Written, NoRequires,
     ReadRequires, GoGet, Installed, Crash, vars
<1>3. InLine' /\ (\A w \in Workflow : Imported(w)' = Imported(w))
  BY <1>2 DEF InLine, Imported
<1>4. ASSUME NEW w \in Workflow, UpToDateFile(w) PROVE UpToDateFile(w)'
  BY <1>4, UpToDateStays
<1>5. SUFFICES TargetInv' /\ ProgressInv' /\ LineInv'
  BY <1>1, <1>2, <1>3
<1> DEFINE Whole(w) == registry[w] # None /\ \A v \in Imported(w) \cup {w} : UpToDateFile(v)
<1>6. ASSUME NEW w \in Workflow, Whole(w) PROVE Whole(w)'
  BY <1>2, <1>3, <1>4, <1>6 DEF Imported
<1>7. ASSUME \/ lines' = lines
             \/ \E x \in {"package", "failed"} : lines' = [lines EXCEPT ![record] = x]
      PROVE  LineInv'
  BY <1>6, <1>7 DEF LineInv, TypeInv, TypeOK
<1>8. ASSUME lines' = [w \in Workflow |-> "none"] PROVE LineInv'
  BY <1>8 DEF LineInv
<1> USE DEF Fetched, Writing
<1>9. ASSUME pc' \notin Fetched \cup {"require", "goget"}
      PROVE  TargetInv' /\ ProgressInv'
  BY <1>9 DEF TargetInv, ProgressInv
<1>10. ASSUME NEW t \in {"", "workflow", "package"}, NEW l \in BOOLEAN,
              NEW records \in SUBSET Workflow, Start(t, l, records)
       PROVE  TargetInv' /\ ProgressInv' /\ LineInv'
  BY <1>8, <1>9, <1>10 DEF Start
<1>11. CASE NextRecord \/ Done \/ FallThrough
  <2>1. lines' = lines /\ pc' \notin Fetched \cup {"require", "goget"}
    BY <1>11 DEF NextRecord, Done, FallThrough, report
  <2>. QED
    BY <1>7, <1>9, <2>1
<1>12. CASE FetchFailed \/ WriteFailed
  <2>1. lines' = [lines EXCEPT ![record] = "failed"] /\ pc' \notin Fetched \cup {"require", "goget"}
    BY <1>12 DEF FetchFailed, WriteFailed, Report
  <2>. QED
    BY <1>7, <1>9, <2>1
<1>13. CASE Crash
  BY <1>8, <1>9, <1>13 DEF Crash
<1>14. CASE FetchWorkflow
  <2>1. registry[record] # None /\ record \in Workflow
    BY <1>14 DEF FetchWorkflow, TypeInv, TypeOK
  <2>2. imports' = Imported(record) /\ record' = record /\ files' = files /\ lines' = lines
    BY <1>14 DEF FetchWorkflow, ToWrite, command, project, report
  <2>3. target' = [name |-> record, text |-> registry[record].content]
        /\ pc' = IF files[record] = registry[record].content THEN "imports" ELSE "truncate"
    BY <1>14 DEF FetchWorkflow, Write, UpToDate
  <2>4. pc' \in Writing => target'.name = record /\ files'[record] # registry'[record].content
    BY <2>2, <2>3, <1>2
  <2>5. pc' = "imports" => UpToDateFile(record)'
    BY <2>1, <2>2, <2>3, <1>2 DEF UpToDateFile
  <2>6. TargetInv'
    BY <1>2, <2>1, <2>2, <2>3, <2>4 DEF TargetInv
  <2>7. ProgressInv'
    BY <1>2, <1>3, <2>1, <2>2, <2>3, <2>4, <2>5 DEF ProgressInv
  <2>. QED
    BY <1>7, <2>1, <2>2, <2>6, <2>7
<1>15. CASE WriteImport
  <2>1. PICK w \in imports : imports' = imports \ {w} /\ Write(w, registry[record].imports[w])
    BY <1>15 DEF WriteImport
  <2>2. pc = "imports" /\ record' = record /\ files' = files /\ lines' = lines
    BY <1>15 DEF WriteImport, command, project, report
  <2>3. w \in Imported(record) /\ w \in Workflow /\ record \in Workflow /\ registry[record] # None
    BY <2>1, <2>2 DEF TypeInv, TypeOK
  <2>4. registry[w] # None /\ registry[record].imports[w] = registry[w].content
    BY <2>3 DEF InLine
  <2>5. target' = [name |-> w, text |-> registry[w].content]
        /\ pc' = IF files[w] = registry[w].content THEN "imports" ELSE "truncate"
    BY <2>1, <2>4 DEF Write, UpToDate
  <2>6. pc' = "imports" => UpToDateFile(w)'
    BY <2>2, <2>4, <2>5, <1>2 DEF UpToDateFile
  <2>7. TargetInv'
    BY <1>2, <2>2, <2>4, <2>5 DEF TargetInv
  <2>8. ProgressInv'
    BY <1>2, <1>3, <1>4, <2>1, <2>2, <2>3, <2>5, <2>6 DEF ProgressInv, Imported
  <2>. QED
    BY <1>7, <2>1, <2>2, <2>7, <2>8
<1>16. CASE Truncate
  <2>1. pc = "truncate" /\ pc' = "fill" /\ UNCHANGED <<record, imports, target, kind, lines>>
        /\ files' = [files EXCEPT ![target.name] = Empty]
    BY <1>16 DEF Truncate, command, locals, report
  <2>2. target \in Target /\ target.text \in Content /\ target.name \in Workflow
    BY <2>1 DEF TypeInv, TypeOK, Target
  <2>3. files'[target.name] # target.text
    BY <2>1, <2>2, InstallAssumption DEF TypeInv, TypeOK
  <2>4. TargetInv'
    BY <1>2, <2>1, <2>3 DEF TargetInv
  <2>5. ProgressInv'
    BY <1>2, <1>3, <1>4, <2>1 DEF ProgressInv, TypeInv, TypeOK, Imported
  <2>. QED
    BY <1>7, <2>1, <2>4, <2>5
<1>17. CASE Fill
  <2>1. pc = "fill" /\ pc' = "imports" /\ UNCHANGED <<record, imports, target, kind, lines>>
        /\ files' = [files EXCEPT ![target.name] = target.text]
    BY <1>17 DEF Fill, command, locals, report
  <2>2. target.name \in Workflow
    BY <2>1 DEF TypeInv, TypeOK, Target
  <2>3. UpToDateFile(target.name)'
    BY <1>2, <2>1, <2>2 DEF TargetInv, UpToDateFile, TypeInv, TypeOK
  <2>4. ProgressInv'
    BY <1>2, <1>3, <1>4, <2>1, <2>3 DEF ProgressInv, TypeInv, TypeOK, Imported
  <2>. QED
    BY <1>7, <2>1, <2>4 DEF TargetInv
<1>18. CASE Written
  <2>1. pc = "imports" /\ pc' = "require" /\ imports = {} /\ UNCHANGED <<record, kind, lines>>
    BY <1>18 DEF Written, command, locals, report
  <2>2. Whole(record)
    BY <2>1 DEF ProgressInv, TypeInv, TypeOK
  <2>3. ProgressInv'
    BY <1>6, <2>1, <2>2 DEF ProgressInv, TypeInv, TypeOK
  <2>. QED
    BY <1>7, <2>1, <2>3 DEF TargetInv
<1>19. CASE FetchPackage
  BY <1>7, <1>19 DEF FetchPackage, TargetInv, ProgressInv, report
<1>20. CASE ReadRequires \/ GoGet
  <2>1. pc \in {"require", "goget"} /\ pc' \in {"require", "goget"}
        /\ UNCHANGED <<record, kind, lines>>
    BY <1>20 DEF ReadRequires, GoGet, command, report
  <2>2. ProgressInv'
    BY <1>6, <2>1 DEF ProgressInv, TypeInv, TypeOK
  <2>. QED
    BY <1>7, <2>1, <2>2 DEF TargetInv
<1>21. CASE NoRequires \/ Installed
  <2>1. pc \in {"require", "goget"} /\ pc' = "next" /\ lines' = [lines EXCEPT ![record] = kind]
    BY <1>21 DEF NoRequires, Installed, Report
  <2>2. kind = "workflow" => Whole(record)
    BY <2>1 DEF ProgressInv
  <2>3. LineInv'
    BY <1>6, <2>1, <2>2 DEF LineInv, TypeInv, TypeOK
  <2>. QED
    BY <1>9, <2>1, <2>3
<1>22. CASE UNCHANGED vars
  BY <1>7, <1>22 DEF vars, command, locals, report, project, TargetInv, ProgressInv,
     UpToDateFile, Imported
<1>. QED
  BY <1>10, <1>11, <1>12, <1>13, <1>14, <1>15, <1>16, <1>17, <1>18, <1>19, <1>20, <1>21,
     <1>22 DEF Next, Step

(* A record reported as installed is in place, with its imports, where the *)
(* imports kept with every workflow are what is published                  *)
(* (installWorkflowFromBody, writeWorkflowFile).                           *)
THEOREM InstalledIsWhole == Aligned => (Spec => []InstalledIsComplete)
<1> SUFFICES ASSUME Aligned PROVE Spec => []InstalledIsComplete
  OBVIOUS
<1>1. Init => FileInv
  BY FileInit
<1>2. FileInv /\ [Next]_vars => FileInv'
  BY FileStep
<1>3. FileInv => InstalledIsComplete
  BY DEF FileInv, LineInv, UpToDateFile, InLine, InstalledIsComplete, Imported
<1>. QED
  BY <1>1, <1>2, <1>3, PTL DEF Spec

(* Under the same condition the whole command implements InPlace: what is  *)
(* complete in the project stays complete at every step, and nothing else  *)
(* is reported.                                                            *)
Said == {w \in Workflow : lines[w] = "workflow"}

LEMMA PlacedIsUpToDate ==
    ASSUME InLine, NEW w \in Workflow
    PROVE  w \in Placed <=> /\ registry[w] # None
                            /\ \A v \in Imported(w) \cup {w} : UpToDateFile(v)
BY DEF Placed, UpToDateFile, InLine, Imported

LEMMA PlacedGrows == ASSUME FileInv, Aligned, [Next]_vars PROVE Placed \subseteq Placed'
<1>1. FileInv'
  BY FileStep
<1>2. registry' = registry
  BY DEF Next, Step, Start, NextRecord, Done, FetchWorkflow, FallThrough, FetchPackage,
     FetchFailed, WriteImport, Truncate, Fill, WriteFailed, Written, NoRequires,
     ReadRequires, GoGet, Installed, Crash, vars
<1>3. SUFFICES ASSUME NEW w \in Workflow, w \in Placed PROVE w \in Placed'
  BY DEF Placed
<1>4. registry[w] # None /\ \A v \in Imported(w) \cup {w} : UpToDateFile(v)
  BY <1>3, PlacedIsUpToDate DEF FileInv
<1>5. registry'[w] # None /\ Imported(w)' = Imported(w)
  BY <1>2, <1>4 DEF Imported
<1>6. \A v \in Imported(w) \cup {w} : UpToDateFile(v)'
  BY <1>4, UpToDateStays DEF Imported
<1>. QED
  BY <1>1, <1>2, <1>5, <1>6 DEF FileInv, InLine, Placed, UpToDateFile

LEMMA ProjectStep ==
    ASSUME Aligned, FileInv, [Next]_vars
    PROVE  [Project!Next]_(Project!vars)
<1>1. Placed \subseteq Workflow /\ Placed' \subseteq Workflow /\ Placed \subseteq Placed'
  BY PlacedGrows DEF Placed
<1>2. ASSUME Said' \subseteq Said
      PROVE  Project!Next
  <2>1. Placed' \in SUBSET Workflow /\ Placed' = Placed \cup Placed'
    BY <1>1
  <2>2. Project!Put
    BY <1>2, <2>1 DEF Project!Put, Said
  <2>. QED
    BY <2>2 DEF Project!Next
<1>3. ASSUME NEW x \in {"package", "failed"}, lines' = [lines EXCEPT ![record] = x]
      PROVE  Said' \subseteq Said
  BY <1>3 DEF Said, FileInv, TypeInv, TypeOK
<1>4. CASE NoRequires \/ Installed
  <2>1. lines' = [lines EXCEPT ![record] = kind] /\ UNCHANGED <<registry, files>>
        /\ pc \in {"require", "goget"} /\ kind \in {"workflow", "package"} /\ record \in Workflow
    BY <1>4 DEF NoRequires, Installed, Report, project, FileInv, TypeInv, TypeOK
  <2>2. CASE kind = "package"
    BY <1>2, <1>3, <2>1, <2>2
  <2>3. CASE kind = "workflow"
    <3>1. record \in Placed
      BY <2>1, <2>3, PlacedIsUpToDate DEF FileInv, ProgressInv
    <3>2. Said' = Said \cup {record}
      BY <2>1, <2>3 DEF Said, FileInv, TypeInv, TypeOK
    <3>3. Placed' = Placed
      BY <2>1 DEF Placed, Imported
    <3>4. \E w \in Workflow : Project!Report(w)
      BY <2>1, <3>1, <3>2, <3>3 DEF Project!Report, Said
    <3>. QED
      BY <3>4 DEF Project!Next
  <2>. QED
    BY <2>1, <2>2, <2>3
<1>5. CASE FetchFailed \/ WriteFailed
  BY <1>2, <1>3, <1>5 DEF FetchFailed, WriteFailed, Report
<1>6. CASE Crash \/ \E t \in {"", "workflow", "package"}, l \in BOOLEAN,
                        records \in SUBSET Workflow : Start(t, l, records)
  <2>1. lines' = [w \in Workflow |-> "none"]
    BY <1>6 DEF Crash, Start
  <2>. QED
    BY <1>2, <2>1 DEF Said
<1>7. ASSUME UNCHANGED lines
      PROVE  Project!Next
  BY <1>2, <1>7 DEF Said
<1>8. CASE NextRecord \/ Done \/ FetchWorkflow \/ FallThrough \/ FetchPackage \/ WriteImport
           \/ Truncate \/ Fill \/ Written \/ ReadRequires \/ GoGet
  BY <1>7, <1>8 DEF NextRecord, Done, FetchWorkflow, FallThrough, FetchPackage, WriteImport,
     Truncate, Fill, Written, ReadRequires, GoGet, report
<1>9. CASE UNCHANGED vars
  BY <1>7, <1>9 DEF vars, report
<1>. QED
  BY <1>4, <1>5, <1>6, <1>8, <1>9 DEF Next, Step

(* kue get and kue install implement InPlace: no step, failure or crash    *)
(* takes a workflow out of the project that is there with its imports, and *)
(* only such a one is reported, where the imports kept with every workflow *)
(* are what is published (writeWorkflowFile, installWorkflowFromBody).     *)
THEOREM InstallKeepsInPlace == Aligned => (Spec => NothingComesApart)
<1> SUFFICES ASSUME Aligned PROVE Spec => NothingComesApart
  OBVIOUS
<1>1. Init => FileInv
  BY FileInit
<1>2. FileInv /\ [Next]_vars => FileInv'
  BY FileStep
<1>3. Init => Project!Init
  BY DEF Init, Project!Init, Placed
<1>4. FileInv /\ [Next]_vars => [Project!Next]_(Project!vars)
  BY ProjectStep
<1>. QED
  BY <1>1, <1>2, <1>3, <1>4, PTL DEF Spec, NothingComesApart, Project!Spec

-----------------------------------------------------------------------------
(* What is written, by any registry: a text of the record under way, to a  *)
(* file that does not hold it.                                             *)
WriteInv ==
    pc \in Writing => target.text \in Texts(target.name) /\ files[target.name] # target.text

LEMMA WriteStep == ASSUME TypeInv, WriteInv, [Next]_vars PROVE WriteInv'
<1> USE DEF WriteInv, Writing, Fetched
<1>1. registry' = registry
  BY DEF Next, Step, Start, NextRecord, Done, FetchWorkflow, FallThrough, FetchPackage,
     FetchFailed, WriteImport, Truncate, Fill, WriteFailed, Written, NoRequires,
     ReadRequires, GoGet, Installed, Crash, vars
<1>2. CASE FetchWorkflow
  <2>1. UNCHANGED <<record, files>> /\ target' = [name |-> record, text |-> registry[record].content]
        /\ pc' = IF files[record] = registry[record].content THEN "imports" ELSE "truncate"
    BY <1>2 DEF FetchWorkflow, Write, UpToDate, command, project
  <2>. QED
    BY <1>1, <2>1 DEF Texts
<1>3. CASE WriteImport
  <2>1. PICK w \in imports : Write(w, registry[record].imports[w])
    BY <1>3 DEF WriteImport
  <2>2. w \in Imported(record) /\ UNCHANGED <<record, files>>
    BY <1>3, <2>1 DEF WriteImport, TypeInv, command, project
  <2>3. target' = [name |-> w, text |-> registry[record].imports[w]]
        /\ pc' = IF files[w] = registry[record].imports[w] THEN "imports" ELSE "truncate"
    BY <2>1 DEF Write, UpToDate
  <2>. QED
    BY <1>1, <2>2, <2>3 DEF Texts, Imported
<1>4. CASE Truncate
  <2>1. /\ pc = "truncate" /\ UNCHANGED <<record, target>>
        /\ files' = [files EXCEPT ![target.name] = Empty]
    BY <1>4 DEF Truncate, command, locals
  <2>2. target.name \in Workflow /\ target.text \in Content
    BY <2>1 DEF TypeInv, TypeOK, Target
  <2>3. files'[target.name] = Empty /\ target.text # Empty
    BY <2>1, <2>2, InstallAssumption DEF TypeInv, TypeOK
  <2>. QED
    BY <1>1, <2>1, <2>3 DEF Texts, Imported
<1>5. ASSUME \/ NextRecord \/ Done \/ FallThrough \/ FetchPackage \/ FetchFailed \/ Fill
             \/ WriteFailed \/ Written \/ NoRequires \/ ReadRequires \/ GoGet \/ Installed
             \/ Crash
      PROVE  WriteInv'
  <2>1. pc' \notin Writing
    BY <1>5 DEF NextRecord, Done, FallThrough, FetchPackage, FetchFailed, Fill, WriteFailed,
       Written, NoRequires, ReadRequires, GoGet, Installed, Crash, Report
  <2>. QED
    BY <2>1
<1>6. ASSUME NEW t \in {"", "workflow", "package"}, NEW l \in BOOLEAN,
             NEW records \in SUBSET Workflow, Start(t, l, records)
      PROVE  WriteInv'
  BY <1>6 DEF Start
<1>7. CASE UNCHANGED vars
  BY <1>7 DEF vars, command, locals, project, Texts, Imported
<1>. QED
  BY <1>2, <1>3, <1>4, <1>5, <1>6, <1>7 DEF Next, Step

(* A step that changes a file writes the text of the record under way to   *)
(* it, or begins to, and the file held another one; for any registry and   *)
(* whatever fails (writeWorkflowFile).                                     *)
THEOREM OnlyStaleFilesAreWritten == Spec => OnlyStaleFilesChange
<1>1. Init => WriteInv
  BY DEF Init, WriteInv, Writing
<1>2. TypeInv /\ WriteInv /\ [Next]_vars => WriteInv'
  BY WriteStep
<1> DEFINE Change == \A w \in Workflow : files'[w] # files[w] =>
                        \E t \in Texts(w) : files[w] # t /\ files'[w] \in {Empty, Torn, t}
<1>3. ASSUME TypeInv, WriteInv, [Next]_vars
      PROVE  Change
  <2>1. \/ files' = files
        \/ /\ pc \in Writing
           /\ \E s \in {Empty, Torn, target.text} : files' = [files EXCEPT ![target.name] = s]
    BY <1>3 DEF Next, Step, Start, NextRecord, Done, FetchWorkflow, FallThrough, FetchPackage,
       FetchFailed, WriteImport, Truncate, Fill, WriteFailed, Written, NoRequires, ReadRequires,
       GoGet, Installed, Crash, CutShort, vars, project, Writing
  <2>. QED
    BY <1>3, <2>1 DEF WriteInv, TypeInv, TypeOK
<1>4. TypeInv /\ WriteInv /\ [Next]_vars => [Change]_vars
  BY <1>3
<1> HIDE DEF Change
<1>5. Spec => [][Change]_vars
  BY <1>1, <1>2, <1>4, TypeAlways, PTL DEF Spec
<1>. QED
  BY <1>5 DEF Change, OnlyStaleFilesChange

-----------------------------------------------------------------------------
(* Modules.                                                                *)

Accounted == modErrs \cup (IF gomod = None THEN {} ELSE gomod)

(* What a record needs is still to do or done; what is found in go.mod is  *)
(* required there.                                                         *)
ModInv ==
    /\ TypeInv
    /\ pc \in Fetched \cup {"require"} => mods = Needs[record]
    /\ pc = "goget" => known \subseteq gomod /\ Needs[record] \subseteq mods \cup Accounted
    /\ ModulesAccounted

LEMMA ModInit == Init => ModInv
BY TypeInit DEF Init, ModInv, ModulesAccounted, Fetched

(* Only a new command forgets errors, and go.mod grows.                    *)
LEMMA AccountedGrows ==
    ASSUME ModInv, Step \/ Crash \/ UNCHANGED vars
    PROVE  Accounted \subseteq Accounted'
<1>1. modErrs \subseteq modErrs'
  BY DEF Step, NextRecord, Done, FetchWorkflow, FallThrough, FetchPackage, FetchFailed,
     WriteImport, Truncate, Fill, WriteFailed, Written, NoRequires, ReadRequires, GoGet,
     Skip, Add, AddFailed, Errors, Installed, Crash, vars, report
<1>2. gomod' = gomod \/ (gomod # None /\ \E m \in Module : gomod' = gomod \cup {m})
  BY DEF ModInv, TypeInv, TypeOK, Step, NextRecord, Done, FetchWorkflow, FallThrough,
     FetchPackage, FetchFailed, WriteImport, Truncate, Fill, WriteFailed, Written,
     NoRequires, ReadRequires, GoGet, Skip, Add, AddFailed, Installed, Crash, vars, project
<1>3. gomod # None => gomod' # None
  BY <1>2, NoneAssumption DEF ModInv, TypeInv, TypeOK
<1>. QED
  BY <1>1, <1>2, <1>3 DEF Accounted

LEMMA ModStep == Mentioned = {} /\ ModInv /\ [Next]_vars => ModInv'
<1> SUFFICES ASSUME Mentioned = {}, ModInv, [Next]_vars PROVE ModInv'
  OBVIOUS
<1> USE DEF ModInv, Fetched
<1>1. TypeInv'
  BY TypeStep
<1>2. ASSUME NEW t \in {"", "workflow", "package"}, NEW l \in BOOLEAN,
             NEW records \in SUBSET Workflow, Start(t, l, records)
      PROVE  ModInv'
  BY <1>1, <1>2 DEF Start, ModulesAccounted
<1>3. ASSUME Step \/ Crash \/ UNCHANGED vars,
             lines' = lines \/ \E x \in {"none", "failed"} : lines' = [lines EXCEPT ![record] = x]
      PROVE  ModulesAccounted'
  BY <1>3, AccountedGrows DEF ModulesAccounted, Accounted, TypeInv, TypeOK
<1>4. CASE NextRecord \/ Done \/ FallThrough
  <2>1. lines' = lines /\ pc' \notin Fetched \cup {"require", "goget"}
    BY <1>4 DEF NextRecord, Done, FallThrough, report
  <2>. QED
    BY <1>1, <1>3, <1>4, <2>1 DEF Step
<1>5. CASE FetchFailed \/ WriteFailed
  <2>1. lines' = [lines EXCEPT ![record] = "failed"] /\ pc' \notin Fetched \cup {"require", "goget"}
    BY <1>5 DEF FetchFailed, WriteFailed, Report
  <2>. QED
    BY <1>1, <1>3, <1>5, <2>1 DEF Step
<1>6. CASE Crash
  BY <1>1, <1>6 DEF Crash, ModulesAccounted
<1>7. CASE FetchWorkflow \/ FetchPackage
  <2>1. lines' = lines /\ record' = record /\ mods' = Needs[record]
        /\ pc' \in {"imports", "truncate", "require"}
    BY <1>7 DEF FetchWorkflow, FetchPackage, Write, command, report
  <2>. QED
    BY <1>1, <1>3, <1>7, <2>1 DEF Step
<1>8. CASE WriteImport \/ Truncate \/ Fill \/ Written
  <2>1. lines' = lines /\ record' = record /\ mods' = mods /\ pc \in Fetched
        /\ pc' \in Fetched \cup {"require"}
    BY <1>8 DEF WriteImport, Truncate, Fill, Written, Write, command, locals, report
  <2>. QED
    BY <1>1, <1>3, <1>8, <2>1 DEF Step
<1>9. CASE NoRequires \/ Installed
  <2>1. lines' = [lines EXCEPT ![record] = kind] /\ pc' = "next"
    BY <1>9 DEF NoRequires, Installed, Report
  <2>2. Needs[record] \subseteq Accounted'
    BY <1>9 DEF NoRequires, Installed, Accounted, project
  <2>3. ModulesAccounted'
    BY <1>9, <2>1, <2>2, AccountedGrows DEF Step, ModulesAccounted, Accounted, TypeInv, TypeOK
  <2>. QED
    BY <1>1, <2>1, <2>3
<1>10. CASE ReadRequires
  <2>1. pc' = "goget" /\ known' = gomod' /\ record' = record /\ mods' = mods /\ lines' = lines
    BY <1>10 DEF ReadRequires, project, command, report
  <2>2. mods = Needs[record]
    BY <1>10 DEF ReadRequires
  <2>. QED
    BY <1>1, <1>3, <1>10, <2>1, <2>2 DEF Step
<1>11. CASE GoGet
  <2>1. PICK m \in mods : mods' = mods \ {m} /\ (Skip(m) \/ Add(m) \/ AddFailed(m))
    BY <1>11 DEF GoGet
  <2>2. pc = "goget" /\ UNCHANGED <<pc, record, lines>> /\ gomod # None
    BY <1>11 DEF GoGet, command, TypeInv
  <2>3. known' \subseteq gomod' /\ gomod' # None
    BY <1>1, <2>1, <2>2 DEF Skip, Add, AddFailed, TypeInv
  <2>4. m \in Accounted'
    BY <2>1, <2>2, <2>3 DEF Skip, Add, AddFailed, Errors, Accounted
  <2>5. Needs[record] \subseteq mods' \cup Accounted'
    BY <1>11, <2>1, <2>2, <2>4, AccountedGrows DEF Step
  <2>. QED
    BY <1>1, <1>3, <1>11, <2>2, <2>3, <2>5 DEF Step
<1>12. CASE UNCHANGED vars
  BY <1>1, <1>12 DEF vars, command, locals, report, project, ModulesAccounted, Accounted
<1>. QED
  BY <1>2, <1>4, <1>5, <1>6, <1>7, <1>8, <1>9, <1>10, <1>11, <1>12 DEF Next, Step

(* Every module an installed record needs is required in go.mod or is      *)
(* reported, where go.mod names modules only to require them               *)
(* (addGoModuleRequires, readExistingRequires).                            *)
THEOREM ModulesAreAccounted == Mentioned = {} => (Spec => []ModulesAccounted)
<1> SUFFICES ASSUME Mentioned = {} PROVE Spec => []ModulesAccounted
  OBVIOUS
<1>1. Init => ModInv
  BY ModInit
<1>2. ModInv /\ [Next]_vars => ModInv'
  BY ModStep
<1>3. ModInv => ModulesAccounted
  BY DEF ModInv
<1>. QED
  BY <1>1, <1>2, <1>3, PTL DEF Spec

=============================================================================
