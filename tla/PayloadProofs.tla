---------------------------- MODULE PayloadProofs ----------------------------
(***************************************************************************)
(* Proofs about Payload: types, the depth of the scan, that what workflows *)
(* refer to below the root arrives with them, and, for the files go.mod    *)
(* that are read right, that dependencies are described as they say.       *)
(***************************************************************************)
EXTENDS Payload, SequenceTheorems, FiniteSetTheorems, TLAPS

StackFrame == [file : File, next : Nat \ {0}]

(* What is scanned is there, and a scan is at most one past its end.       *)
OnHand ==
    /\ \A i \in 1..Len(stack) :
          /\ project.files[stack[i].file] # Absent
          /\ stack[i].next <= Len(project.files[stack[i].file]) + 1
    /\ \A r \in Ref : imports[r] # None => project.files[imports[r]] # Absent

TypeInv == TypeOK /\ OnHand

LEMMA ProjectIs ==
    ASSUME project \in Projects
    PROVE  /\ project.files \in [File -> Seq(Reference) \cup {Absent}]
           /\ project.top \in File /\ project.files[project.top] # Absent
           /\ project.rooted \in BOOLEAN
           /\ project.gomod \in Seq(Line)
           /\ project.uses \subseteq Class
           /\ project.vendored \in [Module -> SUBSET Class]
           /\ project.local \in [Class -> Module \cup {None}]
  BY PayloadAssumption DEF Project

-----------------------------------------------------------------------------
(* The scan: its frame, the reference it is at, and where that leads.      *)

LEMMA FrameIs ==
    ASSUME TypeInv, stack # <<>>
    PROVE  /\ Len(stack) \in Nat \ {0}
           /\ Frame \in StackFrame
           /\ project.files[Frame.file] # Absent
           /\ References \in Seq(Reference)
           /\ Frame.next \in 1..(Len(References) + 1)
           /\ ~AtEnd => Frame.next \in DOMAIN References /\ Current \in Ref
           /\ AtEnd => Frame.next = Len(References) + 1
<1>1. stack \in Seq(StackFrame)
  BY DEF TypeInv, TypeOK, StackFrame
<1>2. Len(stack) \in Nat \ {0}
  BY <1>1, EmptySeq
<1>3. Frame \in StackFrame
  BY <1>1, <1>2, ElementOfSeq DEF Frame
<1>4. project.files[Frame.file] # Absent
      /\ Frame.next <= Len(project.files[Frame.file]) + 1
  BY <1>2 DEF TypeInv, OnHand, Frame
<1>5. References \in Seq(Reference)
  BY <1>3, <1>4, ProjectIs DEF TypeInv, TypeOK, References, StackFrame
<1>6. Frame.next \in 1..(Len(References) + 1)
  BY <1>3, <1>4, <1>5, LenProperties DEF StackFrame, References
<1>7. ASSUME ~AtEnd PROVE Frame.next \in DOMAIN References /\ Current \in Ref
  <2>1. Frame.next \in 1..Len(References)
    BY <1>5, <1>6, <1>7, LenProperties DEF AtEnd
  <2>2. References[Frame.next] \in Reference
    BY <1>5, <2>1, ElementOfSeq
  <2>. QED
    BY <1>5, <2>1, <2>2, LenProperties DEF Current, Reference
<1>8. AtEnd => Frame.next = Len(References) + 1
  BY <1>5, <1>6, LenProperties DEF AtEnd
<1>. QED
  BY <1>2, <1>3, <1>4, <1>5, <1>6, <1>7, <1>8

LEMMA WorkflowIs ==
    ASSUME project \in Projects, NEW s \in Stem, Workflow(s) # None
    PROVE  Workflow(s) \in File /\ project.files[Workflow(s)] # Absent
<1>1. <<s, "wsl">> \in File /\ <<s, "swsl">> \in File
  BY DEF File, Ext
<1>2. CASE project.files[<<s, "wsl">>] # Absent
  BY <1>1, <1>2 DEF Workflow
<1>3. CASE project.files[<<s, "wsl">>] = Absent
  BY <1>1, <1>3 DEF Workflow
<1>. QED
  BY <1>2, <1>3

(* A candidate is there, and what stands below the root comes first.       *)
LEMMA CandidateIs ==
    ASSUME TypeInv, stack # <<>>, NEW r \in Ref
    PROVE  /\ Candidate(r) # None =>
                Candidate(r) \in File /\ project.files[Candidate(r)] # Absent
           /\ Workflow(At[Root][r]) # None => Candidate(r) = Workflow(At[Root][r])
<1>1. project \in Projects
  BY DEF TypeInv, TypeOK
<1>2. Frame.file \in Stem \X Ext
  BY FrameIs DEF StackFrame, File
<1>3. At[Root][r] \in Stem /\ At[DirOf[Frame.file[1]]][r] \in Stem
  BY <1>2, PayloadAssumption
<1>. QED
  BY <1>1, <1>3, WorkflowIs DEF Candidate

LEMMA AdvancedIs ==
    ASSUME TypeInv, stack # <<>>
    PROVE  /\ Advanced \in Seq(StackFrame)
           /\ Len(Advanced) = Len(stack)
           /\ \A i \in 1..Len(stack) :
                Advanced[i].file = stack[i].file
                /\ Advanced[i].next = IF i = Len(stack) THEN Frame.next + 1
                                      ELSE stack[i].next
<1>1. stack \in Seq(StackFrame)
  BY DEF TypeInv, TypeOK, StackFrame
<1>2. Len(stack) \in 1..Len(stack) /\ Frame \in StackFrame
  BY FrameIs
<1>. DEFINE f == [Frame EXCEPT !.next = @ + 1]
<1>3. f \in StackFrame /\ f.file = Frame.file /\ f.next = Frame.next + 1
  BY <1>2 DEF StackFrame
<1>4. Advanced = [stack EXCEPT ![Len(stack)] = f]
  BY DEF Advanced, Frame
<1>5. \A i \in 1..Len(stack) : Advanced[i] = IF i = Len(stack) THEN f ELSE stack[i]
  <2>. HIDE DEF f
  <2>. QED
    BY <1>1, <1>2, <1>3, <1>4, ExceptSeq
<1>6. Advanced \in Seq(StackFrame) /\ Len(Advanced) = Len(stack)
  <2>. HIDE DEF f
  <2>. QED
    BY <1>1, <1>2, <1>3, <1>4, ExceptSeq
<1>. HIDE DEF f
<1>. QED
  BY <1>3, <1>5, <1>6 DEF Frame

LEMMA PushedIs ==
    ASSUME TypeInv, stack # <<>>, NEW f \in File
    PROVE  LET s == Append(Advanced, [file |-> f, next |-> 1]) IN
           /\ s \in Seq(StackFrame)
           /\ Len(s) = Len(stack) + 1
           /\ \A i \in 1..Len(stack) : s[i] = Advanced[i]
           /\ s[Len(stack) + 1] = [file |-> f, next |-> 1]
<1>1. [file |-> f, next |-> 1] \in StackFrame
  BY DEF StackFrame
<1>. QED
  BY <1>1, AdvancedIs, AppendProperties

LEMMA PoppedIs ==
    ASSUME TypeInv, stack # <<>>
    PROVE  LET s == SubSeq(stack, 1, Len(stack) - 1) IN
           /\ s \in Seq(StackFrame)
           /\ Len(s) = Len(stack) - 1
           /\ \A i \in 1..(Len(stack) - 1) : s[i] = stack[i]
<1>1. stack \in Seq(StackFrame)
  BY DEF TypeInv, TypeOK, StackFrame
<1>2. Len(stack) \in Nat \ {0}
  BY FrameIs
<1>3. \A i \in 1..(Len(stack) - 1) : stack[i] \in StackFrame
  BY <1>1, <1>2, ElementOfSeq
<1>. DEFINE n == Len(stack) - 1
<1>4. 1 \in Int /\ n \in Int /\ \A i \in 1..n : stack[i] \in StackFrame
  BY <1>2, <1>3
<1>5. /\ SubSeq(stack, 1, n) \in Seq(StackFrame)
      /\ Len(SubSeq(stack, 1, n)) = IF 1 <= n THEN n - 1 + 1 ELSE 0
      /\ \A i \in 1..(n - 1 + 1) : SubSeq(stack, 1, n)[i] = stack[1 + i - 1]
  <2>. HIDE DEF n
  <2>. QED
    BY <1>4, SubSeqProperties
<1>6. n \in Nat
  BY <1>2
<1>7. Len(SubSeq(stack, 1, n)) = n
  <2>. HIDE DEF n
  <2>. QED
    BY <1>5, <1>6
<1>8. \A i \in 1..n : SubSeq(stack, 1, n)[i] = stack[i]
  <2>. HIDE DEF n
  <2>. QED
    BY <1>5, <1>6
<1>. QED
  BY <1>5, <1>7, <1>8

-----------------------------------------------------------------------------
(* Types.                                                                  *)

ScanOK ==
    /\ project \in Projects
    /\ stack \in Seq(StackFrame)
    /\ visited \subseteq Ref
    /\ imports \in [Ref -> File \cup {None}]

ModOK ==
    /\ line \in 1..(Len(project.gomod) + 1)
    /\ requires \in [Module -> Version \cup {None}]
    /\ replaces \subseteq Module
    /\ ownModule \in Module \cup {None}

RestOK ==
    /\ phase \in {"imports", "gomod", "actions", "install", "done"}
    /\ deps \in [Class -> Dependency \cup {None}]
    /\ installed \in [Stem -> File \cup {None}]
    /\ towrite \subseteq Ref

LEMMA TypeParts ==
    /\ TypeOK <=> ScanOK /\ ModOK /\ RestOK
    /\ TypeOK' <=> ScanOK' /\ ModOK' /\ RestOK'
<1>1. TypeOK <=> ScanOK /\ ModOK /\ RestOK
  BY DEF TypeOK, ScanOK, ModOK, RestOK, StackFrame
<1>2. TypeOK' <=> ScanOK' /\ ModOK' /\ RestOK'
  BY DEF TypeOK, ScanOK, ModOK, RestOK, StackFrame
<1>. QED
  BY <1>1, <1>2

LEMMA ScanOKStep ==
    ASSUME TypeInv, Again \/ Missing \/ Collect \/ Return
    PROVE  ScanOK' /\ OnHand'
<1>1. /\ project' = project /\ project \in Projects /\ stack # <<>>
      /\ visited \subseteq Ref /\ imports \in [Ref -> File \cup {None}]
      /\ stack \in Seq(StackFrame) /\ Len(stack) \in Nat \ {0}
  BY TypeParts, FrameIs
     DEF TypeInv, ScanOK, Again, Missing, Collect, Return, Scanning
<1>2. ASSUME ~AtEnd
      PROVE  \A i \in 1..Len(stack) :
               /\ project.files[Advanced[i].file] # Absent
               /\ Advanced[i].next <= Len(project.files[Advanced[i].file]) + 1
  <2>1. Frame.next <= Len(References) /\ Len(References) \in Nat /\ Frame.next \in Nat
    BY <1>1, <1>2, FrameIs, LenProperties
  <2>2. References = project.files[stack[Len(stack)].file]
    BY DEF References, Frame
  <2>3. \A i \in 1..Len(stack) :
          /\ project.files[stack[i].file] # Absent
          /\ stack[i].next <= Len(project.files[stack[i].file]) + 1
    BY DEF TypeInv, OnHand
  <2>. TAKE i \in 1..Len(stack)
  <2>4. Advanced[i].file = stack[i].file
        /\ Advanced[i].next = IF i = Len(stack) THEN Frame.next + 1 ELSE stack[i].next
    BY <1>1, AdvancedIs
  <2>5. CASE i = Len(stack)
    BY <2>1, <2>2, <2>3, <2>4, <2>5
  <2>6. CASE i # Len(stack)
    BY <2>3, <2>4, <2>6
  <2>. QED
    BY <2>5, <2>6
<1>3. CASE Again
  BY <1>1, <1>2, <1>3, AdvancedIs DEF Again, ScanOK, OnHand, TypeInv
<1>4. CASE Missing
  <2>1. visited' \subseteq Ref
    BY <1>1, <1>4, FrameIs DEF Missing
  <2>. QED
    BY <1>1, <1>2, <1>4, <2>1, AdvancedIs DEF Missing, ScanOK, OnHand, TypeInv
<1>5. CASE Collect
  <2>. DEFINE f == Candidate(Current)
  <2>1. Current \in Ref /\ f \in File /\ project.files[f] # Absent
    BY <1>1, <1>5, FrameIs, CandidateIs DEF Collect
  <2>2. /\ stack' = Append(Advanced, [file |-> f, next |-> 1])
        /\ visited' = visited \cup {Current}
        /\ imports' = [imports EXCEPT ![Current] = f]
        /\ ~AtEnd
    BY <1>5 DEF Collect
  <2>3. project.files[f] \in Seq(Reference)
    BY <1>1, <2>1, ProjectIs
  <2>. HIDE DEF f
  <2>4. /\ stack' \in Seq(StackFrame) /\ Len(stack') = Len(stack) + 1
        /\ \A i \in 1..Len(stack) : stack'[i] = Advanced[i]
        /\ stack'[Len(stack) + 1] = [file |-> f, next |-> 1]
    BY <1>1, <2>1, <2>2, PushedIs
  <2>5. Len(project.files[f]) \in Nat
    BY <2>3, LenProperties
  <2>6. ASSUME NEW i \in 1..Len(stack')
        PROVE  /\ project.files[stack'[i].file] # Absent
               /\ stack'[i].next <= Len(project.files[stack'[i].file]) + 1
    <3>1. CASE i <= Len(stack)
      BY <1>1, <1>2, <2>2, <2>4, <3>1
    <3>2. CASE i = Len(stack) + 1
      BY <2>1, <2>4, <2>5, <3>2
    <3>. QED
      BY <1>1, <2>4, <3>1, <3>2
  <2>7. ScanOK'
    BY <1>1, <2>1, <2>2, <2>4 DEF ScanOK
  <2>8. \A r \in Ref : imports'[r] # None => project.files[imports'[r]] # Absent
    BY <1>1, <2>1, <2>2 DEF TypeInv, OnHand
  <2>. QED
    BY <1>1, <2>6, <2>7, <2>8 DEF OnHand
<1>6. CASE Return
  BY <1>1, <1>6, PoppedIs DEF Return, ScanOK, OnHand, TypeInv
<1>. QED
  BY <1>3, <1>4, <1>5, <1>6

LEMMA ModOKStep ==
    ASSUME TypeInv, ScanLine
    PROVE  ModOK'
<1>. DEFINE l == project.gomod[line]
<1>1. ModOK /\ project' = project /\ project.gomod \in Seq(Line)
  BY TypeParts, ProjectIs DEF TypeInv, ScanOK, ScanLine
<1>2. line \in 1..Len(project.gomod) /\ line' = line + 1
  BY <1>1, LenProperties DEF ScanLine, ModOK
<1>3. l \in Line
  BY <1>1, <1>2, ElementOfSeq
<1>4. line' \in 1..(Len(project.gomod) + 1)
  BY <1>1, <1>2, LenProperties
<1>5. requires' \in [Module -> Version \cup {None}]
  BY <1>1, <1>3 DEF ScanLine, ModOK, Requires, Line
<1>6. replaces' \subseteq Module
  BY <1>1, <1>3 DEF ScanLine, ModOK, Replaces, Line
<1>7. ownModule' \in Module \cup {None}
  BY <1>1, <1>3 DEF ScanLine, ModOK, Line
<1>. QED
  BY <1>1, <1>4, <1>5, <1>6, <1>7 DEF ModOK

LEMMA DependOK ==
    ASSUME TypeInv, NEW c \in Class, Depend(c)
    PROVE  RestOK'
<1>. DEFINE m == Provides[c]
            d == [module |-> m, local |-> IsLocal(m),
                  version |-> IF IsLocal(m) THEN None ELSE requires[m],
                  info |-> Info(m, c)]
<1>1. ScanOK /\ ModOK /\ RestOK
  BY TypeParts DEF TypeInv
<1>2. m \in Module
  BY PayloadAssumption DEF Depend
<1>3. project.local[c] \in Module \cup {None}
  BY <1>1, ProjectIs DEF ScanOK
<1>4. Info(m, c) \in Module
  BY <1>2, <1>3 DEF Info
<1>5. IsLocal(m) \in BOOLEAN
  BY DEF IsLocal
<1>6. requires[m] \in Version \cup {None}
  BY <1>1, <1>2 DEF ModOK
<1>7. d \in Dependency
  <2>. HIDE DEF m
  <2>. QED
    BY <1>2, <1>4, <1>5, <1>6 DEF Dependency
<1>8. deps' = [deps EXCEPT ![c] = d] /\ UNCHANGED <<phase, installed, towrite>>
  BY DEF Depend, consumer
<1>. HIDE DEF d
<1>. QED
  BY <1>1, <1>7, <1>8 DEF RestOK

LEMMA TypeStep ==
    ASSUME TypeInv, [Next]_vars
    PROVE  TypeInv'
<1>. USE DEF TypeInv
<1>0. ScanOK /\ ModOK /\ RestOK /\ OnHand
  BY TypeParts
<1>1. CASE Again \/ Missing \/ Collect \/ Return
  <2>1. UNCHANGED <<project, provenance, phase, deps, consumer>>
    BY <1>1 DEF Again, Missing, Collect, Return
  <2>2. ModOK' /\ RestOK'
    BY <1>0, <2>1 DEF ModOK, RestOK, provenance, consumer
  <2>. QED
    BY <1>1, <2>2, ScanOKStep, TypeParts
<1>2. CASE ~(Again \/ Missing \/ Collect \/ Return)
  <2>1. UNCHANGED <<project, collected>>
    BY <1>2 DEF Next, Collected, ScanLine, Scanned, Depend, Share, WriteImport,
                Installed, Finished, vars
  <2>2. ScanOK' /\ OnHand'
    BY <1>0, <2>1 DEF ScanOK, OnHand, collected
  <2>3. ModOK'
    <3>1. CASE ScanLine
      BY <3>1, ModOKStep
    <3>2. CASE ~ScanLine
      <4>1. UNCHANGED provenance
        BY <1>2, <3>2 DEF Next, Collected, Scanned, Depend, Share, WriteImport,
                          Installed, Finished, vars
      <4>. QED
        BY <1>0, <2>1, <4>1 DEF ModOK, provenance
    <3>. QED
      BY <3>1, <3>2
  <2>4. RestOK'
    <3>1. CASE \E c \in Class : Depend(c)
      BY <3>1, DependOK
    <3>2. CASE Share
      <4>1. project.top[1] \in Stem /\ project.top \in File
        BY <1>0, ProjectIs DEF ScanOK, File
      <4>. QED
        BY <1>0, <3>2, <4>1 DEF Share, RestOK
    <3>3. CASE \E r \in Ref : WriteImport(r)
      BY <1>0, <3>3, PayloadAssumption DEF WriteImport, RestOK, ScanOK
    <3>4. CASE Collected \/ ScanLine \/ Scanned \/ Installed \/ Finished \/ UNCHANGED vars
      BY <1>0, <3>4 DEF Collected, ScanLine, Scanned, Installed, Finished, vars,
                        RestOK, consumer
    <3>. QED
      BY <1>2, <3>1, <3>2, <3>3, <3>4 DEF Next
  <2>. QED
    BY <2>2, <2>3, <2>4, TypeParts
<1>. QED
  BY <1>1, <1>2

LEMMA TypeInit == Init => TypeInv
<1>. SUFFICES ASSUME Init PROVE TypeInv
  OBVIOUS
<1>1. project \in Projects
  BY DEF Init
<1>2. project.top \in File /\ project.files[project.top] # Absent
  BY <1>1, ProjectIs
<1>3. project.files[project.top] \in Seq(Reference)
  BY <1>1, <1>2, ProjectIs
<1>4. [file |-> project.top, next |-> 1] \in StackFrame
  BY <1>2 DEF StackFrame
<1>5. stack \in Seq(StackFrame) /\ Len(stack) = 1
      /\ stack[1].file = project.top /\ stack[1].next = 1
  BY <1>4 DEF Init
<1>6. ScanOK
  BY <1>1, <1>5 DEF Init, ScanOK
<1>7. ModOK
  <2>1. Len(project.gomod) \in Nat
    BY <1>1, ProjectIs, LenProperties
  <2>. QED
    BY <2>1 DEF Init, ModOK
<1>8. RestOK
  BY DEF Init, RestOK
<1>9. OnHand
  <2>1. Len(project.files[project.top]) \in Nat
    BY <1>3, LenProperties
  <2>2. \A r \in Ref : imports[r] = None
    BY DEF Init
  <2>. QED
    BY <1>2, <1>5, <2>1, <2>2 DEF OnHand
<1>. QED
  BY <1>6, <1>7, <1>8, <1>9, TypeParts DEF TypeInv

(* Every file that the scan opens and every reference that it looks at is  *)
(* one of the project, and what is sent and installed is of the project's  *)
(* files and of the lines of its go.mod, whatever they refer to.           *)
THEOREM PayloadTypeCorrect == Spec => []TypeOK
<1>1. TypeInv => TypeOK
  BY DEF TypeInv
<1>. QED
  BY <1>1, TypeInit, TypeStep, PTL DEF Spec

-----------------------------------------------------------------------------
(* The scan is bounded.                                                    *)

LEMMA BoundStep ==
    ASSUME TypeInv, ScanIsBounded, [Next]_vars
    PROVE  ScanIsBounded'
<1>. DEFINE n == Cardinality(visited)
<1>1. IsFiniteSet(visited) /\ n \in Nat
  BY PayloadAssumption, FS_Subset, FS_CardinalityType DEF TypeInv, TypeOK
<1>2. ASSUME NEW r \in Ref, r \notin visited
      PROVE  Cardinality(visited \cup {r}) = n + 1
  BY <1>1, <1>2, FS_AddElement
<1>3. Len(stack) \in Nat
  BY LenProperties DEF TypeInv, TypeOK
<1>4. CASE Again
  <2>1. UNCHANGED <<visited, imports>> /\ Len(stack') = Len(stack)
    BY <1>4, AdvancedIs DEF Again, Scanning
  <2>. QED
    BY <2>1 DEF ScanIsBounded
<1>5. CASE Missing
  <2>1. /\ Current \in Ref /\ Current \notin visited
        /\ visited' = visited \cup {Current} /\ UNCHANGED imports
        /\ Len(stack') = Len(stack)
    BY <1>5, AdvancedIs, FrameIs DEF Missing, Scanning, Visited
  <2>. QED
    BY <1>1, <1>2, <1>3, <2>1 DEF ScanIsBounded
<1>6. CASE Collect
  <2>1. /\ Current \in Ref /\ Current \notin visited
        /\ Candidate(Current) \in File /\ stack # <<>>
        /\ visited' = visited \cup {Current}
        /\ imports' = [imports EXCEPT ![Current] = Candidate(Current)]
    BY <1>6, FrameIs, CandidateIs DEF Collect, Scanning, Visited
  <2>2. Len(stack') = Len(stack) + 1
    BY <1>6, <2>1, PushedIs DEF Collect
  <2>3. \A r \in Ref : imports'[r] # None => r \in visited'
    BY <2>1 DEF ScanIsBounded, TypeInv, TypeOK
  <2>. QED
    BY <1>1, <1>2, <1>3, <2>1, <2>2, <2>3 DEF ScanIsBounded
<1>7. CASE Return
  <2>1. UNCHANGED <<visited, imports>> /\ Len(stack') = Len(stack) - 1
    BY <1>7, PoppedIs DEF Return, Scanning
  <2>. QED
    BY <1>1, <1>3, <2>1 DEF ScanIsBounded
<1>8. CASE ~(Again \/ Missing \/ Collect \/ Return)
  <2>1. UNCHANGED collected
    BY <1>8 DEF Next, Collected, ScanLine, Scanned, Depend, Share, WriteImport,
                Installed, Finished, vars
  <2>. QED
    BY <2>1 DEF ScanIsBounded, collected
<1>. QED
  BY <1>4, <1>5, <1>6, <1>7, <1>8

(* The recursion of collectImports is never deeper than the references it  *)
(* has seen, however workflows import each other.                          *)
THEOREM ScanStaysBounded == Spec => []ScanIsBounded
<1>1. Init => ScanIsBounded
  <2>. SUFFICES ASSUME Init PROVE ScanIsBounded
    OBVIOUS
  <2>1. Len(stack) = 1 /\ visited = {} /\ \A r \in Ref : imports[r] = None
    BY DEF Init
  <2>2. Cardinality({}) = 0
    BY FS_EmptySet
  <2>. QED
    BY <2>1, <2>2 DEF ScanIsBounded
<1>. QED
  BY <1>1, TypeInit, TypeStep, BoundStep, PTL DEF Spec

-----------------------------------------------------------------------------
(* Imports.                                                                *)

(* Where a reference leads from the root of the workflows.                 *)
FromRoot(r) == Workflow(At[Root][r])
IsThere(r) == FromRoot(r) # None

(* The files that are sent.                                                *)
Sent == {f \in File : f = project.top \/ \E r \in Ref : imports[r] = f}

(* The references of f up to the n-th are seen.                            *)
Seen(f, n) ==
    \A i \in DOMAIN project.files[f] : i <= n => project.files[f][i].ref \in visited

AllSeen(f) == \A i \in DOMAIN project.files[f] : project.files[f][i].ref \in visited

BeingScanned(f) == \E k \in 1..Len(stack) : stack[k].file = f

(* A reference that was seen is sent, and what is sent was seen; of a file *)
(* that is being scanned everything before the next reference is seen, and *)
(* every other file that is sent is scanned to its end.                    *)
SentInv ==
    /\ \A r \in visited : IsThere(r) => imports[r] = FromRoot(r)
    /\ \A r \in Ref : imports[r] # None => r \in visited
    /\ \A k \in 1..Len(stack) : Seen(stack[k].file, stack[k].next - 1)
    /\ phase = "imports" => \A f \in Sent : BeingScanned(f) \/ AllSeen(f)
    /\ phase # "imports" /\ project.rooted => \A f \in Sent : AllSeen(f)

(* Only what is sent is installed, and what is written is there to stay:   *)
(* another reference to the same place sends the same file.                *)
PlacedInv ==
    /\ \A s \in Stem : installed[s] # None => installed[s] \in Sent
    /\ \A r \in towrite : imports[r] # None
    /\ phase \in {"imports", "gomod", "actions"} => \A s \in Stem : installed[s] = None
    /\ phase \in {"install", "done"} =>
          \A r \in Ref : imports[r] # None /\ IsThere(r) /\ r \notin towrite =>
                             installed[At[Root][r]] = FromRoot(r)
    /\ phase # "install" => towrite = {}

ShareInv == TypeInv /\ SentInv /\ PlacedInv

LEMMA FromRootIs ==
    ASSUME project \in Projects, NEW r \in Ref
    PROVE  At[Root][r] \in Stem /\ (IsThere(r) => FromRoot(r) \in File)
<1>1. At[Root][r] \in Stem
  BY PayloadAssumption
<1>. QED
  BY <1>1, WorkflowIs DEF FromRoot, IsThere

LEMMA RootStays ==
    ASSUME UNCHANGED project
    PROVE  \A r : FromRoot(r)' = FromRoot(r) /\ (IsThere(r)' <=> IsThere(r))
  BY DEF FromRoot, IsThere, Workflow

-----------------------------------------------------------------------------
LEMMA AdvancedSeen ==
    ASSUME ShareInv, stack # <<>>, ~AtEnd,
           NEW v, visited \subseteq v, Current \in v
    PROVE  \A k \in 1..Len(stack) :
             LET f == Advanced[k].file IN
             \A i \in DOMAIN project.files[f] :
                i <= Advanced[k].next - 1 => project.files[f][i].ref \in v
<1>. TAKE k \in 1..Len(stack)
<1>1. Advanced[k].file = stack[k].file
      /\ Advanced[k].next = IF k = Len(stack) THEN Frame.next + 1 ELSE stack[k].next
  BY AdvancedIs DEF ShareInv
<1>2. \A i \in DOMAIN project.files[stack[k].file] :
        i <= stack[k].next - 1 => project.files[stack[k].file][i].ref \in visited
  BY DEF ShareInv, SentInv, Seen
<1>3. CASE k = Len(stack)
  <2>1. /\ References = project.files[stack[k].file] /\ References \in Seq(Reference)
        /\ Frame = stack[k] /\ Current = References[Frame.next].ref
    BY <1>3, FrameIs DEF References, Frame, ShareInv, Current
  <2>2. /\ DOMAIN References = 1..Len(References) /\ Len(References) \in Nat
        /\ Frame.next \in Nat
    BY <2>1, LenProperties, FrameIs DEF ShareInv
  <2>3. Advanced[k].next = Frame.next + 1 /\ References = project.files[Advanced[k].file]
    BY <1>1, <1>3, <2>1
  <2>4. ASSUME NEW i \in DOMAIN References, i <= Advanced[k].next - 1
        PROVE  References[i].ref \in v
    <3>0. i <= Frame.next
      BY <2>2, <2>3, <2>4
    <3>1. CASE i = Frame.next
      BY <2>1, <3>1
    <3>2. CASE i # Frame.next
      BY <1>2, <2>1, <2>2, <3>0, <3>2
    <3>. QED
      BY <3>1, <3>2
  <2>. QED
    BY <2>3, <2>4
<1>4. CASE k # Len(stack)
  BY <1>1, <1>2, <1>4
<1>. QED
  BY <1>3, <1>4

LEMMA SentSame ==
    ASSUME ShareInv, UNCHANGED <<project, collected>>,
           phase # "imports" => phase' # "imports",
           phase = "imports" /\ phase' # "imports" => stack = <<>> \/ ~project.rooted
    PROVE  SentInv'
<1>1. /\ Sent' = Sent
      /\ \A f : AllSeen(f)' <=> AllSeen(f)
      /\ \A f : BeingScanned(f)' <=> BeingScanned(f)
  BY DEF Sent, AllSeen, BeingScanned, collected
<1>2. /\ \A r \in visited' : IsThere(r)' => imports'[r] = FromRoot(r)'
      /\ \A r \in Ref : imports'[r] # None => r \in visited'
      /\ \A k \in 1..Len(stack') : Seen(stack[k].file, stack[k].next - 1)'
  BY RootStays DEF ShareInv, SentInv, collected, Seen
<1>3. phase' = "imports" => \A f \in Sent : BeingScanned(f) \/ AllSeen(f)
  BY DEF ShareInv, SentInv
<1>4. ASSUME phase' # "imports", project.rooted
      PROVE  \A f \in Sent : AllSeen(f)
  <2>1. CASE phase # "imports"
    BY <1>4, <2>1 DEF ShareInv, SentInv
  <2>2. CASE phase = "imports"
    <3>1. Len(stack) = 0
      BY <1>4, <2>2
    <3>2. \A f : ~BeingScanned(f)
      BY <3>1 DEF BeingScanned
    <3>. QED
      BY <2>2, <3>2 DEF ShareInv, SentInv
  <2>. QED
    BY <2>1, <2>2
<1>. QED
  BY <1>1, <1>2, <1>3, <1>4 DEF SentInv, collected

LEMMA SentStep ==
    ASSUME ShareInv, [Next]_vars
    PROVE  SentInv'
<1>. USE DEF ShareInv
<1>0. /\ visited \subseteq Ref /\ imports \in [Ref -> File \cup {None}]
      /\ Len(stack) \in Nat
  BY LenProperties DEF TypeInv, TypeOK
<1>1. CASE Again \/ Missing
  <2>1. /\ UNCHANGED <<project, phase, imports>> /\ stack' = Advanced
        /\ stack # <<>> /\ ~AtEnd
        /\ visited' = visited \cup {Current} /\ Current \in Ref
    BY <1>1, FrameIs DEF Again, Missing, Scanning, Visited
  <2>2. ASSUME NEW r \in visited', IsThere(r)' PROVE imports'[r] = FromRoot(r)'
    <3>1. IsThere(r) /\ FromRoot(r)' = FromRoot(r)
      BY <2>1, <2>2, RootStays
    <3>2. CASE r \in visited
      BY <2>1, <3>1, <3>2 DEF SentInv
    <3>3. CASE r \notin visited
      <4>1. Missing /\ r = Current
        BY <1>1, <2>1, <2>2, <3>3 DEF Again, Visited
      <4>2. Candidate(r) = None /\ Candidate(r) = FromRoot(r)
        BY <2>1, <3>1, <4>1, CandidateIs DEF Missing, IsThere, FromRoot
      <4>. QED
        BY <3>1, <4>2 DEF IsThere
    <3>. QED
      BY <3>2, <3>3
  <2>3. \A r \in Ref : imports'[r] # None => r \in visited'
    BY <2>1 DEF SentInv
  <2>4. \A k \in 1..Len(stack') : Seen(stack[k].file, stack[k].next - 1)'
    BY <2>1, AdvancedIs, AdvancedSeen DEF Seen
  <2>5. Sent' = Sent
    BY <2>1 DEF Sent
  <2>6. \A f : BeingScanned(f)' <=> BeingScanned(f)
    BY <2>1, AdvancedIs DEF BeingScanned
  <2>7. \A f : AllSeen(f) => AllSeen(f)'
    BY <2>1 DEF AllSeen
  <2>. QED
    BY <2>1, <2>2, <2>3, <2>4, <2>5, <2>6, <2>7 DEF SentInv
<1>2. CASE Collect
  <2>. DEFINE g == Candidate(Current)
  <2>1. /\ UNCHANGED <<project, phase>> /\ stack # <<>> /\ ~AtEnd /\ phase = "imports"
        /\ visited' = visited \cup {Current} /\ Current \in Ref /\ g \in File
        /\ imports' = [imports EXCEPT ![Current] = g]
        /\ Current \notin visited
    BY <1>2, FrameIs, CandidateIs DEF Collect, Scanning, Visited
  <2>2. /\ Len(stack') = Len(stack) + 1
        /\ \A k \in 1..Len(stack) : stack'[k] = Advanced[k]
        /\ stack'[Len(stack) + 1] = [file |-> g, next |-> 1]
    BY <1>2, <2>1, PushedIs DEF Collect
  <2>3. IsThere(Current) => g = FromRoot(Current)
    BY <2>1, CandidateIs DEF IsThere, FromRoot
  <2>. HIDE DEF g
  <2>4. ASSUME NEW r \in visited', IsThere(r)' PROVE imports'[r] = FromRoot(r)'
    <3>1. IsThere(r) /\ FromRoot(r)' = FromRoot(r)
      BY <2>1, <2>4, RootStays
    <3>2. CASE r = Current
      BY <1>0, <2>1, <2>3, <3>1, <3>2
    <3>3. CASE r # Current
      BY <1>0, <2>1, <2>4, <3>1, <3>3 DEF SentInv
    <3>. QED
      BY <3>2, <3>3
  <2>5. \A r \in Ref : imports'[r] # None => r \in visited'
    BY <1>0, <2>1 DEF SentInv
  <2>6. ASSUME NEW k \in 1..Len(stack') PROVE Seen(stack[k].file, stack[k].next - 1)'
    <3>1. CASE k <= Len(stack)
      BY <1>0, <2>1, <2>2, <3>1, AdvancedSeen DEF Seen
    <3>2. CASE k = Len(stack) + 1
      <4>1. project'.files[g] \in Seq(Reference)
        <5>1. project.files[g] # Absent
          BY <1>2, CandidateIs, <2>1 DEF g, Collect
        <5>. QED
          BY <2>1, <5>1, ProjectIs DEF TypeInv, TypeOK
      <4>2. \A i \in DOMAIN project'.files[g] : ~(i <= 0)
        BY <4>1, LenProperties
      <4>3. stack'[k].file = g /\ stack'[k].next - 1 = 0
        BY <2>2, <3>2
      <4>. QED
        BY <4>2, <4>3 DEF Seen
    <3>. QED
      BY <1>0, <2>2, <3>1, <3>2
  <2>7. ASSUME NEW f \in Sent' PROVE BeingScanned(f)' \/ AllSeen(f)'
    <3>1. CASE f \in Sent
      <4>1. BeingScanned(f) \/ AllSeen(f)
        BY <2>1, <3>1 DEF SentInv
      <4>2. BeingScanned(f) => BeingScanned(f)'
        BY <1>0, <2>1, <2>2, AdvancedIs DEF BeingScanned
      <4>3. AllSeen(f) => AllSeen(f)'
        BY <2>1 DEF AllSeen
      <4>. QED
        BY <4>1, <4>2, <4>3
    <3>2. CASE f \notin Sent
      <4>1. f = g
        BY <1>0, <2>1, <2>7, <3>2 DEF Sent
      <4>. QED
        BY <1>0, <2>2, <4>1 DEF BeingScanned
    <3>. QED
      BY <3>1, <3>2
  <2>. QED
    BY <2>1, <2>4, <2>5, <2>6, <2>7 DEF SentInv
<1>3. CASE Return
  <2>1. /\ UNCHANGED <<project, phase, visited, imports>> /\ stack # <<>> /\ AtEnd
    BY <1>3 DEF Return, Scanning
  <2>2. Len(stack') = Len(stack) - 1 /\ \A k \in 1..(Len(stack) - 1) : stack'[k] = stack[k]
    BY <1>3, <2>1, PoppedIs DEF Return
  <2>3. AllSeen(Frame.file)
    <3>1. Frame.next = Len(References) + 1 /\ References \in Seq(Reference)
      BY <2>1, FrameIs
    <3>2. Seen(Frame.file, Frame.next - 1)
      BY <2>1, FrameIs DEF SentInv, Frame
    <3>3. \A i \in DOMAIN References : i <= Frame.next - 1
      BY <3>1, LenProperties
    <3>. QED
      BY <3>2, <3>3 DEF AllSeen, Seen, References
  <2>4. \A k \in 1..Len(stack') : Seen(stack[k].file, stack[k].next - 1)'
    BY <1>0, <2>1, <2>2 DEF SentInv, Seen
  <2>5. Sent' = Sent /\ \A f : AllSeen(f)' <=> AllSeen(f)
    BY <2>1 DEF Sent, AllSeen
  <2>6. ASSUME NEW f, BeingScanned(f), ~BeingScanned(f)' PROVE f = Frame.file
    BY <1>0, <2>2, <2>6 DEF BeingScanned, Frame
  <2>7. \A f \in Sent' : phase' = "imports" => BeingScanned(f)' \/ AllSeen(f)'
    BY <2>1, <2>3, <2>5, <2>6 DEF SentInv
  <2>8. \A r \in visited' : IsThere(r)' => imports'[r] = FromRoot(r)'
    BY <2>1, RootStays DEF SentInv
  <2>. QED
    BY <2>1, <2>4, <2>5, <2>7, <2>8 DEF SentInv
<1>4. CASE ~(Again \/ Missing \/ Collect \/ Return)
  <2>1. UNCHANGED <<project, collected>> /\ (phase # "imports" => phase' # "imports")
    BY <1>4 DEF Next, Collected, ScanLine, Scanned, Depend, Share, WriteImport,
                Installed, Finished, vars
  <2>2. phase = "imports" /\ phase' # "imports" => stack = <<>> \/ ~project.rooted
    BY <1>4 DEF Next, Collected, ScanLine, Scanned, Depend, Share, WriteImport,
                Installed, Finished, vars
  <2>. QED
    BY <2>1, <2>2, SentSame
<1>. QED
  BY <1>1, <1>2, <1>3, <1>4

-----------------------------------------------------------------------------
LEMMA PlacedStep ==
    ASSUME ShareInv, [Next]_vars
    PROVE  PlacedInv'
<1>. USE DEF ShareInv
<1>0. /\ project \in Projects
      /\ imports \in [Ref -> File \cup {None}] /\ installed \in [Stem -> File \cup {None}]
      /\ project.top \in File /\ project.top[1] \in Stem /\ towrite \subseteq Ref
  BY ProjectIs DEF TypeInv, TypeOK, File
<1>1. CASE Again \/ Missing \/ Collect \/ Return
  <2>1. phase = "imports" /\ UNCHANGED <<phase, installed>>
    BY <1>1 DEF Again, Missing, Collect, Return, Scanning, consumer
  <2>2. installed = installed' /\ towrite' = towrite /\ \A s \in Stem : installed[s] = None
    BY <1>1, <2>1 DEF PlacedInv, Again, Missing, Collect, Return, consumer
  <2>3. towrite = {}
    BY <2>1 DEF PlacedInv
  <2>. QED
    BY <2>1, <2>2, <2>3 DEF PlacedInv
<1>2. CASE Share
  <2>1. /\ UNCHANGED <<project, imports>> /\ phase = "actions" /\ phase' = "install"
        /\ installed' = [installed EXCEPT ![project.top[1]] = project.top]
        /\ towrite' = {r \in Ref : imports[r] # None}
    BY <1>2 DEF Share, collected
  <2>2. \A s \in Stem :
          installed'[s] # None => installed'[s] \in Sent'
    BY <1>0, <2>1 DEF PlacedInv, Sent
  <2>3. /\ \A r \in towrite' : imports'[r] # None
        /\ \A r \in Ref : imports'[r] = None \/ r \in towrite'
    BY <2>1
  <2>. QED
    BY <2>1, <2>2, <2>3 DEF PlacedInv
<1>3. ASSUME NEW q \in Ref, WriteImport(q) PROVE PlacedInv'
  <2>1. /\ UNCHANGED <<project, visited, imports, phase>> /\ phase = "install" /\ q \in towrite
        /\ installed' = [installed EXCEPT ![At[Root][q]] = imports[q]]
        /\ towrite' = towrite \ {q} /\ At[Root][q] \in Stem
    BY <1>0, <1>3, FromRootIs DEF WriteImport, collected
  <2>2. ASSUME NEW s \in Stem, installed'[s] # None
        PROVE  installed'[s] \in Sent'
    BY <1>0, <2>1, <2>2 DEF PlacedInv, Sent
  <2>3. ASSUME NEW r \in Ref, imports'[r] # None, IsThere(r)', r \notin towrite'
        PROVE  installed'[At[Root][r]] = FromRoot(r)'
    <3>1. /\ At[Root][r] \in Stem /\ IsThere(r)
          /\ FromRoot(r)' = FromRoot(r)
      BY <1>0, <2>1, <2>3, FromRootIs, RootStays
    <3>2. CASE At[Root][r] = At[Root][q] /\ imports[q] # None
      <4>1. IsThere(q) /\ FromRoot(q) = FromRoot(r)
        BY <3>1, <3>2 DEF IsThere, FromRoot
      <4>2. imports[q] = FromRoot(q)
        BY <3>2, <4>1 DEF SentInv
      <4>. QED
        BY <1>0, <2>1, <3>1, <3>2, <4>1, <4>2
    <3>3. CASE At[Root][r] # At[Root][q]
      BY <1>0, <2>1, <2>3, <3>1, <3>3 DEF PlacedInv
    <3>4. imports[q] # None
      BY <2>1 DEF PlacedInv
    <3>. QED
      BY <3>2, <3>3, <3>4
  <2>. QED
    BY <2>1, <2>2, <2>3 DEF PlacedInv
<1>4. CASE Installed
  BY <1>4, RootStays DEF Installed, PlacedInv, consumer, collected, Sent
<1>5. CASE Collected \/ ScanLine \/ Scanned \/ (\E c \in Class : Depend(c))
  <2>1. /\ UNCHANGED <<project, imports, installed, towrite>>
        /\ phase \in {"imports", "gomod", "actions"} /\ phase' \in {"imports", "gomod", "actions"}
    BY <1>5 DEF Collected, ScanLine, Scanned, Depend, collected, consumer
  <2>. QED
    BY <2>1 DEF PlacedInv
<1>6. CASE UNCHANGED vars
  BY <1>6, RootStays DEF vars, collected, consumer, PlacedInv, Sent
<1>. QED
  BY <1>1, <1>2, <1>3, <1>4, <1>5, <1>6 DEF Next, Finished

LEMMA ShareInit == Init => ShareInv
<1>. SUFFICES ASSUME Init PROVE SentInv /\ PlacedInv
  BY TypeInit DEF ShareInv
<1>1. /\ phase = "imports" /\ visited = {} /\ Len(stack) = 1
      /\ stack[1].file = project.top /\ stack[1].next = 1
      /\ \A r \in Ref : imports[r] = None
      /\ towrite = {} /\ \A s \in Stem : installed[s] = None
  BY DEF Init
<1>2. project.files[project.top] \in Seq(Reference)
  BY TypeInit, ProjectIs DEF TypeInv, TypeOK
<1>3. \A i \in DOMAIN project.files[project.top] : ~(i <= 0)
  BY <1>2, LenProperties
<1>4. \A k \in 1..Len(stack) : Seen(stack[k].file, stack[k].next - 1)
  BY <1>1, <1>3 DEF Seen
<1>5. \A f \in Sent : BeingScanned(f)
  BY <1>1, PayloadAssumption DEF Sent, BeingScanned
<1>. QED
  BY <1>1, <1>4, <1>5 DEF SentInv, PlacedInv

(* Whatever a workflow that arrives in another project refers to arrives   *)
(* with it, as it stood below the root of the workflows, with all that     *)
(* refers to in turn: however workflows refer to each other, wherever else *)
(* files of these names are, and in every order in which imports are       *)
(* written (collectImports, installWorkflowFromBody).  Nothing is said of  *)
(* a text that leads nowhere from the root, such as one with an extension  *)
(* or an alias, or of what the engine looks for elsewhere.                 *)
THEOREM ReferencesArriveCorrect == Spec => []ReferencesArrive
<1>1. ASSUME ShareInv PROVE ReferencesArrive
  <2>. SUFFICES ASSUME phase = "done", project.rooted,
                       NEW s \in Stem, installed[s] # None,
                       NEW i \in DOMAIN project.files[installed[s]],
                       IsThere(project.files[installed[s]][i].ref)
                PROVE  LET r == project.files[installed[s]][i].ref IN
                       installed[At[Root][r]] = FromRoot(r)
    BY DEF ReferencesArrive, IsThere, FromRoot
  <2>. DEFINE g == installed[s]
              r == project.files[g][i].ref
  <2>1. /\ project \in Projects /\ g \in Sent /\ towrite = {}
        /\ imports \in [Ref -> File \cup {None}] /\ visited \subseteq Ref
    BY <1>1 DEF ShareInv, PlacedInv, TypeInv, TypeOK
  <2>2. r \in visited
    BY <1>1, <2>1 DEF ShareInv, SentInv, AllSeen
  <2>3. IsThere(r)
    OBVIOUS
  <2>. HIDE DEF g, r
  <2>4. imports[r] = FromRoot(r) /\ imports[r] # None /\ r \in Ref
    BY <1>1, <2>1, <2>2, <2>3 DEF ShareInv, SentInv, IsThere
  <2>5. installed[At[Root][r]] = FromRoot(r)
    BY <1>1, <2>1, <2>3, <2>4 DEF ShareInv, PlacedInv
  <2>. QED
    BY <2>5 DEF g, r
<1>2. ASSUME ShareInv, [Next]_vars PROVE ShareInv'
  BY <1>2, TypeStep, SentStep, PlacedStep DEF ShareInv
<1>. QED
  BY <1>1, <1>2, ShareInit, PTL DEF Spec

-----------------------------------------------------------------------------
(* Dependencies.                                                           *)

(* A go.mod that names one module at most, whose blocks are of             *)
(* requirements, of paths with a '/', or replacements, whose entries are   *)
(* in one, and which replaces modules in all their versions.               *)
Plain(mod) ==
    /\ \A i, j \in DOMAIN mod : mod[i].verb = "module" /\ mod[j].verb = "module" => i = j
    /\ \A i \in DOMAIN mod :
          LET l == mod[i]
              kind == KindOf(mod, i)
          IN IF l.opens THEN l.verb \in {"require", "replace"}
             ELSE /\ l.verb = "entry" => kind # "close"
                  /\ kind = "module" => l.path \in Module
                  /\ kind = "require" => l.path \in Module /\ l.version \in Version /\ ~l.arrow
                  /\ kind = "require" /\ l.verb = "entry" => l.path \in Slashed
                  /\ kind = "replace" => l.path \in Module /\ l.version = None /\ l.arrow

(* Every line alone says what it says in its block.                        *)
LEMMA LineIs ==
    ASSUME NEW mod \in Seq(Line), Plain(mod), NEW i \in DOMAIN mod
    PROVE  /\ Requires(mod[i]) <=> ~mod[i].opens /\ KindOf(mod, i) = "require"
           /\ Replaces(mod[i]) <=> ~mod[i].opens /\ KindOf(mod, i) = "replace"
           /\ mod[i].verb = "module" <=> ~mod[i].opens /\ KindOf(mod, i) = "module"
           /\ Requires(mod[i]) => mod[i].path \in Module /\ mod[i].version \in Version
           /\ Replaces(mod[i]) => mod[i].path \in Module /\ mod[i].version = None
           /\ mod[i].verb = "module" => mod[i].path \in Module
<1>. DEFINE l == mod[i]
            open == {j \in 1..(i - 1) : mod[j].opens /\ \A k \in j..(i - 1) : mod[k].verb # "close"}
            block == CHOOSE j \in open : TRUE
            kind == KindOf(mod, i)
<1>1. l \in Line /\ Len(mod) \in Nat /\ DOMAIN mod = 1..Len(mod)
  BY LenProperties, ElementOfSeq
<1>2. kind = IF l.verb # "entry" THEN l.verb
             ELSE IF open = {} THEN "close" ELSE mod[block].verb
  BY DEF KindOf
<1>3. open # {} => mod[block].verb \in {"require", "replace"}
  <2>. SUFFICES ASSUME open # {} PROVE mod[block].verb \in {"require", "replace"}
    OBVIOUS
  <2>1. block \in open
    OBVIOUS
  <2>2. block \in DOMAIN mod /\ mod[block].opens
    BY <1>1, <2>1
  <2>. HIDE DEF block
  <2>. QED
    BY <2>2 DEF Plain
<1>. HIDE DEF open, block
<1>4. /\ l.opens => l.verb \in {"require", "replace"}
      /\ ~l.opens => /\ l.verb = "entry" => kind # "close"
                     /\ kind = "module" => l.path \in Module
                     /\ kind = "require" => l.path \in Module /\ l.version \in Version /\ ~l.arrow
                     /\ kind = "require" /\ l.verb = "entry" => l.path \in Slashed
                     /\ kind = "replace" => l.path \in Module /\ l.version = None /\ l.arrow
  BY DEF Plain
<1>5. /\ l.verb # "entry" => kind = l.verb
      /\ ~l.opens /\ l.verb = "entry" => kind \in {"require", "replace"}
  BY <1>2, <1>3, <1>4
<1>6. None \notin Version /\ l.version \in Version \cup {None}
      /\ l.opens \in BOOLEAN /\ l.arrow \in BOOLEAN
  BY <1>1, PayloadAssumption DEF Line
<1>. HIDE DEF l, kind
<1>7. Requires(l) <=> ~l.opens /\ kind = "require"
  BY <1>4, <1>5, <1>6 DEF Requires
<1>8. Replaces(l) <=> ~l.opens /\ kind = "replace"
  BY <1>4, <1>5, <1>6 DEF Replaces
<1>9. l.verb = "module" <=> ~l.opens /\ kind = "module"
  BY <1>4, <1>5, <1>6
<1>10. /\ Requires(l) => l.path \in Module /\ l.version \in Version
       /\ Replaces(l) => l.path \in Module /\ l.version = None
       /\ l.verb = "module" => l.path \in Module
  BY <1>4, <1>7, <1>8, <1>9
<1>. QED
  BY <1>7, <1>8, <1>9, <1>10 DEF l, kind

(* The requirements of a module, its replacements and the names of the     *)
(* project in the first n lines.                                           *)
RequiredIn(m, n) ==
    {i \in 1..n : Requires(project.gomod[i]) /\ project.gomod[i].path = m}
ReplacedIn(m, n) ==
    {i \in 1..n : Replaces(project.gomod[i]) /\ project.gomod[i].path = m}
NamedIn(m, n) ==
    {i \in 1..n : project.gomod[i].verb = "module" /\ project.gomod[i].path = m}

(* What was read so far of go.mod: the last requirement of every module,   *)
(* the modules that are replaced, and the project's own name.              *)
ReadInv ==
    /\ \A m \in Module :
          IF RequiredIn(m, line - 1) = {} THEN requires[m] = None
          ELSE \E i \in RequiredIn(m, line - 1) :
                  /\ \A j \in RequiredIn(m, line - 1) : j <= i
                  /\ requires[m] = project.gomod[i].version
    /\ \A m \in Module : m \in replaces <=> ReplacedIn(m, line - 1) # {}
    /\ \A m \in Module : ownModule = m <=> NamedIn(m, line - 1) # {}
    /\ phase \notin {"imports", "gomod"} => line = Len(project.gomod) + 1

DependInv == TypeInv /\ ReadInv /\ DependencyIsDescribed

LEMMA ReadInit == Init => ReadInv
<1>. SUFFICES ASSUME Init PROVE ReadInv
  OBVIOUS
<1>1. line = 1 /\ phase = "imports" /\ replaces = {} /\ ownModule = None
      /\ \A m \in Module : requires[m] = None
  BY DEF Init
<1>2. \A m : RequiredIn(m, line - 1) = {} /\ ReplacedIn(m, line - 1) = {}
             /\ NamedIn(m, line - 1) = {}
  BY <1>1 DEF RequiredIn, ReplacedIn, NamedIn
<1>. QED
  BY <1>1, <1>2, PayloadAssumption DEF ReadInv

LEMMA ReadStep ==
    ASSUME TypeInv, ReadInv, Plain(project.gomod), ScanLine
    PROVE  ReadInv'
<1>. DEFINE l == project.gomod[line]
            n == line - 1
<1>1. /\ project' = project /\ phase' = phase /\ phase = "gomod"
      /\ project.gomod \in Seq(Line)
      /\ line \in DOMAIN project.gomod /\ line \in Nat \ {0} /\ line' = line + 1
      /\ ModOK
  BY TypeParts, ProjectIs, LenProperties DEF TypeInv, ScanOK, ModOK, ScanLine
<1>2. /\ Requires(l) => l.path \in Module /\ l.version \in Version
      /\ Replaces(l) => l.path \in Module
      /\ l.verb = "module" => l.path \in Module
  BY <1>1, LineIs
<1>3. /\ requires' = IF Requires(l) THEN [requires EXCEPT ![l.path] = l.version] ELSE requires
      /\ replaces' = IF Replaces(l) THEN replaces \cup {l.path} ELSE replaces
      /\ ownModule' = IF l.verb = "module" THEN l.path ELSE ownModule
  BY DEF ScanLine
<1>4. 1..(line' - 1) = 1..n \cup {line} /\ \A i \in 1..n : i < line
  BY <1>1
<1>5. \A m : /\ RequiredIn(m, line - 1)' = RequiredIn(m, n) \cup
                     {i \in {line} : Requires(l) /\ l.path = m}
             /\ ReplacedIn(m, line - 1)' = ReplacedIn(m, n) \cup
                     {i \in {line} : Replaces(l) /\ l.path = m}
             /\ NamedIn(m, line - 1)' = NamedIn(m, n) \cup
                     {i \in {line} : l.verb = "module" /\ l.path = m}
  BY <1>1, <1>4 DEF RequiredIn, ReplacedIn, NamedIn
<1>6. ASSUME NEW m \in Module
      PROVE  LET at == RequiredIn(m, line - 1)' IN
             IF at = {} THEN requires'[m] = None
             ELSE \E i \in at : /\ \A j \in at : j <= i
                                /\ requires'[m] = project.gomod[i].version
  <2>1. CASE Requires(l) /\ l.path = m
    <3>1. RequiredIn(m, line - 1)' = RequiredIn(m, n) \cup {line}
      BY <1>5, <2>1
    <3>2. \A j \in RequiredIn(m, line - 1)' : j <= line
      BY <1>1, <1>4, <3>1 DEF RequiredIn
    <3>3. requires'[m] = l.version
      BY <1>1, <1>3, <2>1 DEF ModOK
    <3>. QED
      BY <3>1, <3>2, <3>3
  <2>2. CASE ~(Requires(l) /\ l.path = m)
    <3>1. RequiredIn(m, line - 1)' = RequiredIn(m, n) /\ requires'[m] = requires[m]
      BY <1>1, <1>3, <1>5, <2>2 DEF ModOK
    <3>. QED
      BY <3>1 DEF ReadInv
  <2>. QED
    BY <2>1, <2>2
<1>7. \A m \in Module : m \in replaces' <=> ReplacedIn(m, line - 1)' # {}
  BY <1>3, <1>5 DEF ReadInv
<1>8. ASSUME NEW m \in Module PROVE ownModule' = m <=> NamedIn(m, line - 1)' # {}
  <2>1. CASE l.verb = "module"
    <3>1. NamedIn(m, n) = {}
      BY <1>1, <1>4, <2>1, LenProperties DEF NamedIn, Plain
    <3>. QED
      BY <1>3, <1>5, <2>1, <3>1
  <2>2. CASE l.verb # "module"
    BY <1>3, <1>5, <2>2 DEF ReadInv
  <2>. QED
    BY <2>1, <2>2
<1>. QED
  BY <1>1, <1>6, <1>7, <1>8 DEF ReadInv

(* When all of go.mod is read, what was read of a module is what it says.  *)
LEMMA AllRead ==
    ASSUME TypeInv, ReadInv, Plain(project.gomod), line = Len(project.gomod) + 1,
           NEW m \in Module
    PROVE  /\ requires[m] = Required(m)
           /\ m \in replaces <=> Replaced(m)
           /\ ownModule = m <=> Lines("module", m) # {}
<1>. DEFINE mod == project.gomod
            at == Lines("require", m)
            last == CHOOSE i \in at : \A j \in at : j <= i
<1>1. mod \in Seq(Line) /\ DOMAIN mod = 1..(line - 1)
  BY ProjectIs, LenProperties DEF TypeInv, TypeOK
<1>2. \A i \in DOMAIN mod :
        /\ Requires(mod[i]) <=> ~mod[i].opens /\ KindOf(mod, i) = "require"
        /\ Replaces(mod[i]) <=> ~mod[i].opens /\ KindOf(mod, i) = "replace"
        /\ mod[i].verb = "module" <=> ~mod[i].opens /\ KindOf(mod, i) = "module"
        /\ Replaces(mod[i]) => mod[i].version = None
  BY <1>1, LineIs
<1>3. at = RequiredIn(m, line - 1)
  BY <1>1, <1>2 DEF Lines, RequiredIn
<1>4. Lines("replace", m) = ReplacedIn(m, line - 1)
  BY <1>1, <1>2 DEF Lines, ReplacedIn
<1>5. Lines("module", m) = NamedIn(m, line - 1)
  BY <1>1, <1>2 DEF Lines, NamedIn
<1>6. requires[m] = Required(m)
  <2>1. Required(m) = IF at = {} THEN None ELSE mod[last].version
    BY DEF Required
  <2>2. CASE at = {}
    BY <1>3, <2>1, <2>2 DEF ReadInv
  <2>3. CASE at # {}
    <3>1. PICK i \in at : (\A j \in at : j <= i) /\ requires[m] = mod[i].version
      BY <1>3, <2>3 DEF ReadInv
    <3>2. at \subseteq Nat
      BY <1>3 DEF RequiredIn
    <3>. HIDE DEF at
    <3>3. last \in at /\ \A j \in at : j <= last
      BY <3>1
    <3>. HIDE DEF last
    <3>4. last = i
      BY <3>1, <3>2, <3>3
    <3>. QED
      BY <2>1, <2>3, <3>1, <3>4
  <2>. QED
    BY <2>2, <2>3
<1>7. m \in replaces <=> Replaced(m)
  <2>1. \A i \in ReplacedIn(m, line - 1) : mod[i].version = None
    BY <1>1, <1>2 DEF ReplacedIn
  <2>. QED
    BY <1>4, <2>1 DEF Replaced, ReadInv
<1>8. ownModule = m <=> Lines("module", m) # {}
  BY <1>5 DEF ReadInv
<1>. QED
  BY <1>6, <1>7, <1>8

AsGoModSays(d) ==
    LET m == d.module
        own == \E n \in Module : Lines("module", n) # {} /\ (m = n \/ <<m, n>> \in Inside)
    IN /\ d.local = (own \/ Replaced(m))
       /\ ~d.local => d.version = Required(m)

LEMMA DescribedStays ==
    ASSUME DependencyIsDescribed, UNCHANGED <<project, deps>>
    PROVE  DependencyIsDescribed'
<1>1. \A x : AsGoModSays(x)' <=> AsGoModSays(x)
  BY DEF AsGoModSays, Lines, Replaced, Required
<1>2. \A k \in Class : deps'[k] # None => AsGoModSays(deps'[k])
  BY DEF DependencyIsDescribed, AsGoModSays
<1>3. \A k \in Class : deps'[k] # None => AsGoModSays(deps[k])'
  BY <1>1, <1>2
<1>. QED
  BY <1>3 DEF DependencyIsDescribed, AsGoModSays

LEMMA DependStep ==
    ASSUME DependInv, Plain(project.gomod), NEW c \in Class, Depend(c)
    PROVE  DependencyIsDescribed'
<1>. DEFINE m == Provides[c]
            d == [module |-> m, local |-> IsLocal(m),
                  version |-> IF IsLocal(m) THEN None ELSE requires[m],
                  info |-> Info(m, c)]
<1>1. /\ project' = project /\ deps' = [deps EXCEPT ![c] = d]
      /\ line = Len(project.gomod) + 1 /\ m \in Module
      /\ DOMAIN deps = Class /\ ownModule \in Module \cup {None}
  BY PayloadAssumption DEF Depend, DependInv, ReadInv, TypeInv, TypeOK
<1>2. \A n \in Module : /\ requires[n] = Required(n)
                        /\ n \in replaces <=> Replaced(n)
                        /\ ownModule = n <=> Lines("module", n) # {}
  BY <1>1, AllRead DEF DependInv
<1>. DEFINE own == \E n \in Module : Lines("module", n) # {} /\ (m = n \/ <<m, n>> \in Inside)
<1>3. IsLocal(m) <=> own \/ Replaced(m)
  <2>1. own <=> ownModule # None /\ (m = ownModule \/ <<m, ownModule>> \in Inside)
    BY <1>1, <1>2, PayloadAssumption
  <2>. HIDE DEF own, m
  <2>. QED
    BY <1>1, <1>2, <2>1 DEF IsLocal
<1>4. AsGoModSays(d)
  <2>1. IsLocal(m) = (own \/ Replaced(m))
    <3>1. IsLocal(m) \in BOOLEAN /\ (own \/ Replaced(m)) \in BOOLEAN
      BY DEF IsLocal
    <3>. HIDE DEF own, m
    <3>. QED
      BY <1>3, <3>1
  <2>2. d.module = m /\ d.local = IsLocal(m)
        /\ d.version = IF IsLocal(m) THEN None ELSE requires[m]
    OBVIOUS
  <2>3. requires[m] = Required(m)
    BY <1>1, <1>2
  <2>. HIDE DEF d
  <2>. QED
    BY <2>1, <2>2, <2>3 DEF AsGoModSays
<1>5. \A x : AsGoModSays(x)' <=> AsGoModSays(x)
  BY <1>1 DEF AsGoModSays, Lines, Replaced, Required
<1>6. \A k \in Class : deps[k] # None => AsGoModSays(deps[k])
  BY DEF DependInv, DependencyIsDescribed, AsGoModSays
<1>. HIDE DEF d
<1>7. ASSUME NEW k \in Class, deps'[k] # None PROVE AsGoModSays(deps'[k])
  BY <1>1, <1>4, <1>6, <1>7
<1>8. \A k \in Class : deps'[k] # None => AsGoModSays(deps[k])'
  BY <1>5, <1>7
<1>. QED
  BY <1>8 DEF DependencyIsDescribed, AsGoModSays

LEMMA DependInvStep ==
    ASSUME DependInv, Plain(project.gomod), [Next]_vars
    PROVE  DependInv'
<1>1. TypeInv'
  BY TypeStep DEF DependInv
<1>2. CASE ScanLine
  <2>1. UNCHANGED <<project, deps>>
    BY <1>2 DEF ScanLine
  <2>2. DependencyIsDescribed'
    BY <2>1, DescribedStays DEF DependInv
  <2>. QED
    BY <1>1, <1>2, <2>2, ReadStep DEF DependInv
<1>3. CASE ~ScanLine
  <2>1. UNCHANGED <<project, provenance>>
    BY <1>3 DEF Next, Again, Missing, Collect, Return, Collected, Scanned, Depend, Share,
                WriteImport, Installed, Finished, vars
  <2>2. phase' \notin {"imports", "gomod"} =>
          phase \notin {"imports", "gomod"} \/ line = Len(project.gomod) + 1
    <3>1. CASE Scanned
      BY <3>1, ProjectIs, LenProperties DEF Scanned, DependInv, TypeInv, TypeOK
    <3>2. CASE ~Scanned
      BY <1>3, <3>2 DEF Next, Again, Missing, Collect, Return, Collected, Depend, Share,
                        Scanning, WriteImport, Installed, Finished, vars
    <3>. QED
      BY <3>1, <3>2
  <2>3. ReadInv'
    BY <2>1, <2>2 DEF DependInv, ReadInv, RequiredIn, ReplacedIn, NamedIn, provenance
  <2>4. DependencyIsDescribed'
    <3>1. CASE \E c \in Class : Depend(c)
      BY <3>1, DependStep
    <3>2. CASE ~\E c \in Class : Depend(c)
      <4>1. UNCHANGED deps
        BY <1>3, <3>2 DEF Next, Again, Missing, Collect, Return, Collected, Scanned, Share,
                          WriteImport, Installed, Finished, vars
      <4>. QED
        BY <2>1, <4>1, DescribedStays DEF DependInv
    <3>. QED
      BY <3>1, <3>2
  <2>. QED
    BY <1>1, <2>3, <2>4 DEF DependInv
<1>. QED
  BY <1>2, <1>3

(* A dependency is said to be local, or of a version, exactly if go.mod    *)
(* says so, although its lines are read without their blocks: for the      *)
(* blocks and replacements that Plain allows (parseGoModProvenance,        *)
(* buildPayload).  Other blocks and replacements of one version are read   *)
(* wrong.                                                                  *)
THEOREM DependenciesAreDescribed ==
    ASSUME \A p \in Projects : Plain(p.gomod)
    PROVE  Spec => []DependencyIsDescribed
<1>1. Init => DependInv
  BY TypeInit, ReadInit DEF Init, DependInv, DependencyIsDescribed
<1>2. ASSUME DependInv, [Next]_vars PROVE DependInv'
  BY <1>2, DependInvStep DEF DependInv, TypeInv, TypeOK
<1>3. DependInv => DependencyIsDescribed
  BY DEF DependInv
<1>. QED
  BY <1>1, <1>2, <1>3, PTL DEF Spec

=============================================================================
