---------------------------- MODULE ScaffoldProofs ----------------------------
(***************************************************************************)
(* Theorems about Scaffold, for any names, modules, methods and files, any *)
(* number of commands and edits and any faults.                            *)
(***************************************************************************)
EXTENDS Scaffold, SequenceTheorems, TLAPS

-----------------------------------------------------------------------------
(* Plans and the files they name.                                          *)

(* The one file a plan only writes if it is not there is modules.go.       *)
Planned == {item \in Item : item.via = "unless" => item.path = ModulesGo}

LEMMA ItemType ==
    ASSUME NEW f \in Path
    PROVE  Template(f) \in Planned /\ Fallback(f) \in Planned /\ Plain(f) \in Planned
           /\ (f = ModulesGo => Unless(f) \in Planned)
BY DEF Template, Unless, Fallback, Plain, Item, Planned

LEMMA PlannedSeq ==
    /\ Planned \subseteq Item
    /\ Seq(Planned) \subseteq Seq(Item)
    /\ <<>> \in Seq(Planned)
    /\ \A i \in Planned : <<i>> \in Seq(Planned)
    /\ \A i, j \in Planned : <<i, j>> \in Seq(Planned)
<1>1. Planned \subseteq Item
  BY DEF Planned
<1>2. \A s \in Seq(Planned) : s \in Seq(Item)
  BY <1>1, SeqMonotonic
<1>. QED
  BY <1>1, <1>2

LEMMA PathsType ==
    ASSUME NEW steps \in Seq(Item)
    PROVE  Paths(steps) \subseteq Path
<1>1. \A i \in DOMAIN steps : steps[i] \in Item
  BY LenProperties
<1>2. \A item \in Item : item.path \in Path
  BY DEF Item
<1>. QED
  BY <1>1, <1>2 DEF Paths

LEMMA PathsEmpty == <<>> \in Seq(Item) /\ Paths(<<>>) = {}
BY DEF Paths

LEMMA PathsOne ==
    ASSUME NEW item \in Item
    PROVE  <<item>> \in Seq(Item) /\ Paths(<<item>>) = {item.path} /\ <<item>> # <<>>
BY DEF Paths

LEMMA PathsTwo ==
    ASSUME NEW i \in Item, NEW j \in Item
    PROVE  <<i, j>> \in Seq(Item) /\ Paths(<<i, j>>) = {i.path, j.path}
<1>1. DOMAIN <<i, j>> = {1, 2}
  OBVIOUS
<1>. QED
  BY <1>1 DEF Paths

LEMMA PathsFirst ==
    ASSUME NEW steps \in Seq(Item), steps # <<>>
    PROVE  /\ Head(steps) \in Item /\ Tail(steps) \in Seq(Item)
           /\ Paths(steps) = {Head(steps).path} \cup Paths(Tail(steps))
<1>. DEFINE n == Len(steps)
            t == Tail(steps)
<1>1. n \in Nat \ {0} /\ DOMAIN steps = 1..n /\ Head(steps) = steps[1]
  BY EmptySeq, LenProperties
<1>2. /\ t \in Seq(Item) /\ Head(steps) \in Item
      /\ Len(t) = n - 1 /\ \A i \in 1..Len(t) : t[i] = steps[i + 1]
  BY HeadTailProperties
<1>3. DOMAIN t = 1..(n - 1)
  BY <1>2, LenProperties
<1>. HIDE DEF n, t
<1>4. \A i \in 1..(n - 1) : t[i] = steps[i + 1] /\ i + 1 \in 1..n
  BY <1>1, <1>2
<1>5. \A i \in 1..n : i = 1 \/ \E j \in 1..(n - 1) : i = j + 1
  <2>. SUFFICES ASSUME NEW i \in 1..n, i # 1
       PROVE  i - 1 \in 1..(n - 1) /\ i = (i - 1) + 1
    OBVIOUS
  <2>. QED
    BY <1>1
<1>6. ASSUME NEW i \in 1..n
      PROVE  steps[i].path \in {Head(steps).path} \cup Paths(t)
  <2>1. CASE i = 1
    BY <1>1, <2>1
  <2>2. ASSUME NEW j \in 1..(n - 1), i = j + 1
        PROVE  steps[i].path \in Paths(t)
    <3>1. t[j] = steps[i]
      BY <1>4, <2>2
    <3>2. t[j].path \in Paths(t)
      BY <1>3 DEF Paths
    <3>. QED
      BY <3>1, <3>2
  <2>. QED
    BY <1>5, <2>1, <2>2
<1>7. ASSUME NEW j \in 1..(n - 1)
      PROVE  t[j].path \in Paths(steps)
  <2>1. t[j] = steps[j + 1] /\ j + 1 \in DOMAIN steps
    BY <1>1, <1>4
  <2>2. steps[j + 1].path \in Paths(steps)
    BY <2>1 DEF Paths
  <2>. QED
    BY <2>1, <2>2
<1>8. Head(steps).path \in Paths(steps)
  BY <1>1 DEF Paths
<1>9. \A x : x \in Paths(steps) <=> \E i \in 1..n : x = steps[i].path
  BY <1>1 DEF Paths
<1>10. \A x : x \in Paths(t) <=> \E j \in 1..(n - 1) : x = t[j].path
  BY <1>3 DEF Paths
<1>. QED
  BY <1>2, <1>6, <1>7, <1>8, <1>9, <1>10 DEF t

LEMMA PathsBefore ==
    ASSUME NEW item \in Item, NEW steps \in Seq(Item)
    PROVE  /\ <<item>> \o steps \in Seq(Item) /\ <<item>> \o steps # <<>>
           /\ Head(<<item>> \o steps) = item
           /\ Paths(<<item>> \o steps) = {item.path} \cup Paths(steps)
<1>. DEFINE u == <<item>> \o steps
            n == Len(steps)
<1>1. n \in Nat /\ DOMAIN steps = 1..n
  BY LenProperties
<1>2. <<item>> \in Seq(Item) /\ Len(<<item>>) = 1
  OBVIOUS
<1>3. /\ u \in Seq(Item) /\ Len(u) = 1 + n
      /\ \A i \in 1..(1 + n) : u[i] = IF i <= 1 THEN item ELSE steps[i - 1]
  BY <1>2, ConcatProperties
<1>4. DOMAIN u = 1..(1 + n)
  BY <1>3, LenProperties
<1>. HIDE DEF u, n
<1>5. u[1] = item /\ \A i \in 1..n : u[i + 1] = steps[i]
  BY <1>1, <1>3
<1>6. \A i \in DOMAIN u : i = 1 \/ \E j \in 1..n : i = j + 1
  <2>. SUFFICES ASSUME NEW i \in DOMAIN u, i # 1
       PROVE  i - 1 \in 1..n /\ i = (i - 1) + 1
    OBVIOUS
  <2>. QED
    BY <1>1, <1>4
<1>7. ASSUME NEW i \in DOMAIN u
      PROVE  u[i].path \in {item.path} \cup Paths(steps)
  <2>1. CASE i = 1
    BY <1>5, <2>1
  <2>2. ASSUME NEW j \in 1..n, i = j + 1
        PROVE  u[i].path \in Paths(steps)
    <3>1. u[i] = steps[j]
      BY <1>5, <2>2
    <3>2. steps[j].path \in Paths(steps)
      BY <1>1 DEF Paths
    <3>. QED
      BY <3>1, <3>2
  <2>. QED
    BY <1>6, <2>1, <2>2
<1>8. item.path \in Paths(u) /\ Paths(steps) \subseteq Paths(u)
  <2>1. 1 \in DOMAIN u /\ \A i \in 1..n : i + 1 \in DOMAIN u
    BY <1>1, <1>4
  <2>2. \A i \in DOMAIN u : u[i].path \in Paths(u)
    BY DEF Paths
  <2>3. \A x \in Paths(steps) : \E i \in 1..n : x = steps[i].path
    BY <1>1 DEF Paths
  <2>. QED
    BY <1>5, <2>1, <2>2, <2>3
<1>9. u # <<>> /\ Head(u) = u[1]
  BY <1>1, <1>3, EmptySeq
<1>10. \A x \in Paths(u) : \E i \in DOMAIN u : x = u[i].path
  BY DEF Paths
<1>. QED
  BY <1>3, <1>5, <1>7, <1>8, <1>9, <1>10 DEF u

LEMMA FilesAreInPath ==
    /\ \A n \in Name : Main("module", n) \in Modules /\ Modules \subseteq Path
    /\ \A k \in Source, n \in Name : Main(k, n) \in Path /\ Meta(k, n) \in Path
    /\ \A t \in AppType : ProjectFile(t) \in Path
    /\ {Manifest, ModulesGo, ApplicationJson} \subseteq Path
    /\ \A i \in DOMAIN CommonFiles : ProjectFile(CommonFiles[i]) \in Path
BY ScaffoldAssumption DEF Main, Modules, Path, ProjectFiles

LEMMA CommonType == Common \in Seq(Planned)
<1>. DEFINE n == Len(CommonFiles)
            c == [i \in DOMAIN CommonFiles |-> Template(ProjectFile(CommonFiles[i]))]
<1>1. n \in Nat /\ DOMAIN CommonFiles = 1..n
  BY ScaffoldAssumption, LenProperties
<1>2. c \in [1..n -> Planned]
  BY <1>1, FilesAreInPath, ItemType
<1>3. c \in Seq(Planned)
  <2>. HIDE DEF c, n
  <2>. QED  BY <1>1, <1>2
<1>4. <<Unless(ModulesGo)>> \in Seq(Planned)
  BY FilesAreInPath, ItemType, PlannedSeq
<1>. QED
  BY <1>3, <1>4, ConcatProperties DEF Common

LEMMA SkeletonType ==
    ASSUME NEW t \in AppType
    PROVE  Skeleton(t) \in Seq(Planned)
<1>1. Template(ProjectFile(t)) \in Planned /\ Template(ModulesGo) \in Planned
      /\ Template(Manifest) \in Planned
  BY FilesAreInPath, ItemType
<1>2. \/ Skeleton(t) = <<Template(ProjectFile(t)), Template(ModulesGo)>>
      \/ Skeleton(t) = <<Template(Manifest), Template(ProjectFile(t))>>
      \/ Skeleton(t) = <<Template(ProjectFile(t))>>
  BY Zenon DEF Skeleton, AppType
<1>. QED
  BY <1>1, <1>2, PlannedSeq

LEMMA MetadataType == Metadata \in Seq(Planned)
BY FilesAreInPath, ItemType, PlannedSeq DEF Metadata

LEMMA CreateType ==
    ASSUME NEW t \in AppType
    PROVE  Skeleton(t) \o Common \o Metadata \in Seq(Planned)
BY SkeletonType, CommonType, MetadataType, ConcatProperties

-----------------------------------------------------------------------------
(* The inductive invariant: types.                                         *)

(* A command that has a method to add works on the file of one module.     *)
Adding(p) ==
    /\ method[p] # None =>
         /\ pc[p] \in {"write", "read", "append", "fill"}
         /\ target[p] \in Modules
         /\ goal[p] = {target[p]}
         /\ Paths(plan[p]) \subseteq {target[p]}
         /\ what[p] # "transition" => plan[p] = <<>> /\ pc[p] = "write"
    /\ what[p] = "transition" => method[p] # None
    /\ pc[p] \in {"read", "append"} => what[p] = "transition" /\ plan[p] = <<>>
    /\ pc[p] = "append" => text[p] \in Text
    /\ pc[p] = "fill" =>
         /\ target[p] \in Path /\ text[p] \in Text
         /\ plan[p] = <<>> => what[p] = "transition"

TypeInv == TypeOK /\ \A p \in Proc : Adding(p)

-----------------------------------------------------------------------------
(* The inductive invariant: one command at a time.                         *)

Sole == \E p \in Proc : \A q \in Proc : q = p

InPlace(f) == files[f] = Made \/ (f = ModulesGo /\ files[f] # Absent)

(* Every file of a command is still in its plan or in place.  A file that  *)
(* is being written is the first of the plan, or the module a method is    *)
(* appended to.  Nothing is reported before the end.                       *)
PlacedBy(p) ==
    /\ plan[p] \in Seq(Planned)
    /\ pc[p] \in {"prompt", "mkdir"} => goal[p] = Paths(plan[p])
    /\ pc[p] \in {"write", "fill"} /\ method[p] = None =>
         \A f \in goal[p] : f \in Paths(plan[p]) \/ InPlace(f)
    /\ pc[p] = "fill" =>
         /\ files[target[p]] = Empty
         /\ plan[p] # <<>> => target[p] = Head(plan[p]).path /\ text[p] = Made
         /\ plan[p] = <<>> => method[p] \in text[p].methods
    /\ pc[p] = "append" => /\ files[target[p]] # Absent
                           /\ text[p] = With(files[target[p]], method[p])
    /\ method[p] # None /\ what[p] # "transition" =>
         files[target[p]] # Absent /\ method[p] \in files[target[p]].methods
    /\ pc[p] # "idle" => told[p] = {}

(* A file is where nothing was agreed on if it is not there.  What a user  *)
(* did not let be replaced, and what was added, is in its file or in the   *)
(* text that is just being written to it.                                  *)
Metas == {Meta(k, n) : k \in Source, n \in Name}

Held(f) == f \in mine \cup cut \/ \E m \in Method : <<f, m>> \in added

Refilled(p, f) == pc[p] = "fill" /\ plan[p] = <<>> /\ target[p] = f

KeptBy(p) ==
    /\ \A f \in Path : files[f] # Absent => made
    /\ \A f \in Path : Held(f) => files[f] # Absent
    /\ \A f \in (mine \ cut) \ Metas :
         \/ files[f].by = "user"
         \/ Refilled(p, f) /\ text[p].by = "user"
    /\ \A a \in added : a[1] \notin cut =>
         \/ a[2] \in files[a[1]].methods
         \/ Refilled(p, a[1]) /\ a[2] \in text[p].methods
    /\ pc[p] \notin {"idle", "prompt"} =>
         \A f \in Paths(plan[p]) :
            /\ f \in mine => f \in Metas
            /\ \A m \in Method : <<f, m>> \notin added

PlaceInv == TypeInv /\ ReportedIsInPlace /\ \A p \in Proc : PlacedBy(p)

KeepInv == PlaceInv /\ mine \subseteq Editable /\ \A p \in Proc : KeptBy(p)

-----------------------------------------------------------------------------
(* Types.                                                                  *)

FilesOK ==
    /\ files \in [Path -> Text \cup {Absent}]
    /\ made \in BOOLEAN
    /\ mine \subseteq Path
    /\ added \subseteq Modules \X Method
    /\ cut \subseteq Modules
    /\ commands \in 0..MaxCommands
    /\ edits \in 0..MaxEdits

OwnOK ==
    /\ pc \in [Proc -> {"idle", "prompt", "mkdir", "write", "read", "append", "fill"}]
    /\ what \in [Proc -> {"add", "create", "unsupported", "transition"}]
    /\ plan \in [Proc -> Seq(Item)]
    /\ goal \in [Proc -> SUBSET Path]
    /\ target \in [Proc -> Path \cup {None}]
    /\ text \in [Proc -> Text \cup {None}]
    /\ method \in [Proc -> Method \cup {None}]

ReportOK ==
    /\ told \in [Proc -> SUBSET (Path \X (Method \cup {None}))]
    /\ refused \in [Proc -> SUBSET (Path \X Method)]

LEMMA TypeParts ==
    /\ TypeOK <=> FilesOK /\ OwnOK /\ ReportOK
    /\ TypeOK' <=> FilesOK' /\ OwnOK' /\ ReportOK'
BY DEF TypeOK, FilesOK, OwnOK, ReportOK

LEMMA TextType ==
    /\ Made \in Text /\ Empty \in Text
    /\ \A t \in Text : Scraps(t) \subseteq Text
    /\ \A t \in Text, m \in Method : With(t, m) \in Text
    /\ \A f \in Path : Texts(f) \subseteq Text \cup {Absent}
BY DEF Made, Empty, Text, Scraps, With, Texts

LEMMA OthersAdd ==
    ASSUME NEW q \in Proc, Adding(q),
           UNCHANGED <<pc[q], what[q], plan[q], goal[q], target[q], text[q], method[q]>>
    PROVE  Adding(q)'
BY DEF Adding

LEMMA ForgetType ==
    ASSUME TypeInv, NEW p \in Proc, Forget(p)
    PROVE  OwnOK' /\ \A q \in Proc : Adding(q)'
<1>0. OwnOK /\ \A q \in Proc : Adding(q)
  BY TypeParts DEF TypeInv
<1>1. OwnOK'
  BY <1>0, PathsEmpty DEF OwnOK, Forget
<1>2. pc'[p] = "idle" /\ what'[p] = "add" /\ method'[p] = None
  BY <1>0 DEF OwnOK, Forget
<1>3. Adding(p)'
  BY <1>2 DEF Adding
<1>4. ASSUME NEW q \in Proc, q # p
      PROVE  Adding(q)'
  <2>1. UNCHANGED <<pc[q], what[q], plan[q], goal[q], target[q], text[q], method[q]>>
    BY <1>0, <1>4 DEF OwnOK, Forget
  <2>. QED
    BY <1>0, <2>1, OthersAdd
<1>. QED
  BY <1>1, <1>3, <1>4

LEMMA FailType ==
    ASSUME TypeInv, NEW p \in Proc, Fail(p), FilesOK'
    PROVE  TypeInv'
<1>1. ReportOK'
  BY TypeParts DEF TypeInv, ReportOK, Fail, report
<1>. QED
  BY <1>1, ForgetType, TypeParts DEF Fail, TypeInv

(* What is done of a plan when a file cannot be written: the next way to   *)
(* write it comes first, or the command ends.                              *)
FallsBack(p, steps) ==
    /\ plan' = [plan EXCEPT ![p] = steps]
    /\ pc' = [pc EXCEPT ![p] = "write"]
    /\ text' = [text EXCEPT ![p] = None]
    /\ UNCHANGED <<what, goal, target, method, report, bounds>>

LEMMA GivingUp ==
    ASSUME OwnOK, NEW p \in Proc, GiveUp(p)
    PROVE  \/ Fail(p)
           \/ /\ plan[p] # <<>>
              /\ \E steps \in Seq(Item) :
                   /\ FallsBack(p, steps)
                   /\ Paths(steps) = Paths(plan[p])
                   /\ plan[p] \in Seq(Planned) => steps \in Seq(Planned)
<1>1. CASE plan[p] # <<>> /\ Current(p).via = "fallback"
  <2>. DEFINE item  == Plain(Current(p).path)
              steps == Instead(Current(p)) \o Tail(plan[p])
  <2>1. plan[p] \in Seq(Item)
    BY DEF OwnOK
  <2>2. Current(p) \in Item /\ Tail(plan[p]) \in Seq(Item)
        /\ Paths(plan[p]) = {Current(p).path} \cup Paths(Tail(plan[p]))
    BY <1>1, <2>1, PathsFirst DEF Current
  <2>3. item \in Planned /\ item \in Item /\ item.path = Current(p).path
    <3>1. Current(p).path \in Path
      BY <2>2 DEF Item
    <3>. QED
      BY <3>1, ItemType, PlannedSeq DEF Plain
  <2>. HIDE DEF item
  <2>4. steps \in Seq(Item) /\ Paths(steps) = Paths(plan[p])
    BY <2>2, <2>3, PathsBefore DEF Instead, item
  <2>5. plan[p] \in Seq(Planned) => steps \in Seq(Planned)
    <3>1. ASSUME plan[p] \in Seq(Planned)
          PROVE  steps \in Seq(Planned)
      <4>1. Tail(plan[p]) \in Seq(Planned)
        BY <1>1, <3>1, HeadTailProperties
      <4>2. <<item>> \in Seq(Planned)
        BY <2>3, PlannedSeq
      <4>. QED
        BY <4>1, <4>2, ConcatProperties DEF Instead, item
    <3>. QED
      BY <3>1
  <2>6. FallsBack(p, steps)
    BY <1>1 DEF GiveUp, FallsBack
  <2>. QED
    BY <1>1, <2>4, <2>5, <2>6
<1>2. CASE ~(plan[p] # <<>> /\ Current(p).via = "fallback")
  BY <1>2 DEF GiveUp
<1>. QED
  BY <1>1, <1>2

LEMMA GiveUpType ==
    ASSUME TypeInv, NEW p \in Proc, GiveUp(p), FilesOK'
    PROVE  TypeInv'
<1>0. OwnOK /\ ReportOK /\ \A q \in Proc : Adding(q)
  BY TypeParts DEF TypeInv
<1>1. ASSUME NEW steps \in Seq(Item), plan[p] # <<>>, FallsBack(p, steps),
             Paths(steps) = Paths(plan[p])
      PROVE  TypeInv'
  <2>1. OwnOK' /\ ReportOK'
    BY <1>0, <1>1 DEF OwnOK, ReportOK, report, FallsBack
  <2>2. pc'[p] = "write" /\ plan'[p] = steps
    BY <1>0, <1>1 DEF OwnOK, FallsBack
  <2>3. Adding(p)'
    BY <1>0, <1>1, <2>2 DEF Adding, FallsBack
  <2>4. ASSUME NEW q \in Proc, q # p
        PROVE  Adding(q)'
    <3>1. UNCHANGED <<pc[q], what[q], plan[q], goal[q], target[q], text[q], method[q]>>
      BY <1>0, <1>1, <2>4 DEF OwnOK, FallsBack
    <3>. QED
      BY <1>0, <3>1, OthersAdd
  <2>. QED
    BY <2>1, <2>3, <2>4, TypeParts DEF TypeInv
<1>. QED
  BY <1>0, <1>1, FailType, GivingUp

(* The plans of the commands.                                              *)
Starts(p, w, f, steps) ==
    /\ Begin(p, w, f, steps)
    /\ w \in {"add", "create", "unsupported"}
    /\ steps \in Seq(Planned)
    /\ w = "add" => f \in Path /\ Paths(steps) \subseteq {f} \cup Metas
    /\ w # "add" => f = None

LEMMA Starting ==
    ASSUME NEW p \in Proc,
           \/ \E n \in Name : \/ AddModule(p, n) \/ AddWorkflow(p, n)
                              \/ AddFeature(p, n) \/ AddSolution(p, n)
           \/ AddPackage(p)
           \/ \E t \in AppType \cup {"all"} : Create(p, t)
    PROVE  \E w, f, steps : Starts(p, w, f, steps)
<1>1. ASSUME NEW n \in Name, AddModule(p, n)
      PROVE  \E w, f, steps : Starts(p, w, f, steps)
  <2>. DEFINE f == Main("module", n)
  <2>1. f \in Path
    BY FilesAreInPath
  <2>. HIDE DEF f
  <2>2. <<Template(f)>> \in Seq(Planned) /\ Paths(<<Template(f)>>) = {f}
    BY <2>1, ItemType, PlannedSeq, PathsOne DEF Template
  <2>3. Begin(p, "add", f, <<Template(f)>>)
    BY <1>1 DEF AddModule, f
  <2>4. Starts(p, "add", f, <<Template(f)>>)
    BY <2>1, <2>2, <2>3 DEF Starts
  <2>. QED
    BY <2>4
<1>2. ASSUME NEW k \in Source, NEW n \in Name, Begin(p, "add", Main(k, n), SourceSteps(k, n))
      PROVE  \E w, f, steps : Starts(p, w, f, steps)
  <2>. DEFINE f == Main(k, n)
              g == Meta(k, n)
  <2>1. f \in Path /\ g \in Path /\ g \in Metas
    BY FilesAreInPath DEF Metas
  <2>2. SourceSteps(k, n) = <<Template(f), Plain(g)>>
    BY DEF SourceSteps
  <2>3. Begin(p, "add", f, <<Template(f), Plain(g)>>)
    BY <1>2, <2>2
  <2>. HIDE DEF f, g
  <2>4. <<Template(f), Plain(g)>> \in Seq(Planned) /\ Paths(<<Template(f), Plain(g)>>) = {f, g}
    <3>1. Template(f) \in Planned /\ Plain(g) \in Planned
      BY <2>1, ItemType
    <3>2. Template(f).path = f /\ Plain(g).path = g
      BY DEF Template, Plain
    <3>. QED
      BY <3>1, <3>2, PlannedSeq, PathsTwo
  <2>5. Starts(p, "add", f, <<Template(f), Plain(g)>>)
    BY <2>1, <2>3, <2>4 DEF Starts
  <2>. QED
    BY <2>5
<1>3. CASE AddPackage(p)
  <2>1. <<Fallback(Manifest)>> \in Seq(Planned) /\ Paths(<<Fallback(Manifest)>>) = {Manifest}
    BY FilesAreInPath, ItemType, PlannedSeq, PathsOne DEF Fallback
  <2>2. Starts(p, "add", Manifest, <<Fallback(Manifest)>>)
    BY <1>3, <2>1, FilesAreInPath DEF Starts, AddPackage
  <2>. QED
    BY <2>2
<1>4. ASSUME NEW t \in AppType \cup {"all"}, Create(p, t)
      PROVE  \E w, f, steps : Starts(p, w, f, steps)
  <2>1. CASE Supported(t)
    <3>1. Skeleton(t) \o Common \o Metadata \in Seq(Planned)
      BY <2>1, CreateType DEF Supported
    <3>2. Begin(p, "create", None, Skeleton(t) \o Common \o Metadata)
      BY <1>4, <2>1 DEF Create
    <3>3. Starts(p, "create", None, Skeleton(t) \o Common \o Metadata)
      BY <3>1, <3>2 DEF Starts
    <3>. QED
      BY <3>3
  <2>2. CASE ~Supported(t)
    <3>1. Begin(p, "unsupported", None, Metadata)
      BY <1>4, <2>2 DEF Create
    <3>2. Starts(p, "unsupported", None, Metadata)
      BY <3>1, MetadataType DEF Starts
    <3>. QED
      BY <3>2
  <2>. QED
    BY <2>1, <2>2
<1>. QED
  BY <1>1, <1>2, <1>3, <1>4 DEF AddWorkflow, AddFeature, AddSolution, Source

(* What is on the disk after a write that was not finished is a text, and  *)
(* what is then noted as cut is a module.                                  *)
LEMMA CutShortType ==
    ASSUME TypeInv, NEW p \in Proc, pc[p] = "fill", CutShort(p), UNCHANGED bounds
    PROVE  FilesOK'
<1>0. FilesOK /\ OwnOK /\ Adding(p)
  BY TypeParts DEF TypeInv
<1>1. text[p] \in Text /\ target[p] \in Path /\ (plan[p] = <<>> => target[p] \in Modules)
  BY <1>0 DEF Adding
<1>2. PICK t \in Scraps(text[p]) : files' = [files EXCEPT ![target[p]] = t]
  BY DEF CutShort
<1>3. t \in Text
  BY <1>1, <1>2, TextType
<1>4. files' \in [Path -> Text \cup {Absent}]
  BY <1>0, <1>1, <1>2, <1>3 DEF FilesOK
<1>5. cut' \subseteq Modules
  BY <1>0, <1>1 DEF FilesOK, CutShort
<1>. QED
  BY <1>0, <1>4, <1>5 DEF FilesOK, CutShort, bounds

LEMMA TypeStep == TypeInv /\ [Next]_vars => TypeInv'
<1> SUFFICES ASSUME TypeInv, [Next]_vars PROVE TypeInv'
  OBVIOUS
<1>0. FilesOK /\ OwnOK /\ ReportOK /\ \A q \in Proc : Adding(q)
  BY TypeParts DEF TypeInv
<1> USE ScaffoldAssumption
\* A step of p that keeps the types and what is said of p.
<1>1. ASSUME NEW p \in Proc, FilesOK', OwnOK', ReportOK', Adding(p)',
             \A q \in Proc \ {p} : UNCHANGED <<pc[q], what[q], plan[q], goal[q], target[q],
                                               text[q], method[q]>>
      PROVE  TypeInv'
  <2>1. ASSUME NEW q \in Proc, q # p
        PROVE  Adding(q)'
    <3>1. UNCHANGED <<pc[q], what[q], plan[q], goal[q], target[q], text[q], method[q]>>
      BY <1>1, <2>1
    <3>. QED
      BY <1>0, <3>1, OthersAdd
  <2>. QED
    BY <1>1, <2>1, TypeParts DEF TypeInv
<1>2. ASSUME NEW p \in Proc, NEW w, NEW f, NEW steps, Starts(p, w, f, steps)
      PROVE  TypeInv'
  <2>1. steps \in Seq(Item) /\ w \in {"add", "create", "unsupported"} /\ Begin(p, w, f, steps)
    BY <1>2, PlannedSeq DEF Starts
  <2>2. Paths(steps) \subseteq Path
    BY <2>1, PathsType
  <2>3. PICK l \in {"prompt", "mkdir", "write"} : pc' = [pc EXCEPT ![p] = l]
    BY <2>1 DEF Begin, First
  <2>4. FilesOK'
    <3>1. UNCHANGED history \/ Agree(Paths(steps))
      BY <2>1 DEF Begin
    <3>2. mine' \subseteq mine /\ added' \subseteq added /\ cut' \subseteq cut
      BY <3>1 DEF Agree, history
    <3>. QED
      BY <1>0, <2>1, <3>2 DEF FilesOK, Begin, disk
  <2>5. OwnOK' /\ ReportOK'
    BY <1>0, <2>1, <2>2, <2>3 DEF OwnOK, ReportOK, Begin
  <2>6. pc'[p] = l /\ what'[p] = w /\ method'[p] = None
    <3>1. method[p] = None
      BY <1>0, <2>1 DEF Adding, Begin
    <3>. QED
      BY <1>0, <2>1, <2>3, <3>1 DEF OwnOK, Begin
  <2>7. Adding(p)'
    BY <2>1, <2>6 DEF Adding
  <2>. QED
    BY <1>0, <1>1, <2>1, <2>3, <2>4, <2>5, <2>7 DEF Begin, OwnOK
<1>3. ASSUME NEW p \in Proc, NEW n \in Name, NEW m \in Method, AddTransition(p, n, m)
      PROVE  TypeInv'
  <2>. DEFINE f == Main("module", n)
              steps == IF files[f] = Absent THEN <<Fallback(f)>> ELSE <<>>
  <2>1. f \in Modules /\ f \in Path
    BY FilesAreInPath
  <2>2. steps \in Seq(Item) /\ Paths(steps) \subseteq {f}
    <3>. HIDE DEF f
    <3>. QED  BY <2>1, ItemType, PlannedSeq, PathsOne, PathsEmpty DEF Fallback
  <2>3. /\ commands < MaxCommands /\ commands' = commands + 1
        /\ what' = [what EXCEPT ![p] = "transition"]
        /\ plan' = [plan EXCEPT ![p] = steps]
        /\ goal' = [goal EXCEPT ![p] = {f}]
        /\ target' = [target EXCEPT ![p] = f]
        /\ method' = [method EXCEPT ![p] = m]
        /\ pc' = [pc EXCEPT ![p] = "write"]
        /\ told' = [told EXCEPT ![p] = {}]
        /\ refused' = [refused EXCEPT ![p] = {}]
        /\ UNCHANGED <<disk, text, history, edits>>
    BY <1>3 DEF AddTransition
  <2>. HIDE DEF f, steps
  <2>4. FilesOK'
    BY <1>0, <2>3 DEF FilesOK, disk, history
  <2>5. OwnOK' /\ ReportOK'
    BY <1>0, <2>1, <2>2, <2>3 DEF OwnOK, ReportOK
  <2>6. Adding(p)'
    <3>1. /\ pc'[p] = "write" /\ what'[p] = "transition" /\ plan'[p] = steps
          /\ goal'[p] = {f} /\ target'[p] = f /\ method'[p] = m
      BY <1>0, <2>3 DEF OwnOK
    <3>. QED
      BY <2>1, <2>2, <3>1 DEF Adding
  <2>. QED
    BY <1>0, <1>1, <2>3, <2>4, <2>5, <2>6 DEF OwnOK
<1>4. ASSUME NEW p \in Proc, Confirm(p)
      PROVE  TypeInv'
  <2>1. FilesOK'
    BY <1>0, <1>4 DEF Confirm, Agree, FilesOK, disk, bounds
  <2>2. PICK l \in {"mkdir", "write"} : pc' = [pc EXCEPT ![p] = l]
    BY <1>4 DEF Confirm, First
  <2>3. OwnOK' /\ ReportOK' /\ pc'[p] = l
    BY <1>0, <1>4, <2>2 DEF Confirm, OwnOK, ReportOK, command, report
  <2>4. Adding(p)'
    BY <1>0, <1>4, <2>3 DEF Confirm, Adding, command
  <2>. QED
    BY <1>0, <1>1, <1>4, <2>1, <2>2, <2>3, <2>4 DEF Confirm, OwnOK, command
<1>5. ASSUME NEW p \in Proc, Cancel(p)
      PROVE  TypeInv'
  <2>1. FilesOK'
    BY <1>0, <1>5 DEF Cancel, Fail, FilesOK, disk, history, bounds
  <2>. QED
    BY <1>5, <2>1, FailType DEF Cancel
<1>6. ASSUME NEW p \in Proc, MakeDirs(p)
      PROVE  TypeInv'
  <2>1. UNCHANGED bounds
    BY <1>6 DEF MakeDirs, Fail
  <2>2. FilesOK'
    BY <1>0, <1>6, <2>1 DEF MakeDirs, FilesOK, history, bounds
  <2>3. CASE what[p] = "create"
    <3>1. pc[p] = "mkdir" /\ pc' = [pc EXCEPT ![p] = "write"] /\ UNCHANGED <<command, report>>
      BY <1>6, <2>3 DEF MakeDirs
    <3>2. OwnOK' /\ ReportOK' /\ pc'[p] = "write"
      BY <1>0, <3>1 DEF OwnOK, ReportOK, command, report
    <3>3. Adding(p)'
      BY <1>0, <3>1, <3>2 DEF Adding, command
    <3>. QED
      BY <1>0, <1>1, <2>2, <3>1, <3>2, <3>3 DEF OwnOK, command
  <2>4. CASE what[p] # "create"
    BY <1>6, <2>2, <2>4, FailType DEF MakeDirs
  <2>. QED
    BY <2>3, <2>4
\* The plan of a process is not empty while it writes a file of it.
<1>7. ASSUME NEW p \in Proc, plan[p] # <<>>
      PROVE  /\ Current(p) \in Item /\ Current(p).path \in Path /\ Tail(plan[p]) \in Seq(Item)
             /\ Paths(plan[p]) = {Current(p).path} \cup Paths(Tail(plan[p]))
  <2>1. plan[p] \in Seq(Item)
    BY <1>0 DEF OwnOK
  <2>2. /\ Current(p) \in Item /\ Tail(plan[p]) \in Seq(Item)
        /\ Paths(plan[p]) = {Current(p).path} \cup Paths(Tail(plan[p]))
    BY <1>7, <2>1, PathsFirst DEF Current
  <2>. QED
    BY <2>2 DEF Item
<1>8. ASSUME NEW p \in Proc, Skip(p)
      PROVE  TypeInv'
  <2>1. /\ pc[p] = "write" /\ plan[p] # <<>> /\ plan' = [plan EXCEPT ![p] = Tail(plan[p])]
        /\ UNCHANGED <<disk, pc, what, goal, target, text, method, report, history, bounds>>
    BY <1>8 DEF Skip, Writing
  <2>2. FilesOK' /\ ReportOK'
    BY <1>0, <2>1 DEF FilesOK, ReportOK, disk, history, bounds, report
  <2>3. Tail(plan[p]) \in Seq(Item) /\ Paths(Tail(plan[p])) \subseteq Paths(plan[p])
    BY <1>7, <2>1
  <2>4. OwnOK' /\ plan'[p] = Tail(plan[p])
    BY <1>0, <2>1, <2>3 DEF OwnOK
  <2>5. Adding(p)'
    BY <1>0, <2>1, <2>3, <2>4 DEF Adding
  <2>. QED
    BY <1>0, <1>1, <2>1, <2>2, <2>4, <2>5 DEF OwnOK
<1>9. ASSUME NEW p \in Proc, OpenFile(p)
      PROVE  TypeInv'
  <2>. DEFINE f == Current(p).path
  <2>1. /\ pc[p] = "write" /\ plan[p] # <<>> /\ made' = TRUE
        /\ target' = [target EXCEPT ![p] = f]
        /\ text' = [text EXCEPT ![p] = Made]
        /\ files' = [files EXCEPT ![f] = Empty]
        /\ pc' = [pc EXCEPT ![p] = "fill"]
        /\ UNCHANGED <<what, plan, goal, method, report, history, bounds>>
    BY <1>9 DEF OpenFile, Writing
  <2>2. f \in Path /\ f \in Paths(plan[p])
    BY <1>7, <2>1
  <2>. HIDE DEF f
  <2>3. FilesOK' /\ ReportOK'
    BY <1>0, <2>1, <2>2, TextType DEF FilesOK, ReportOK, history, bounds, report
  <2>4. OwnOK' /\ target'[p] = f /\ text'[p] = Made /\ pc'[p] = "fill"
    BY <1>0, <2>1, <2>2, TextType DEF OwnOK
  <2>5. Adding(p)'
    BY <1>0, <2>1, <2>2, <2>4, TextType DEF Adding
  <2>. QED
    BY <1>0, <1>1, <2>1, <2>3, <2>4, <2>5 DEF OwnOK
<1>10. ASSUME NEW p \in Proc, Fill(p)
       PROVE  TypeInv'
  <2>. DEFINE steps == IF plan[p] = <<>> THEN <<>> ELSE Tail(plan[p])
              w == IF plan[p] = <<>> THEN "add" ELSE what[p]
  <2>1. /\ pc[p] = "fill"
        /\ plan' = [plan EXCEPT ![p] = steps]
        /\ what' = [what EXCEPT ![p] = w]
        /\ text' = [text EXCEPT ![p] = None]
        /\ pc' = [pc EXCEPT ![p] = "write"]
        /\ UNCHANGED <<made, goal, target, method, report, history, bounds>>
    BY <1>10 DEF Fill
  <2>2. target[p] \in Path /\ text[p] \in Text
    BY <1>0, <2>1 DEF Adding
  <2>3. PICK t \in Text : files' = [files EXCEPT ![target[p]] = t]
    BY <1>10, <2>2, TextType DEF Fill
  <2>4. steps \in Seq(Item) /\ Paths(steps) \subseteq Paths(plan[p])
    BY <1>7, PathsEmpty
  <2>5. (plan[p] = <<>> => steps = <<>> /\ w = "add") /\ (plan[p] # <<>> => w = what[p])
        /\ w \in {"add", "create", "unsupported", "transition"}
    BY <1>0 DEF OwnOK
  <2>. HIDE DEF steps, w
  <2>6. FilesOK' /\ ReportOK'
    BY <1>0, <2>1, <2>2, <2>3 DEF FilesOK, ReportOK, history, bounds, report
  <2>7. OwnOK' /\ plan'[p] = steps /\ what'[p] = w /\ pc'[p] = "write"
    BY <1>0, <2>1, <2>4, <2>5 DEF OwnOK
  <2>8. Adding(p)'
    <3>1. method[p] # None /\ w # "transition" => steps = <<>>
      BY <1>0, <2>1, <2>5 DEF Adding
    <3>. QED
      BY <1>0, <2>1, <2>4, <2>5, <2>7, <3>1 DEF Adding
  <2>. QED
    BY <1>0, <1>1, <2>1, <2>6, <2>7, <2>8 DEF OwnOK
<1>11. ASSUME NEW p \in Proc, OpenFailed(p)
       PROVE  TypeInv'
  <2>1. UNCHANGED bounds /\ GiveUp(p) /\ UNCHANGED <<disk, history>>
    BY <1>11 DEF OpenFailed, GiveUp, Fail
  <2>2. FilesOK'
    BY <1>0, <2>1 DEF FilesOK, disk, history, bounds
  <2>. QED
    BY <2>1, <2>2, GiveUpType
<1>12. ASSUME NEW p \in Proc, WriteFailed(p)
       PROVE  TypeInv'
  <2>1. UNCHANGED bounds /\ GiveUp(p) /\ CutShort(p) /\ pc[p] = "fill"
    BY <1>12 DEF WriteFailed, GiveUp, Fail
  <2>. QED
    BY <2>1, CutShortType, GiveUpType
<1>13. ASSUME NEW p \in Proc, Crash(p)
       PROVE  TypeInv'
  <2>1. UNCHANGED bounds /\ Fail(p)
    BY <1>13 DEF Crash, Fail
  <2>2. FilesOK'
    <3>1. CASE pc[p] = "fill"
      BY <1>13, <2>1, <3>1, CutShortType DEF Crash
    <3>2. CASE pc[p] # "fill"
      BY <1>0, <1>13, <2>1, <3>2 DEF Crash, FilesOK, disk, history, bounds
    <3>. QED
      BY <3>1, <3>2
  <2>. QED
    BY <2>1, <2>2, FailType
<1>14. ASSUME NEW p \in Proc, Read(p)
       PROVE  TypeInv'
  <2>1. /\ pc[p] = "write" /\ plan[p] = <<>> /\ what[p] = "transition"
        /\ pc' = [pc EXCEPT ![p] = "read"]
        /\ UNCHANGED <<disk, command, report, history, bounds>>
    BY <1>14 DEF Read
  <2>2. FilesOK' /\ ReportOK' /\ OwnOK' /\ pc'[p] = "read"
    BY <1>0, <2>1 DEF FilesOK, ReportOK, OwnOK, disk, history, bounds, report, command
  <2>3. Adding(p)'
    BY <1>0, <2>1, <2>2 DEF Adding, command
  <2>. QED
    BY <1>0, <1>1, <2>1, <2>2, <2>3 DEF OwnOK, command
<1>15. ASSUME NEW p \in Proc, AlreadyThere(p)
       PROVE  TypeInv'
  <2>1. target[p] \in Path /\ method[p] \in Method
    <3>1. what[p] = "transition" /\ method[p] # None /\ target[p] \in Modules
      BY <1>0, <1>15 DEF AlreadyThere, Adding
    <3>. QED
      BY <1>0, <3>1 DEF OwnOK, Modules, Path
  <2>2. ReportOK'
    BY <1>0, <1>15, <2>1 DEF AlreadyThere, ReportOK
  <2>3. FilesOK'
    BY <1>0, <1>15 DEF AlreadyThere, FilesOK, disk, history, bounds
  <2>. QED
    BY <1>15, <2>2, <2>3, ForgetType, TypeParts DEF AlreadyThere, TypeInv
<1>16. ASSUME NEW p \in Proc, Compose(p)
       PROVE  TypeInv'
  <2>. DEFINE t == With(files[target[p]], method[p])
  <2>1. target[p] \in Path /\ method[p] \in Method
    <3>1. what[p] = "transition" /\ method[p] # None /\ target[p] \in Modules
      BY <1>0, <1>16 DEF Compose, Adding
    <3>. QED
      BY <1>0, <3>1 DEF OwnOK, Modules, Path
  <2>2. t \in Text
    <3>1. files[target[p]] \in Text
      BY <1>0, <1>16, <2>1 DEF Compose, FilesOK
    <3>. QED
      BY <2>1, <3>1, TextType
  <2>3. /\ pc[p] = "read" /\ text' = [text EXCEPT ![p] = t] /\ pc' = [pc EXCEPT ![p] = "append"]
        /\ UNCHANGED <<disk, what, plan, goal, target, method, report, history, bounds>>
    BY <1>16 DEF Compose
  <2>. HIDE DEF t
  <2>4. FilesOK' /\ ReportOK' /\ OwnOK' /\ pc'[p] = "append" /\ text'[p] = t
    BY <1>0, <2>2, <2>3 DEF FilesOK, ReportOK, OwnOK, disk, history, bounds, report
  <2>5. Adding(p)'
    BY <1>0, <2>2, <2>3, <2>4 DEF Adding
  <2>. QED
    BY <1>0, <1>1, <2>3, <2>4, <2>5 DEF OwnOK
<1>17. ASSUME NEW p \in Proc, Truncate(p)
       PROVE  TypeInv'
  <2>1. /\ pc[p] = "append" /\ files' = [files EXCEPT ![target[p]] = Empty]
        /\ pc' = [pc EXCEPT ![p] = "fill"]
        /\ UNCHANGED <<made, command, report, history, bounds>>
    BY <1>17 DEF Truncate
  <2>2. FilesOK' /\ ReportOK' /\ OwnOK' /\ pc'[p] = "fill"
    BY <1>0, <2>1, TextType DEF FilesOK, ReportOK, OwnOK, history, bounds, report, command
  <2>3. target[p] \in Path
    BY <1>0, <2>1 DEF Adding, Modules, Path
  <2>4. Adding(p)'
    BY <1>0, <2>1, <2>2, <2>3 DEF Adding, command
  <2>. QED
    BY <1>0, <1>1, <2>1, <2>2, <2>4 DEF OwnOK, command
<1>18. ASSUME NEW p \in Proc, Report(p)
       PROVE  TypeInv'
  <2>1. goal[p] \X {method[p]} \subseteq Path \X (Method \cup {None})
    BY <1>0 DEF OwnOK
  <2>2. ReportOK'
    BY <1>0, <1>18, <2>1 DEF Report, ReportOK
  <2>3. FilesOK'
    <3>1. added' \subseteq Modules \X Method
      <4>1. CASE method[p] = None
        BY <1>0, <1>18, <4>1 DEF Report, FilesOK
      <4>2. CASE method[p] # None
        <5>1. target[p] \in Modules /\ method[p] \in Method
          BY <1>0, <4>2 DEF Adding, OwnOK
        <5>. QED
          BY <1>0, <1>18, <4>2, <5>1 DEF Report, FilesOK
      <4>. QED
        BY <4>1, <4>2
    <3>. QED
      BY <1>0, <1>18, <3>1 DEF Report, FilesOK, disk, bounds
  <2>. QED
    BY <1>18, <2>2, <2>3, ForgetType, TypeParts DEF Report, TypeInv
<1>19. ASSUME NEW f \in Editable, NEW t \in Texts(f), Edit(f, t)
       PROVE  TypeInv'
  <2>1. f \in Path /\ t \in Text \cup {Absent}
    <3>1. f \in Path
      OBVIOUS
    <3>. QED
      BY <3>1, TextType
  <2>2. FilesOK'
    BY <1>0, <1>19, <2>1 DEF Edit, FilesOK
  <2>3. OwnOK' /\ ReportOK'
    BY <1>0, <1>19 DEF Edit, OwnOK, ReportOK, command
  <2>4. \A q \in Proc : Adding(q)'
    BY <1>0, <1>19, OthersAdd DEF Edit, command
  <2>. QED
    BY <2>2, <2>3, <2>4, TypeParts DEF TypeInv
<1>20. CASE UNCHANGED vars
  <2>1. FilesOK' /\ OwnOK' /\ ReportOK'
    BY <1>0, <1>20 DEF vars, FilesOK, OwnOK, ReportOK, disk, command, report, history, bounds
  <2>2. \A q \in Proc : Adding(q)'
    BY <1>0, <1>20, OthersAdd DEF vars, command
  <2>. QED
    BY <2>1, <2>2, TypeParts DEF TypeInv
<1>21. ASSUME NEW p \in Proc, Step(p)
       PROVE  TypeInv'
  <2>1. \/ \E w, f, steps : Starts(p, w, f, steps)
        \/ \E n \in Name, m \in Method : AddTransition(p, n, m)
        \/ Confirm(p) \/ Cancel(p) \/ MakeDirs(p)
        \/ Skip(p) \/ OpenFile(p) \/ Fill(p) \/ OpenFailed(p) \/ WriteFailed(p) \/ Crash(p)
        \/ Read(p) \/ AlreadyThere(p) \/ Compose(p) \/ Truncate(p) \/ Report(p)
    BY <1>21, Starting DEF Step
  <2>. QED
    BY <2>1, <1>2, <1>3, <1>4, <1>5, <1>6, <1>8, <1>9, <1>10, <1>11, <1>12, <1>13, <1>14,
       <1>15, <1>16, <1>17, <1>18
<1>. QED
  BY <1>19, <1>20, <1>21 DEF Next, Finished

LEMMA TypeInit == Init => TypeInv
<1>1. Init => FilesOK /\ OwnOK /\ ReportOK
  BY ScaffoldAssumption, PathsEmpty DEF Init, FilesOK, OwnOK, ReportOK
<1>2. Init => \A p \in Proc : Adding(p)
  BY DEF Init, Adding
<1>. QED
  BY <1>1, <1>2, TypeParts DEF TypeInv

(* Whatever fails and wherever a command dies, alone or with others, what  *)
(* it writes to is a file of the project, and a command that appends a     *)
(* method works on a module and has the text to write when it writes it.   *)
THEOREM ScaffoldTypeCorrect == Spec => []TypeOK
<1>1. TypeInv => TypeOK
  BY DEF TypeInv
<1>. QED
  BY <1>1, TypeInit, TypeStep, PTL DEF Spec

-----------------------------------------------------------------------------
(* What is reported is in place.                                           *)

(* The facts about p that PlaceInv stands for.                             *)
LEMMA PlaceFacts ==
    ASSUME PlaceInv, NEW p \in Proc
    PROVE  FilesOK /\ OwnOK /\ ReportOK /\ Adding(p) /\ PlacedBy(p)
BY TypeParts DEF PlaceInv, TypeInv

(* A file that is in place stays there when another one is written, and    *)
(* the file just written is in place when its text is kue's.               *)
LEMMA InPlaceStays ==
    ASSUME FilesOK, NEW f \in Path, NEW g \in Path, InPlace(f), f # g,
           NEW t, files' = [files EXCEPT ![g] = t]
    PROVE  InPlace(f)'
BY DEF FilesOK, InPlace

(* A command that goes on has reported nothing yet.                        *)
LEMMA PlaceGoesOn ==
    ASSUME Sole, TypeInv', NEW p \in Proc, PlacedBy(p)', told'[p] = {}
    PROVE  PlaceInv'
<1>1. \A q \in Proc : q = p
  BY DEF Sole
<1>2. \A q \in Proc : told'[q] = {}
  BY <1>1
<1>3. ReportedIsInPlace'
  BY <1>2 DEF ReportedIsInPlace
<1>4. \A q \in Proc : PlacedBy(q)'
  BY <1>1
<1>. QED
  BY <1>3, <1>4 DEF PlaceInv

LEMMA ForgetPlaces ==
    ASSUME OwnOK, NEW p \in Proc, Forget(p)
    PROVE  PlacedBy(p)' /\ pc'[p] = "idle"
<1>1. pc'[p] = "idle" /\ what'[p] = "add" /\ method'[p] = None /\ plan'[p] = <<>>
  BY DEF OwnOK, Forget
<1>. QED
  BY <1>1, PlannedSeq DEF PlacedBy

LEMMA FailPlaces ==
    ASSUME Sole, PlaceInv, TypeInv', NEW p \in Proc, pc[p] # "idle", Fail(p)
    PROVE  PlaceInv'
<1>1. told'[p] = {}
  BY PlaceFacts DEF PlacedBy, Fail, report
<1>. QED
  BY <1>1, PlaceFacts, ForgetPlaces, PlaceGoesOn DEF Fail

LEMMA GiveUpPlaces ==
    ASSUME Sole, PlaceInv, TypeInv', NEW p \in Proc, pc[p] # "idle", GiveUp(p),
           plan[p] # <<>> /\ method[p] = None =>
             \A f \in goal[p] : f \in Paths(plan[p]) \/ InPlace(f)'
    PROVE  PlaceInv'
<1>0. OwnOK /\ PlacedBy(p)
  BY PlaceFacts
<1>1. ASSUME NEW steps \in Seq(Item), plan[p] # <<>>, FallsBack(p, steps),
             Paths(steps) = Paths(plan[p]), plan[p] \in Seq(Planned) => steps \in Seq(Planned)
      PROVE  PlaceInv'
  <2>1. /\ pc'[p] = "write" /\ plan'[p] = steps
        /\ UNCHANGED <<what, goal, target, method, report>>
    BY <1>0, <1>1 DEF OwnOK, FallsBack
  <2>2. told'[p] = {}
    BY <1>0, <2>1 DEF PlacedBy, report
  <2>3. Adding(p)'
    BY DEF TypeInv
  <2>4. ~(method[p] # None /\ what[p] # "transition")
    <3>1. Adding(p)
      BY PlaceFacts
    <3>. QED
      BY <1>1, <3>1 DEF Adding
  <2>5. plan'[p] \in Seq(Planned)
    BY <1>0, <1>1, <2>1 DEF PlacedBy
  <2>6. method'[p] = None => \A f \in goal'[p] : f \in Paths(plan'[p]) \/ InPlace(f)'
    BY <1>1, <2>1
  <2>7. PlacedBy(p)'
    BY <2>1, <2>2, <2>4, <2>5, <2>6 DEF PlacedBy, InPlace
  <2>. QED
    BY <2>2, <2>7, PlaceGoesOn
<1>. QED
  BY <1>0, <1>1, FailPlaces, GivingUp

(* A process writes the first file of its plan, or appends.                *)
LEMMA Filling ==
    ASSUME PlaceInv, NEW p \in Proc, pc[p] = "fill"
    PROVE  /\ target[p] \in Path /\ text[p] \in Text
           /\ files[target[p]] = Empty
           /\ plan[p] # <<>> => target[p] \in Paths(plan[p]) /\ text[p] = Made
           /\ plan[p] = <<>> => /\ what[p] = "transition" /\ method[p] # None
                               /\ method[p] \in text[p].methods
                               /\ target[p] \in Modules
<1>1. Adding(p) /\ PlacedBy(p) /\ plan[p] \in Seq(Item)
  BY PlaceFacts DEF OwnOK
<1>2. plan[p] # <<>> => Head(plan[p]).path \in Paths(plan[p])
  BY <1>1, PathsFirst
<1>. QED
  BY <1>1, <1>2 DEF Adding, PlacedBy

(* With one process nobody writes to the file it has opened.               *)
LEMMA FillsWith ==
    ASSUME PlaceInv, NEW p \in Proc, Fill(p)
    PROVE  files' = [files EXCEPT ![target[p]] = text[p]]
BY Filling DEF Fill

LEMMA CutShortPlaces ==
    ASSUME Sole, PlaceInv, NEW p \in Proc, pc[p] = "fill", CutShort(p),
           plan[p] # <<>>, method[p] = None, NEW f \in goal[p]
    PROVE  f \in Paths(plan[p]) \/ InPlace(f)'
<1>1. FilesOK /\ PlacedBy(p) /\ f \in Path
  BY PlaceFacts DEF OwnOK
<1>2. target[p] \in Path /\ target[p] \in Paths(plan[p])
  BY Filling
<1>3. PICK t : files' = [files EXCEPT ![target[p]] = t]
  BY DEF CutShort
<1>4. f \in Paths(plan[p]) \/ InPlace(f)
  BY <1>1 DEF PlacedBy
<1>. QED
  BY <1>1, <1>2, <1>3, <1>4, InPlaceStays

LEMMA PlaceStep ==
    ASSUME Sole, PlaceInv, [Next]_vars
    PROVE  PlaceInv'
<1>0. TypeInv'
  BY TypeStep DEF PlaceInv
<1>1. \A q \in Proc : OwnOK /\ FilesOK /\ Adding(q) /\ Adding(q)' /\ PlacedBy(q)
  BY <1>0, PlaceFacts DEF TypeInv
<1> USE ScaffoldAssumption
<1>2. ASSUME NEW p \in Proc, NEW w, NEW f, NEW steps, Starts(p, w, f, steps)
      PROVE  PlaceInv'
  <2>1. steps \in Seq(Planned) /\ w \in {"add", "create", "unsupported"}
        /\ Begin(p, w, f, steps) /\ method[p] = None
    BY <1>1, <1>2 DEF Starts, Begin, Adding
  <2>2. PICK l \in {"prompt", "mkdir", "write"} : pc' = [pc EXCEPT ![p] = l]
    BY <2>1 DEF Begin, First
  <2>3. /\ pc'[p] = l /\ plan'[p] = steps /\ goal'[p] = Paths(steps) /\ method'[p] = None
        /\ told'[p] = {}
    <3>1. told \in [Proc -> SUBSET (Path \X (Method \cup {None}))]
      BY PlaceFacts DEF ReportOK
    <3>. QED
      BY <1>1, <2>1, <2>2, <3>1 DEF Begin, OwnOK
  <2>4. PlacedBy(p)'
    BY <2>1, <2>3 DEF PlacedBy
  <2>. QED
    BY <1>0, <2>3, <2>4, PlaceGoesOn
<1>3. ASSUME NEW p \in Proc, NEW n \in Name, NEW m \in Method, AddTransition(p, n, m)
      PROVE  PlaceInv'
  <2>. DEFINE f == Main("module", n)
              steps == IF files[f] = Absent THEN <<Fallback(f)>> ELSE <<>>
  <2>1. f \in Path
    BY FilesAreInPath
  <2>2. steps \in Seq(Planned)
    <3>. HIDE DEF f
    <3>. QED  BY <2>1, ItemType, PlannedSeq
  <2>3. /\ what' = [what EXCEPT ![p] = "transition"]
        /\ plan' = [plan EXCEPT ![p] = steps]
        /\ method' = [method EXCEPT ![p] = m]
        /\ pc' = [pc EXCEPT ![p] = "write"]
        /\ told' = [told EXCEPT ![p] = {}]
    BY <1>3 DEF AddTransition
  <2>. HIDE DEF f, steps
  <2>4. /\ pc'[p] = "write" /\ plan'[p] = steps /\ what'[p] = "transition" /\ method'[p] = m
        /\ told'[p] = {}
    <3>1. told \in [Proc -> SUBSET (Path \X (Method \cup {None}))]
      BY PlaceFacts DEF ReportOK
    <3>. QED
      BY <1>1, <2>3, <3>1 DEF OwnOK
  <2>5. PlacedBy(p)'
    BY <2>2, <2>4 DEF PlacedBy
  <2>. QED
    BY <1>0, <2>4, <2>5, PlaceGoesOn
\* What goes on without a report.
<1>4. ASSUME NEW p \in Proc, pc[p] # "idle", UNCHANGED told
      PROVE  told'[p] = {}
  BY <1>1, <1>4 DEF PlacedBy
<1>5. ASSUME NEW p \in Proc, Confirm(p)
      PROVE  PlaceInv'
  <2>1. /\ pc'[p] \in {"mkdir", "write"} /\ pc[p] = "prompt" /\ method[p] = None
        /\ UNCHANGED <<disk, command, report>>
    BY <1>1, <1>5 DEF Confirm, First, OwnOK, Adding
  <2>2. told'[p] = {}
    BY <1>4, <2>1 DEF report
  <2>3. PlacedBy(p)'
    BY <1>1, <2>1, <2>2 DEF PlacedBy, command, disk
  <2>. QED
    BY <1>0, <2>2, <2>3, PlaceGoesOn
<1>6. ASSUME NEW p \in Proc, Cancel(p)
      PROVE  PlaceInv'
  BY <1>0, <1>6, FailPlaces DEF Cancel
<1>7. ASSUME NEW p \in Proc, MakeDirs(p)
      PROVE  PlaceInv'
  <2>1. CASE what[p] = "create"
    <3>1. /\ pc'[p] = "write" /\ pc[p] = "mkdir" /\ method[p] = None
          /\ UNCHANGED <<files, command, report>>
      BY <1>1, <1>7, <2>1 DEF MakeDirs, OwnOK, Adding
    <3>2. told'[p] = {}
      BY <1>4, <3>1 DEF report
    <3>3. PlacedBy(p)'
      BY <1>1, <3>1, <3>2 DEF PlacedBy, command
    <3>. QED
      BY <1>0, <3>2, <3>3, PlaceGoesOn
  <2>2. CASE what[p] # "create"
    BY <1>0, <1>7, <2>2, FailPlaces DEF MakeDirs
  <2>. QED
    BY <2>1, <2>2
\* The first file of a plan.
<1>8. ASSUME NEW p \in Proc, plan[p] # <<>>
      PROVE  /\ Current(p) \in Planned /\ Current(p).path \in Path
             /\ Current(p).path \in Paths(plan[p])
             /\ Tail(plan[p]) \in Seq(Planned)
             /\ Paths(plan[p]) = {Current(p).path} \cup Paths(Tail(plan[p]))
             /\ ~(method[p] # None /\ what[p] # "transition")
  <2>1. plan[p] \in Seq(Item) /\ plan[p] \in Seq(Planned)
    BY <1>1 DEF OwnOK, PlacedBy
  <2>2. Current(p) \in Planned /\ Tail(plan[p]) \in Seq(Planned)
    BY <1>8, <2>1, HeadTailProperties DEF Current
  <2>3. /\ Current(p) \in Item
        /\ Paths(plan[p]) = {Current(p).path} \cup Paths(Tail(plan[p]))
    BY <1>8, <2>1, PathsFirst DEF Current
  <2>4. ~(method[p] # None /\ what[p] # "transition")
    BY <1>1, <1>8 DEF Adding
  <2>. QED
    BY <2>2, <2>3, <2>4 DEF Item
<1>9. ASSUME NEW p \in Proc, Skip(p)
      PROVE  PlaceInv'
  <2>1. /\ pc[p] = "write" /\ plan[p] # <<>> /\ Keeps(Current(p))
        /\ plan' = [plan EXCEPT ![p] = Tail(plan[p])]
        /\ UNCHANGED <<files, pc, what, goal, target, text, method, told>>
    BY <1>9 DEF Skip, Writing, disk, report
  <2>2. plan'[p] = Tail(plan[p]) /\ told'[p] = {}
    BY <1>1, <1>4, <2>1 DEF OwnOK
  <2>3. InPlace(Current(p).path)
    BY <1>8, <2>1 DEF Keeps, Planned, InPlace
  <2>4. method[p] = None => \A f \in goal[p] : f \in Paths(Tail(plan[p])) \/ InPlace(f)
    BY <1>1, <1>8, <2>1, <2>3 DEF PlacedBy
  <2>5. PlacedBy(p)'
    BY <1>1, <1>8, <2>1, <2>2, <2>4 DEF PlacedBy, InPlace
  <2>. QED
    BY <1>0, <2>2, <2>5, PlaceGoesOn
<1>10. ASSUME NEW p \in Proc, OpenFile(p)
       PROVE  PlaceInv'
  <2>. DEFINE f == Current(p).path
  <2>1. /\ pc[p] = "write" /\ plan[p] # <<>>
        /\ target' = [target EXCEPT ![p] = f]
        /\ text' = [text EXCEPT ![p] = Made]
        /\ files' = [files EXCEPT ![f] = Empty]
        /\ pc' = [pc EXCEPT ![p] = "fill"]
        /\ UNCHANGED <<what, plan, goal, method, told>>
    BY <1>10 DEF OpenFile, Writing, report
  <2>2. f \in Path /\ f \in Paths(plan[p]) /\ f = Head(plan[p]).path
        /\ ~(method[p] # None /\ what[p] # "transition")
    BY <1>8, <2>1 DEF Current
  <2>. HIDE DEF f
  <2>3. /\ pc'[p] = "fill" /\ target'[p] = f /\ text'[p] = Made /\ told'[p] = {}
        /\ files'[f] = Empty
    BY <1>1, <1>4, <2>1, <2>2 DEF OwnOK, FilesOK
  <2>4. ASSUME method[p] = None, NEW g \in goal[p], g \notin Paths(plan[p])
        PROVE  InPlace(g)'
    <3>1. InPlace(g) /\ g # f /\ g \in Path
      BY <1>1, <2>1, <2>2, <2>4 DEF PlacedBy, OwnOK
    <3>. QED
      BY <1>1, <2>1, <2>2, <3>1, InPlaceStays
  <2>5. PlacedBy(p)'
    BY <1>1, <2>1, <2>2, <2>3, <2>4 DEF PlacedBy, InPlace
  <2>. QED
    BY <1>0, <2>3, <2>5, PlaceGoesOn
<1>11. ASSUME NEW p \in Proc, Fill(p)
       PROVE  PlaceInv'
  <2>0. files' = [files EXCEPT ![target[p]] = text[p]]
    BY <1>11, FillsWith
  <2>1. /\ pc[p] = "fill"
        /\ pc' = [pc EXCEPT ![p] = "write"]
        /\ UNCHANGED <<goal, target, method, told>>
    BY <1>11 DEF Fill, report
  <2>2. /\ target[p] \in Path /\ text[p] \in Text
        /\ plan[p] # <<>> => target[p] \in Paths(plan[p]) /\ text[p] = Made
        /\ plan[p] = <<>> => method[p] # None /\ method[p] \in text[p].methods
    BY <2>1, Filling
  <2>3. pc'[p] = "write" /\ told'[p] = {} /\ files'[target[p]] = text[p] /\ text[p] # Absent
    BY <1>1, <1>4, <2>0, <2>1, <2>2 DEF OwnOK, FilesOK
  <2>4. CASE plan[p] = <<>>
    <3>1. plan'[p] = <<>> /\ method'[p] # None
      BY <1>1, <1>11, <2>1, <2>2, <2>4 DEF Fill, OwnOK
    <3>2. PlacedBy(p)'
      BY <2>1, <2>2, <2>3, <2>4, <3>1, PlannedSeq DEF PlacedBy
    <3>. QED
      BY <1>0, <2>3, <3>2, PlaceGoesOn
  <2>5. CASE plan[p] # <<>>
    <3>1. plan'[p] = Tail(plan[p]) /\ what'[p] = what[p]
      BY <1>1, <1>11, <2>5 DEF Fill, OwnOK
    <3>2. target[p] = Current(p).path
      BY <1>1, <2>1, <2>5 DEF PlacedBy, Current
    <3>3. ASSUME method[p] = None, NEW g \in goal[p], g \notin Paths(Tail(plan[p]))
          PROVE  InPlace(g)'
      <4>1. CASE g = target[p]
        BY <2>2, <2>3, <2>5, <4>1 DEF InPlace, Made
      <4>2. CASE g # target[p]
        <5>1. InPlace(g) /\ g \in Path
          BY <1>1, <1>8, <2>1, <2>5, <3>2, <3>3, <4>2 DEF PlacedBy, OwnOK
        <5>. QED
          BY <1>1, <2>0, <2>2, <4>2, <5>1, InPlaceStays
      <4>. QED
        BY <4>1, <4>2
    <3>4. PlacedBy(p)'
      BY <1>8, <2>1, <2>3, <2>5, <3>1, <3>3 DEF PlacedBy, InPlace
    <3>. QED
      BY <1>0, <2>3, <3>4, PlaceGoesOn
  <2>. QED
    BY <2>4, <2>5
<1>12. ASSUME NEW p \in Proc, OpenFailed(p)
       PROVE  PlaceInv'
  <2>1. pc[p] \in {"write", "read", "append"} /\ GiveUp(p) /\ UNCHANGED files
    BY <1>12 DEF OpenFailed, Writing, disk
  <2>2. plan[p] # <<>> => pc[p] = "write"
    BY <1>1, <2>1 DEF Adding
  <2>3. plan[p] # <<>> /\ method[p] = None =>
          \A f \in goal[p] : f \in Paths(plan[p]) \/ InPlace(f)'
    BY <1>1, <2>1, <2>2 DEF PlacedBy, InPlace
  <2>. QED
    BY <1>0, <2>1, <2>3, GiveUpPlaces
<1>13. ASSUME NEW p \in Proc, WriteFailed(p)
       PROVE  PlaceInv'
  <2>1. pc[p] = "fill" /\ CutShort(p) /\ GiveUp(p)
    BY <1>13 DEF WriteFailed
  <2>2. plan[p] # <<>> /\ method[p] = None =>
          \A f \in goal[p] : f \in Paths(plan[p]) \/ InPlace(f)'
    BY <2>1, CutShortPlaces
  <2>. QED
    BY <1>0, <2>1, <2>2, GiveUpPlaces
<1>14. ASSUME NEW p \in Proc, Crash(p)
       PROVE  PlaceInv'
  BY <1>0, <1>14, FailPlaces DEF Crash
<1>15. ASSUME NEW p \in Proc, Read(p)
       PROVE  PlaceInv'
  <2>1. /\ pc[p] = "write" /\ what[p] = "transition" /\ pc'[p] = "read"
        /\ UNCHANGED <<files, what, plan, goal, target, text, method, told>>
    BY <1>1, <1>15 DEF Read, OwnOK, disk, command, report
  <2>2. told'[p] = {}
    BY <1>4, <2>1
  <2>3. PlacedBy(p)'
    BY <1>1, <2>1, <2>2 DEF PlacedBy
  <2>. QED
    BY <1>0, <2>2, <2>3, PlaceGoesOn
<1>16. ASSUME NEW p \in Proc, AlreadyThere(p)
       PROVE  PlaceInv'
  <2>1. told'[p] = {}
    BY <1>4, <1>16 DEF AlreadyThere
  <2>. QED
    BY <1>0, <1>1, <1>16, <2>1, ForgetPlaces, PlaceGoesOn DEF AlreadyThere
<1>17. ASSUME NEW p \in Proc, Compose(p)
       PROVE  PlaceInv'
  <2>1. /\ pc[p] = "read" /\ pc'[p] = "append" /\ what[p] = "transition"
        /\ files[target[p]] # Absent /\ text'[p] = With(files[target[p]], method[p])
        /\ UNCHANGED <<files, what, plan, goal, target, method, told>>
    BY <1>1, <1>17 DEF Compose, OwnOK, Adding, disk, report
  <2>2. told'[p] = {}
    BY <1>4, <2>1
  <2>3. PlacedBy(p)'
    BY <1>1, <2>1, <2>2 DEF PlacedBy, With
  <2>. QED
    BY <1>0, <2>2, <2>3, PlaceGoesOn
<1>18. ASSUME NEW p \in Proc, Truncate(p)
       PROVE  PlaceInv'
  <2>1. /\ pc[p] = "append" /\ pc'[p] = "fill" /\ plan[p] = <<>> /\ what[p] = "transition"
        /\ method[p] # None /\ target[p] \in Path
        /\ UNCHANGED <<what, plan, goal, target, text, method, told>>
    BY <1>1, <1>18 DEF Truncate, OwnOK, Adding, command, report, Modules, Path
  <2>2. told'[p] = {} /\ files'[target[p]] = Empty
    BY <1>1, <1>4, <1>18, <2>1 DEF Truncate, FilesOK
  <2>3. method[p] \in text[p].methods
    <3>1. files[target[p]] \in Text /\ text[p] = With(files[target[p]], method[p])
      BY <1>1, <2>1 DEF PlacedBy, FilesOK
    <3>. QED
      BY <3>1 DEF With, Text
  <2>4. PlacedBy(p)'
    BY <1>1, <2>1, <2>2, <2>3 DEF PlacedBy
  <2>. QED
    BY <1>0, <2>2, <2>4, PlaceGoesOn
<1>19. ASSUME NEW p \in Proc, Report(p)
       PROVE  PlaceInv'
  <2>1. /\ pc[p] = "write" /\ plan[p] = <<>> /\ what[p] # "transition" /\ Forget(p)
        /\ told' = [told EXCEPT ![p] = goal[p] \X {method[p]}] /\ UNCHANGED files
    BY <1>19 DEF Report, disk
  <2>2. told'[p] = goal[p] \X {method[p]}
    <3>1. told \in [Proc -> SUBSET (Path \X (Method \cup {None}))]
      BY PlaceFacts DEF ReportOK
    <3>. QED
      BY <2>1, <3>1
  <2>3. ASSUME NEW f \in goal[p], method[p] = None
        PROVE  InPlace(f)
    BY <1>1, <2>1, <2>3, PathsEmpty DEF PlacedBy
  <2>4. ASSUME NEW f \in goal[p], method[p] # None
        PROVE  files[f] # Absent /\ method[p] \in files[f].methods
    <3>1. f = target[p]
      BY <1>1, <2>4 DEF Adding
    <3>. QED
      BY <1>1, <2>1, <2>4, <3>1 DEF PlacedBy
  <2>5. Made # Absent
    BY TextType
  <2>6. \A q \in Proc : q = p
    BY DEF Sole
  <2>7. ReportedIsInPlace'
    <3>. SUFFICES ASSUME NEW f \in goal[p]
         PROVE  IF method[p] # None THEN files[f] # Absent /\ method[p] \in files[f].methods
                ELSE IF f = ModulesGo THEN files[f] # Absent
                ELSE files[f] = Made
      BY <2>1, <2>2, <2>6 DEF ReportedIsInPlace
    <3>. QED
      BY <2>3, <2>4, <2>5 DEF InPlace
  <2>8. \A q \in Proc : PlacedBy(q)'
    BY <1>1, <2>1, <2>6, ForgetPlaces
  <2>. QED
    BY <1>0, <2>7, <2>8 DEF PlaceInv
<1>20. ASSUME NEW f \in Editable, NEW t \in Texts(f), Edit(f, t)
       PROVE  PlaceInv'
  <2>1. ReportedIsInPlace'
    BY <1>20 DEF Edit, ReportedIsInPlace
  <2>2. ASSUME NEW q \in Proc
        PROVE  PlacedBy(q)'
    <3>1. /\ pc[q] \in {"idle", "prompt"} /\ told'[q] = {}
          /\ UNCHANGED <<pc, what, plan, goal, target, text, method>>
      BY <1>20 DEF Edit, command
    <3>2. method[q] = None
      BY <1>1, <3>1 DEF Adding
    <3>. QED
      BY <1>1, <3>1, <3>2 DEF PlacedBy
  <2>. QED
    BY <1>0, <2>1, <2>2 DEF PlaceInv
<1>21. CASE UNCHANGED vars
  <2>1. \A q \in Proc : PlacedBy(q)'
    BY <1>1, <1>21 DEF PlacedBy, InPlace, vars, disk, command, report
  <2>2. ReportedIsInPlace'
    BY <1>21 DEF PlaceInv, ReportedIsInPlace, vars, disk, report
  <2>. QED
    BY <1>0, <2>1, <2>2 DEF PlaceInv
<1>22. ASSUME NEW p \in Proc, Step(p)
       PROVE  PlaceInv'
  BY <1>22, Starting, <1>2, <1>3, <1>5, <1>6, <1>7, <1>9, <1>10, <1>11, <1>12, <1>13, <1>14,
     <1>15, <1>16, <1>17, <1>18, <1>19 DEF Step
<1>. QED
  BY <1>20, <1>21, <1>22 DEF Next, Finished

(* What a command reports is in place: every file of a new project and the *)
(* metadata of a source, whichever template or write failed on the way     *)
(* (GenerateCommonFiles and the callers of WriteTemplateToFile), and the   *)
(* method that was added.  One command at a time: another one may replace  *)
(* what the first has written before it reports it.                        *)
THEOREM ReportsAreInPlace == ASSUME Sole PROVE Spec => []ReportedIsInPlace
<1>1. Init => PlaceInv
  <2>1. Init => TypeInv
    BY TypeInit
  <2>. QED
    BY <2>1, PlannedSeq DEF Init, PlaceInv, ReportedIsInPlace, PlacedBy
<1>2. PlaceInv /\ [Next]_vars => PlaceInv'
  <2>1. CASE Next
    BY <2>1, PlaceStep
  <2>. QED
    BY PlaceStep
<1>3. PlaceInv => ReportedIsInPlace
  BY DEF PlaceInv
<1>. QED
  BY <1>1, <1>2, <1>3, PTL DEF Spec

-----------------------------------------------------------------------------
(* What users wrote and what was added stays.                              *)

LEMMA KeepFacts ==
    ASSUME KeepInv, NEW p \in Proc
    PROVE  /\ FilesOK /\ OwnOK /\ Adding(p) /\ PlacedBy(p) /\ KeptBy(p)
           /\ mine \subseteq Editable
           /\ \A a \in added : a = <<a[1], a[2]>> /\ a[1] \in Path /\ a[2] \in Method
<1>1. FilesOK /\ OwnOK /\ Adding(p) /\ PlacedBy(p)
  BY PlaceFacts DEF KeepInv
<1>2. \A a \in added : a = <<a[1], a[2]>> /\ a[1] \in Modules /\ a[2] \in Method
  BY <1>1 DEF FilesOK
<1>. QED
  BY <1>1, <1>2, FilesAreInPath DEF KeepInv, Modules, Path

LEMMA KeepGoesOn ==
    ASSUME Sole, PlaceInv', mine' \subseteq Editable, NEW p \in Proc, KeptBy(p)'
    PROVE  KeepInv'
<1>1. \A q \in Proc : q = p
  BY DEF Sole
<1>. QED
  BY <1>1 DEF KeepInv

(* The plan of a command that writes.                                      *)
Clear(paths) ==
    \A f \in paths : /\ f \in mine => f \in Metas
                    /\ \A m \in Method : <<f, m>> \notin added

LEMMA KeptIsClear ==
    ASSUME NEW p \in Proc
    PROVE  KeptBy(p) <=>
             /\ \A f \in Path : files[f] # Absent => made
             /\ \A f \in Path : Held(f) => files[f] # Absent
             /\ \A f \in (mine \ cut) \ Metas :
                  \/ files[f].by = "user"
                  \/ Refilled(p, f) /\ text[p].by = "user"
             /\ \A a \in added : a[1] \notin cut =>
                  \/ a[2] \in files[a[1]].methods
                  \/ Refilled(p, a[1]) /\ a[2] \in text[p].methods
             /\ pc[p] \notin {"idle", "prompt"} => Clear(Paths(plan[p]))
BY DEF KeptBy, Clear

(* A step that leaves the files and what is known of them.                 *)
LEMMA QuietKeeps ==
    ASSUME KeepInv, NEW p \in Proc, pc[p] # "fill", UNCHANGED <<files, history>>,
           made' = made \/ made' = TRUE,
           pc'[p] \notin {"idle", "prompt"} => Clear(Paths(plan'[p]))
    PROVE  KeptBy(p)'
<1>1. KeptBy(p)
  BY KeepFacts
<1>2. \A f : ~Refilled(p, f)
  BY DEF Refilled
<1>3. pc'[p] \notin {"idle", "prompt"} => Clear(Paths(plan[p]))'
  BY DEF Clear, history
<1>4. /\ \A f \in Path : files'[f] # Absent => made'
      /\ \A f \in Path : Held(f)' => files'[f] # Absent
  BY <1>1 DEF KeptBy, Held, history
<1>5. /\ \A f \in (mine' \ cut') \ Metas : files'[f].by = "user"
      /\ \A a \in added' : a[1] \notin cut' => a[2] \in files'[a[1]].methods
  BY <1>1, <1>2 DEF KeptBy, history
<1>. QED
  BY <1>3, <1>4, <1>5 DEF KeptBy, Clear

(* A user lets files be replaced.                                          *)
LEMMA AgreeKeeps ==
    ASSUME KeepInv, NEW p \in Proc, pc[p] # "fill", UNCHANGED disk,
           NEW paths, Agree(paths), Paths(plan'[p]) = paths
    PROVE  KeptBy(p)'
<1>1. KeptBy(p) /\ \A a \in added : a = <<a[1], a[2]>>
  BY KeepFacts
<1>2. \A f : ~Refilled(p, f)
  BY DEF Refilled
<1>3. \A f \in paths : f \notin mine' /\ \A m \in Method : <<f, m>> \notin added'
  BY DEF Agree
<1>4. \A f \in Path : Held(f)' => Held(f)
  BY DEF Agree, Held
<1>5. ASSUME NEW f \in (mine' \ cut') \ Metas
      PROVE  f \in (mine \ cut) \ Metas
  BY <1>5 DEF Agree
<1>6. ASSUME NEW a \in added', a[1] \notin cut'
      PROVE  a \in added /\ a[1] \notin cut
  BY <1>6 DEF Agree
<1>. QED
  BY <1>1, <1>2, <1>3, <1>4, <1>5, <1>6 DEF KeptBy, disk

(* A file is written that nobody has to be asked for.                      *)
LEMMA WriteKeeps ==
    ASSUME KeepInv, NEW p \in Proc, NEW g \in Path, NEW t \in Text,
           files' = [files EXCEPT ![g] = t], made' = made \/ made' = TRUE,
           files[g] # Absent \/ made' = TRUE,
           g \in mine => g \in Metas, \A m \in Method : <<g, m>> \notin added,
           pc[p] = "fill" => target[p] = g,
           UNCHANGED history,
           pc'[p] \notin {"idle", "prompt"} => Clear(Paths(plan'[p]))
    PROVE  KeptBy(p)'
<1>1. /\ KeptBy(p) /\ FilesOK
      /\ \A a \in added : a = <<a[1], a[2]>> /\ a[1] \in Path /\ a[2] \in Method
  BY KeepFacts
<1>2. \A f : Refilled(p, f) => f = g
  BY DEF Refilled
<1>3. files'[g] = t /\ t # Absent /\ \A f \in Path \ {g} : files'[f] = files[f]
  BY <1>1, ScaffoldAssumption DEF FilesOK
<1>4. \A f \in Path : files'[f] # Absent => made'
  BY <1>1, <1>3 DEF KeptBy
<1>5. \A f \in Path : Held(f)' => files'[f] # Absent
  BY <1>1, <1>3 DEF KeptBy, Held, history
<1>6. \A f \in (mine' \ cut') \ Metas : files'[f].by = "user"
  BY <1>1, <1>2, <1>3 DEF KeptBy, history, FilesOK
<1>7. \A a \in added' : a[1] \notin cut' => a[2] \in files'[a[1]].methods
  <2>. SUFFICES ASSUME NEW a \in added, a[1] \notin cut
       PROVE  a[2] \in files'[a[1]].methods
    BY DEF history
  <2>1. a[1] # g /\ a[1] \in Path
    BY <1>1
  <2>2. a[2] \in files[a[1]].methods
    BY <1>1, <1>2, <2>1 DEF KeptBy
  <2>. QED
    BY <1>3, <2>1, <2>2
<1>8. pc'[p] \notin {"idle", "prompt"} => Clear(Paths(plan[p]))'
  BY DEF Clear, history
<1>. QED
  BY <1>4, <1>5, <1>6, <1>7, <1>8 DEF KeptBy, Clear

(* A write of p is cut short.                                              *)
LEMMA CutShortKeeps ==
    ASSUME KeepInv, NEW p \in Proc, pc[p] = "fill", CutShort(p),
           pc'[p] \notin {"idle", "prompt"} => Clear(Paths(plan'[p]))
    PROVE  KeptBy(p)' /\ mine' = mine
<1>0. /\ FilesOK /\ KeptBy(p)
      /\ \A a \in added : a = <<a[1], a[2]>> /\ a[1] \in Path /\ a[2] \in Method
  BY KeepFacts
<1>1. /\ target[p] \in Path /\ text[p] \in Text
      /\ files[target[p]] = Empty
      /\ plan[p] # <<>> => target[p] \in Paths(plan[p])
  BY Filling DEF KeepInv
<1>2. PICK t \in Scraps(text[p]) : files' = [files EXCEPT ![target[p]] = t]
  BY DEF CutShort
<1>3. t \in Text /\ Empty # Absent
  BY <1>1, <1>2, TextType, ScaffoldAssumption
<1>4. mine' = mine /\ added' = added /\ made' = made
  BY DEF CutShort
<1>5. CASE plan[p] # <<>>
  <2>1. Clear(Paths(plan[p])) /\ UNCHANGED history
    BY <1>0, <1>5, KeptIsClear DEF CutShort, history
  <2>. QED
    BY <1>1, <1>2, <1>3, <1>4, <1>5, <2>1, WriteKeeps DEF Clear
<1>6. CASE plan[p] = <<>>
  <2>1. cut' = cut \cup {target[p]}
    BY <1>6 DEF CutShort
  <2>2. /\ files'[target[p]] = t /\ t # Absent
        /\ \A f \in Path \ {target[p]} : files'[f] = files[f] /\ ~Refilled(p, f)
    <3>1. \A f \in Path \ {target[p]} : ~Refilled(p, f)
      BY DEF Refilled
    <3>2. t # Absent
      BY <1>3, ScaffoldAssumption
    <3>3. files'[target[p]] = t /\ \A f \in Path \ {target[p]} : files'[f] = files[f]
      BY <1>0, <1>1, <1>2 DEF FilesOK
    <3>. QED
      BY <3>1, <3>2, <3>3
  <2>3. \A f \in Path : files'[f] # Absent => made'
    BY <1>0, <1>1, <1>3, <1>4, <2>2 DEF KeptBy
  <2>4. \A f \in Path : Held(f)' => files'[f] # Absent
    <3>1. \A f \in Path \ {target[p]} : Held(f)' => Held(f)
      BY <1>4, <2>1 DEF Held
    <3>. QED
      BY <1>0, <2>2, <3>1 DEF KeptBy
  <2>5. \A f \in (mine' \ cut') \ Metas : files'[f].by = "user"
    BY <1>0, <1>4, <2>1, <2>2 DEF KeptBy, FilesOK
  <2>6. \A a \in added' : a[1] \notin cut' => a[2] \in files'[a[1]].methods
    <3>. SUFFICES ASSUME NEW a \in added, a[1] \notin cut, a[1] # target[p]
         PROVE  a[2] \in files'[a[1]].methods
      BY <1>4, <2>1
    <3>1. a[1] \in Path /\ ~Refilled(p, a[1]) /\ files'[a[1]] = files[a[1]]
      BY <1>0, <2>2
    <3>. QED
      BY <1>0, <3>1 DEF KeptBy
  <2>7. pc'[p] \notin {"idle", "prompt"} => Clear(Paths(plan[p]))'
    BY <1>4 DEF Clear
  <2>. QED
    BY <1>4, <2>3, <2>4, <2>5, <2>6, <2>7 DEF KeptBy, Clear
<1>. QED
  BY <1>4, <1>5, <1>6

(* A command that gives up has no more to write than before.               *)
LEMMA GiveUpClear ==
    ASSUME KeepInv, NEW p \in Proc, pc[p] \notin {"idle", "prompt"}, GiveUp(p)
    PROVE  pc'[p] \notin {"idle", "prompt"} => Clear(Paths(plan'[p]))
<1>0. OwnOK /\ Clear(Paths(plan[p]))
  BY KeepFacts, KeptIsClear
<1>1. CASE Fail(p)
  BY <1>0, <1>1, ForgetPlaces DEF Fail
<1>2. ASSUME NEW steps \in Seq(Item), FallsBack(p, steps), Paths(steps) = Paths(plan[p])
      PROVE  Clear(Paths(plan'[p]))
  BY <1>0, <1>2 DEF FallsBack, OwnOK
<1>. QED
  BY <1>0, <1>1, <1>2, GivingUp

LEMMA MetasAreNoModules == Metas \cap Modules = {}
BY DEF Metas, Meta, Source, Modules

(* A command that does not ask has nobody to ask: the file of a source is  *)
(* not there, or there is no project.                                      *)
LEMMA UnaskedIsClear ==
    ASSUME KeepInv, NEW p \in Proc, NEW w, NEW f, NEW steps, Starts(p, w, f, steps),
           ~Asks(f, steps)
    PROVE  Clear(Paths(steps))
<1>0. FilesOK /\ KeptBy(p)
  BY KeepFacts
<1>1. steps \in Seq(Item) /\ Paths(steps) \subseteq Path
  BY PlannedSeq, PathsType DEF Starts
<1>2. \A g \in Path : files[g] = Absent => ~Held(g)
  BY <1>0 DEF KeptBy
<1>3. CASE w = "add"
  <2>1. f \in Path /\ Paths(steps) \subseteq {f} \cup Metas
    BY <1>3 DEF Starts
  <2>2. files[f] = Absent
    BY <2>1, ScaffoldAssumption DEF Asks
  <2>3. \A g \in Metas, m \in Method : <<g, m>> \notin added
    BY <1>0, MetasAreNoModules DEF FilesOK
  <2>. QED
    BY <1>2, <2>1, <2>2, <2>3 DEF Clear, Held
<1>4. CASE w # "add"
  <2>1. ~made
    BY <1>4 DEF Starts, Asks
  <2>2. \A g \in Path : files[g] = Absent
    BY <1>0, <2>1 DEF KeptBy
  <2>. QED
    BY <1>1, <1>2, <2>2 DEF Clear, Held
<1>. QED
  BY <1>3, <1>4

LEMMA KeepStep ==
    ASSUME Sole, KeepInv, [Next]_vars
    PROVE  KeepInv'
<1>0. PlaceInv'
  BY PlaceStep DEF KeepInv
<1>1. \A q \in Proc : /\ OwnOK /\ FilesOK /\ Adding(q) /\ PlacedBy(q) /\ KeptBy(q)
                      /\ Adding(q)' /\ mine \subseteq Editable
  BY <1>0, KeepFacts DEF PlaceInv, TypeInv
\* A step that leaves the files and what is known of them.
<1>2. ASSUME NEW p \in Proc, pc[p] # "fill", UNCHANGED <<files, history>>,
             made' = made \/ made' = TRUE,
             pc'[p] \notin {"idle", "prompt"} => Clear(Paths(plan'[p]))
      PROVE  KeepInv'
  <2>1. mine' \subseteq Editable
    BY <1>1, <1>2 DEF history
  <2>. QED
    BY <1>0, <1>2, <2>1, QuietKeeps, KeepGoesOn
\* One that goes on with its plan, or with less of it.
<1>3. ASSUME NEW p \in Proc, pc[p] \notin {"idle", "prompt"}
      PROVE  Clear(Paths(plan[p]))
  BY <1>1, <1>3, KeptIsClear
<1>4. ASSUME NEW p \in Proc, NEW w, NEW f, NEW steps, Starts(p, w, f, steps)
      PROVE  KeepInv'
  <2>1. Begin(p, w, f, steps) /\ pc[p] = "idle" /\ plan'[p] = steps /\ UNCHANGED disk
    BY <1>1, <1>4 DEF Starts, Begin, OwnOK
  <2>2. PICK force \in BOOLEAN :
          /\ pc' = [pc EXCEPT ![p] = IF Asks(f, steps) /\ ~force THEN "prompt" ELSE First(w)]
          /\ IF force THEN Agree(Paths(steps)) ELSE UNCHANGED history
    BY <2>1 DEF Begin
  <2>3. CASE force
    <3>1. Agree(Paths(steps))
      BY <2>2, <2>3
    <3>2. mine' \subseteq Editable
      BY <1>1, <3>1 DEF Agree
    <3>3. KeptBy(p)'
      BY <2>1, <3>1, AgreeKeeps
    <3>. QED
      BY <1>0, <3>2, <3>3, KeepGoesOn
  <2>4. CASE ~force
    <3>1. UNCHANGED history
      BY <2>2, <2>4
    <3>2. pc'[p] = "prompt" \/ ~Asks(f, steps)
      BY <1>1, <2>2, <2>4 DEF OwnOK
    <3>3. pc'[p] \notin {"idle", "prompt"} => Clear(Paths(plan'[p]))
      BY <1>4, <2>1, <3>2, UnaskedIsClear
    <3>. QED
      BY <1>2, <2>1, <3>1, <3>3 DEF disk
  <2>. QED
    BY <2>3, <2>4
<1>5. ASSUME NEW p \in Proc, NEW n \in Name, NEW m \in Method, AddTransition(p, n, m)
      PROVE  KeepInv'
  <2>. DEFINE f == Main("module", n)
              steps == IF files[f] = Absent THEN <<Fallback(f)>> ELSE <<>>
  <2>1. f \in Path
    BY FilesAreInPath
  <2>2. plan' = [plan EXCEPT ![p] = steps] /\ pc[p] = "idle" /\ UNCHANGED <<disk, history>>
    BY <1>5 DEF AddTransition
  <2>. HIDE DEF f
  <2>3. plan'[p] = steps
    BY <1>1, <2>2 DEF OwnOK
  <2>4. Clear(Paths(steps))
    <3>1. CASE files[f] = Absent
      <4>1. ~Held(f)
        BY <1>1, <2>1, <3>1 DEF KeptBy
      <4>2. Paths(steps) = {f}
        <5>1. Fallback(f) \in Item /\ Fallback(f).path = f
          BY <2>1, ItemType, PlannedSeq DEF Fallback
        <5>. QED
          BY <3>1, <5>1, PathsOne
      <4>. QED
        BY <4>1, <4>2 DEF Clear, Held
    <3>2. CASE files[f] # Absent
      BY <3>2, PathsEmpty DEF Clear
    <3>. QED
      BY <3>1, <3>2
  <2>. QED
    BY <1>2, <2>2, <2>3, <2>4 DEF disk
<1>6. ASSUME NEW p \in Proc, Confirm(p)
      PROVE  KeepInv'
  <2>1. pc[p] = "prompt" /\ Agree(goal[p]) /\ UNCHANGED <<disk, plan>>
    BY <1>6 DEF Confirm, command
  <2>2. Paths(plan'[p]) = goal[p]
    BY <1>1, <2>1 DEF PlacedBy
  <2>3. KeptBy(p)'
    BY <2>1, <2>2, AgreeKeeps
  <2>4. mine' \subseteq Editable
    BY <1>1, <2>1 DEF Agree
  <2>. QED
    BY <1>0, <2>3, <2>4, KeepGoesOn
<1>7. ASSUME NEW p \in Proc, Cancel(p) \/ AlreadyThere(p)
      PROVE  KeepInv'
  <2>1. pc[p] # "fill" /\ Forget(p) /\ UNCHANGED <<disk, history>>
    BY <1>7 DEF Cancel, AlreadyThere, Fail
  <2>2. pc'[p] = "idle"
    BY <1>1, <2>1, ForgetPlaces
  <2>. QED
    BY <1>2, <2>1, <2>2 DEF disk
<1>8. ASSUME NEW p \in Proc, MakeDirs(p)
      PROVE  KeepInv'
  <2>1. pc[p] = "mkdir" /\ made' = TRUE /\ UNCHANGED <<files, history>>
    BY <1>8 DEF MakeDirs
  <2>2. CASE what[p] = "create"
    <3>1. plan' = plan
      BY <1>8, <2>2 DEF MakeDirs, command
    <3>. QED
      BY <1>2, <1>3, <2>1, <3>1
  <2>3. CASE what[p] # "create"
    <3>1. pc'[p] = "idle"
      BY <1>1, <1>8, <2>3, ForgetPlaces DEF MakeDirs, Fail
    <3>. QED
      BY <1>2, <2>1, <3>1
  <2>. QED
    BY <2>2, <2>3
<1>9. ASSUME NEW p \in Proc, plan[p] # <<>>
      PROVE  /\ Current(p).path \in Path /\ Current(p).path \in Paths(plan[p])
             /\ Paths(Tail(plan[p])) \subseteq Paths(plan[p])
  <2>1. plan[p] \in Seq(Item)
    BY <1>1 DEF OwnOK
  <2>. QED
    BY <1>9, <2>1, PathsFirst, PathsType DEF Current
<1>10. ASSUME NEW p \in Proc, Skip(p)
       PROVE  KeepInv'
  <2>1. /\ pc[p] = "write" /\ plan[p] # <<>> /\ plan' = [plan EXCEPT ![p] = Tail(plan[p])]
        /\ UNCHANGED <<disk, history>>
    BY <1>10 DEF Skip, Writing
  <2>2. plan'[p] = Tail(plan[p])
    BY <1>1, <2>1 DEF OwnOK
  <2>3. Clear(Paths(plan'[p]))
    BY <1>3, <1>9, <2>1, <2>2 DEF Clear
  <2>. QED
    BY <1>2, <2>1, <2>3 DEF disk
<1>11. ASSUME NEW p \in Proc, OpenFile(p)
       PROVE  KeepInv'
  <2>. DEFINE g == Current(p).path
  <2>1. /\ pc[p] = "write" /\ plan[p] # <<>> /\ made' = TRUE
        /\ files' = [files EXCEPT ![g] = Empty]
        /\ UNCHANGED <<plan, history>>
    BY <1>11 DEF OpenFile, Writing
  <2>2. g \in Path /\ g \in Paths(plan[p])
    BY <1>9, <2>1
  <2>3. Clear(Paths(plan[p]))
    BY <1>3, <2>1
  <2>4. g \in mine => g \in Metas
    BY <2>2, <2>3 DEF Clear
  <2>5. \A m \in Method : <<g, m>> \notin added
    BY <2>2, <2>3 DEF Clear
  <2>. HIDE DEF g
  <2>6. KeptBy(p)'
    BY <2>1, <2>2, <2>3, <2>4, <2>5, TextType, WriteKeeps
  <2>7. mine' \subseteq Editable
    BY <1>1, <2>1 DEF history
  <2>. QED
    BY <1>0, <2>6, <2>7, KeepGoesOn
<1>12. ASSUME NEW p \in Proc, Fill(p)
       PROVE  KeepInv'
  <2>0. files' = [files EXCEPT ![target[p]] = text[p]]
    BY <1>12, FillsWith DEF KeepInv
  <2>1. /\ pc[p] = "fill" /\ pc' = [pc EXCEPT ![p] = "write"] /\ UNCHANGED <<made, target, history>>
    BY <1>12 DEF Fill
  <2>2. /\ target[p] \in Path /\ text[p] \in Text /\ files[target[p]] = Empty
        /\ plan[p] # <<>> => target[p] \in Paths(plan[p])
    BY <2>1, Filling DEF KeepInv
  <2>3. mine' \subseteq Editable
    BY <1>1, <2>1 DEF history
  <2>4. Clear(Paths(plan[p]))
    BY <1>3, <2>1
  <2>5. CASE plan[p] # <<>>
    <3>1. plan'[p] = Tail(plan[p])
      BY <1>1, <1>12, <2>5 DEF Fill, OwnOK
    <3>2. Clear(Paths(plan'[p]))
      BY <1>9, <2>4, <2>5, <3>1 DEF Clear
    <3>3. (target[p] \in mine => target[p] \in Metas)
          /\ \A m \in Method : <<target[p], m>> \notin added
      BY <2>2, <2>4, <2>5 DEF Clear
    <3>4. Empty # Absent
      BY TextType, ScaffoldAssumption
    <3>5. KeptBy(p)'
      BY <2>0, <2>1, <2>2, <3>2, <3>3, <3>4, WriteKeeps
    <3>. QED
      BY <1>0, <2>3, <3>5, KeepGoesOn
  <2>6. CASE plan[p] = <<>>
    <3>. DEFINE g == target[p]
                t == text[p]
    <3>1. plan'[p] = <<>> /\ Paths(plan'[p]) = {}
      BY <1>1, <1>12, <2>6, PathsEmpty DEF Fill, OwnOK
    <3>2. t # Absent /\ Empty # Absent
      BY <2>2, TextType, ScaffoldAssumption
    <3>3. files'[g] = t /\ \A f \in Path \ {g} : files'[f] = files[f]
      BY <1>1, <2>0, <2>2 DEF FilesOK
    <3>4. \A f : Refilled(p, f) => f = g
      BY DEF Refilled
    <3>. HIDE DEF g, t
    <3>5. \A f \in Path : files'[f] # Absent => made'
      BY <1>1, <2>1, <2>2, <3>2, <3>3 DEF KeptBy, g
    <3>6. \A f \in Path : Held(f)' => files'[f] # Absent
      BY <1>1, <2>1, <3>2, <3>3 DEF KeptBy, Held, history
    <3>7. ASSUME NEW f \in (mine \ cut) \ Metas
          PROVE  files'[f].by = "user"
      <4>1. f \in Path
        BY <1>1 DEF FilesOK
      <4>2. CASE f = g
        BY <1>1, <2>2, <3>3, <3>7, <4>2 DEF KeptBy, Empty, g, t
      <4>3. CASE f # g
        BY <1>1, <3>3, <3>4, <3>7, <4>1, <4>3 DEF KeptBy
      <4>. QED
        BY <4>2, <4>3
    <3>8. ASSUME NEW a \in added, a[1] \notin cut
          PROVE  a[2] \in files'[a[1]].methods
      <4>1. a[1] \in Path
        BY KeepFacts
      <4>2. CASE a[1] = g
        BY <1>1, <2>2, <3>3, <3>8, <4>2 DEF KeptBy, Empty, g, t
      <4>3. CASE a[1] # g
        BY <1>1, <3>3, <3>4, <3>8, <4>1, <4>3 DEF KeptBy
      <4>. QED
        BY <4>2, <4>3
    <3>9. KeptBy(p)'
      BY <2>1, <3>1, <3>5, <3>6, <3>7, <3>8 DEF KeptBy, history
    <3>. QED
      BY <1>0, <2>3, <3>9, KeepGoesOn
  <2>. QED
    BY <2>5, <2>6
<1>13. ASSUME NEW p \in Proc, OpenFailed(p)
       PROVE  KeepInv'
  <2>1. pc[p] \in {"write", "read", "append"} /\ GiveUp(p) /\ UNCHANGED <<disk, history>>
    BY <1>13 DEF OpenFailed, Writing
  <2>. QED
    BY <1>2, <2>1, GiveUpClear DEF disk
<1>14. ASSUME NEW p \in Proc, WriteFailed(p)
       PROVE  KeepInv'
  <2>1. pc[p] = "fill" /\ CutShort(p) /\ GiveUp(p)
    BY <1>14 DEF WriteFailed
  <2>2. KeptBy(p)' /\ mine' = mine
    BY <2>1, GiveUpClear, CutShortKeeps
  <2>. QED
    BY <1>0, <1>1, <2>2, KeepGoesOn
<1>15. ASSUME NEW p \in Proc, Crash(p)
       PROVE  KeepInv'
  <2>1. pc'[p] = "idle"
    BY <1>1, <1>15, ForgetPlaces DEF Crash, Fail
  <2>2. CASE pc[p] = "fill"
    <3>1. KeptBy(p)' /\ mine' = mine
      BY <1>15, <2>1, <2>2, CutShortKeeps DEF Crash
    <3>. QED
      BY <1>0, <1>1, <3>1, KeepGoesOn
  <2>3. CASE pc[p] # "fill"
    BY <1>2, <1>15, <2>1, <2>3 DEF Crash, disk
  <2>. QED
    BY <2>2, <2>3
<1>16. ASSUME NEW p \in Proc, Read(p) \/ Compose(p)
       PROVE  KeepInv'
  <2>1. pc[p] \in {"write", "read"} /\ UNCHANGED <<disk, plan, history>>
    BY <1>16 DEF Read, Compose, command
  <2>. QED
    BY <1>2, <1>3, <2>1 DEF disk
<1>17. ASSUME NEW p \in Proc, Truncate(p)
       PROVE  KeepInv'
  <2>. DEFINE g == target[p]
              t == text[p]
  <2>1. /\ pc[p] = "append" /\ files' = [files EXCEPT ![g] = Empty]
        /\ UNCHANGED <<made, plan, target, text, history>> /\ plan[p] = <<>>
        /\ pc' = [pc EXCEPT ![p] = "fill"]
    BY <1>1, <1>17 DEF Truncate, command, Adding
  <2>2. g \in Path /\ files[g] # Absent /\ t = With(files[g], method[p])
    BY <1>1, <2>1 DEF Adding, PlacedBy, Modules, Path
  <2>3. files[g] \in Text /\ t.by = files[g].by /\ files[g].methods \subseteq t.methods
    <3>1. files[g] \in Text
      BY <1>1, <2>2 DEF FilesOK
    <3>. QED
      BY <2>2, <3>1 DEF With, Text
  <2>4. files'[g] = Empty /\ \A f \in Path \ {g} : files'[f] = files[f]
    BY <1>1, <2>1, <2>2 DEF FilesOK
  <2>5. pc'[p] = "fill" /\ plan'[p] = <<>> /\ target'[p] = g
    BY <1>1, <2>1 DEF OwnOK
  <2>6. \A f : ~Refilled(p, f)
    BY <2>1 DEF Refilled
  <2>7. Empty # Absent
    BY TextType, ScaffoldAssumption
  <2>8. text'[p] = t /\ Paths(plan'[p]) = {} /\ mine' \subseteq Editable
    BY <1>1, <2>1, PathsEmpty DEF history
  <2>. HIDE DEF g, t
  <2>9. \A f \in Path : files'[f] # Absent => made'
    BY <1>1, <2>1, <2>2, <2>4 DEF KeptBy
  <2>10. \A f \in Path : Held(f)' => files'[f] # Absent
    BY <1>1, <2>1, <2>4, <2>7 DEF KeptBy, Held, history
  <2>11. ASSUME NEW f \in (mine \ cut) \ Metas
         PROVE  files'[f].by = "user" \/ (Refilled(p, f)' /\ t.by = "user")
    <3>1. f \in Path /\ files[f].by = "user"
      BY <1>1, <2>6, <2>11 DEF KeptBy, FilesOK
    <3>2. CASE f = g
      BY <2>3, <2>5, <3>1, <3>2 DEF Refilled
    <3>3. CASE f # g
      BY <2>4, <3>1, <3>3
    <3>. QED
      BY <3>2, <3>3
  <2>12. ASSUME NEW a \in added, a[1] \notin cut
         PROVE  a[2] \in files'[a[1]].methods \/ (Refilled(p, a[1])' /\ a[2] \in t.methods)
    <3>1. a[1] \in Path /\ a[2] \in files[a[1]].methods
      BY <1>1, <2>6, <2>12, KeepFacts DEF KeptBy
    <3>2. CASE a[1] = g
      BY <2>3, <2>5, <3>1, <3>2 DEF Refilled
    <3>3. CASE a[1] # g
      BY <2>4, <3>1, <3>3
    <3>. QED
      BY <3>2, <3>3
  <2>13. KeptBy(p)'
    <3>1. \A f \in (mine' \ cut') \ Metas :
            files'[f].by = "user" \/ (Refilled(p, f)' /\ text'[p].by = "user")
      BY <2>1, <2>8, <2>11 DEF history
    <3>2. \A a \in added' : a[1] \notin cut' =>
            a[2] \in files'[a[1]].methods \/ (Refilled(p, a[1])' /\ a[2] \in text'[p].methods)
      BY <2>1, <2>8, <2>12 DEF history
    <3>. QED
      BY <2>8, <2>9, <2>10, <3>1, <3>2 DEF KeptBy
  <2>. QED
    BY <1>0, <2>8, <2>13, KeepGoesOn
<1>18. ASSUME NEW p \in Proc, Report(p)
       PROVE  KeepInv'
  <2>1. /\ pc[p] = "write" /\ what[p] # "transition" /\ UNCHANGED <<disk, mine, cut>>
        /\ added' = IF method[p] = None THEN added ELSE added \cup {<<target[p], method[p]>>}
    BY <1>18 DEF Report
  <2>2. pc'[p] = "idle" /\ \A f : ~Refilled(p, f)
    BY <1>1, <1>18, ForgetPlaces DEF Report, Refilled
  <2>3. method[p] # None =>
          files[target[p]] # Absent /\ method[p] \in files[target[p]].methods
    BY <1>1, <2>1 DEF PlacedBy
  <2>4. \A a \in added' : a \in added
          \/ (method[p] # None /\ a = <<target[p], method[p]>>)
    BY <2>1
  <2>5. \A f \in Path : Held(f)' => files[f] # Absent
    <3>. SUFFICES ASSUME NEW f \in Path, Held(f)', ~Held(f)
         PROVE  files[f] # Absent
      BY <1>1 DEF KeptBy
    <3>1. PICK m \in Method : <<f, m>> \in added'
      BY <2>1 DEF Held
    <3>2. method[p] # None /\ <<f, m>> = <<target[p], method[p]>>
      BY <2>4, <3>1 DEF Held
    <3>. QED
      BY <2>3, <3>2
  <2>6. ASSUME NEW a \in added', a[1] \notin cut
        PROVE  a[2] \in files[a[1]].methods
    <3>1. CASE a \in added
      BY <1>1, <2>2, <2>6, <3>1 DEF KeptBy
    <3>2. CASE method[p] # None /\ a = <<target[p], method[p]>>
      BY <2>3, <3>2
    <3>. QED
      BY <2>4, <3>1, <3>2
  <2>7. KeptBy(p)'
    BY <1>1, <2>1, <2>2, <2>5, <2>6 DEF KeptBy, disk
  <2>. QED
    BY <1>0, <1>1, <2>1, <2>7, KeepGoesOn
<1>19. ASSUME NEW f \in Editable, NEW t \in Texts(f), Edit(f, t)
       PROVE  KeepInv'
  <2>. PICK p \in Proc : TRUE
    BY DEF Sole
  <2>0. f \in Path
    BY ScaffoldAssumption
  <2>1. /\ files' = [files EXCEPT ![f] = t] /\ made' = TRUE
        /\ mine' = IF t = Absent THEN mine \ {f} ELSE mine \cup {f}
        /\ added' = {a \in added : a[1] # f}
        /\ cut' = cut \ {f}
        /\ UNCHANGED <<pc, command>>
    BY <1>19 DEF Edit
  <2>2. pc[p] \in {"idle", "prompt"} /\ pc'[p] = pc[p] /\ \A g : ~Refilled(p, g)
    BY <1>19, <2>1 DEF Edit, Refilled
  <2>3. files'[f] = t /\ \A g \in Path \ {f} : files'[g] = files[g]
    BY <1>1, <2>0, <2>1 DEF FilesOK
  <2>4. t = Absent \/ t.by = "user"
    BY DEF Texts
  <2>5. \A g \in Path : Held(g)' => files'[g] # Absent
    <3>. SUFFICES ASSUME NEW g \in Path, Held(g)'
         PROVE  files'[g] # Absent
      OBVIOUS
    <3>1. CASE g = f
      BY <2>1, <2>3, <3>1 DEF Held
    <3>2. CASE g # f
      <4>1. Held(g)
        BY <2>1, <3>2 DEF Held
      <4>. QED
        BY <1>1, <2>3, <3>2, <4>1 DEF KeptBy
    <3>. QED
      BY <3>1, <3>2
  <2>6. ASSUME NEW g \in (mine' \ cut') \ Metas
        PROVE  files'[g].by = "user"
    <3>1. CASE g = f
      BY <2>1, <2>3, <2>4, <2>6, <3>1
    <3>2. CASE g # f
      <4>1. g \in (mine \ cut) \ Metas /\ g \in Path
        BY <1>1, <2>1, <2>6, <3>2 DEF FilesOK
      <4>. QED
        BY <1>1, <2>2, <2>3, <3>2, <4>1 DEF KeptBy
    <3>. QED
      BY <3>1, <3>2
  <2>7. ASSUME NEW a \in added', a[1] \notin cut'
        PROVE  a[2] \in files'[a[1]].methods
    <3>1. a \in added /\ a[1] # f /\ a[1] \notin cut
      BY <2>1, <2>7
    <3>2. a[1] \in Path
      BY <3>1, KeepFacts
    <3>. QED
      BY <1>1, <2>2, <2>3, <3>1, <3>2 DEF KeptBy
  <2>8. KeptBy(p)'
    BY <2>1, <2>2, <2>5, <2>6, <2>7 DEF KeptBy
  <2>9. mine' \subseteq Editable
    BY <1>1, <2>1
  <2>. QED
    BY <1>0, <2>8, <2>9, KeepGoesOn
<1>20. CASE UNCHANGED vars
  <2>1. \A q \in Proc : KeptBy(q)'
    BY <1>1, <1>20 DEF KeptBy, Held, Refilled, vars, disk, command, history
  <2>2. mine' \subseteq Editable
    BY <1>20 DEF KeepInv, vars, history
  <2>. QED
    BY <1>0, <2>1, <2>2 DEF KeepInv
<1>21. ASSUME NEW p \in Proc, Step(p)
       PROVE  KeepInv'
  BY <1>21, Starting, <1>4, <1>5, <1>6, <1>7, <1>8, <1>10, <1>11, <1>12, <1>13, <1>14,
     <1>15, <1>16, <1>17, <1>18 DEF Step
<1>. QED
  BY <1>19, <1>20, <1>21 DEF Next, Finished

LEMMA KeepInit == Init => KeepInv
<1>1. Init => TypeInv
  BY TypeInit
<1>2. Init => PlaceInv
  BY <1>1, PlannedSeq DEF Init, PlaceInv, ReportedIsInPlace, PlacedBy
<1>3. Init => mine = {} /\ added = {} /\ cut = {} /\ \A p \in Proc : pc[p] = "idle"
  BY DEF Init
<1>4. Init => \A f \in Path : files[f] = Absent
  BY DEF Init
<1>5. Init => \A p \in Proc : KeptBy(p)
  BY <1>3, <1>4 DEF KeptBy, Held
<1>. QED
  BY <1>2, <1>3, <1>5 DEF KeepInv

(* A method that was reported as added is in its module after any further  *)
(* commands, unless a user edits it or agrees that the module is replaced, *)
(* or an append to it is cut short (addTransition).  A second process that *)
(* read the module before would write it back without the method.          *)
THEOREM AddedMethodsAreKept == ASSUME Sole PROVE Spec => []AddedMethodsStay
<1>1. KeepInv /\ [Next]_vars => KeepInv'
  BY KeepStep
<1>2. KeepInv => AddedMethodsStay
  <2>. SUFFICES ASSUME KeepInv, NEW a \in added, a[1] \notin cut
       PROVE  \/ files[a[1]] # Absent /\ a[2] \in files[a[1]].methods
              \/ \E p \in Proc : /\ pc[p] = "fill" /\ target[p] = a[1]
                                /\ a[2] \in text[p].methods
    BY DEF AddedMethodsStay
  <2>. PICK p \in Proc : TRUE
    BY DEF Sole
  <2>1. KeptBy(p) /\ a = <<a[1], a[2]>> /\ a[1] \in Path /\ a[2] \in Method
    BY KeepFacts
  <2>2. files[a[1]] # Absent
    BY <2>1 DEF KeptBy, Held
  <2>. QED
    BY <2>1, <2>2 DEF KeptBy, Refilled
<1>. QED
  BY <1>1, <1>2, KeepInit, PTL DEF Spec

(* A user's file keeps its text until its user agrees that it is replaced  *)
(* (CheckPathExistsAndConfirm, one question for all files of a command) or *)
(* an append to it is cut short.  The metadata of a source is the other    *)
(* exception, so the theorem is about users who leave it alone: it is      *)
(* written anew when the source is gone, and nobody is asked.              *)
THEOREM OwnFilesStay ==
    ASSUME Sole, Editable \cap Metas = {}
    PROVE  Spec => []OwnFilesAreKept
<1>1. KeepInv /\ [Next]_vars => KeepInv'
  BY KeepStep
<1>2. KeepInv => OwnFilesAreKept
  <2>. SUFFICES ASSUME KeepInv, NEW f \in mine \ cut
       PROVE  \/ files[f] # Absent /\ files[f].by = "user"
              \/ \E p \in Proc : pc[p] = "fill" /\ target[p] = f /\ text[p].by = "user"
    BY DEF OwnFilesAreKept
  <2>. PICK p \in Proc : TRUE
    BY DEF Sole
  <2>1. KeptBy(p) /\ mine \subseteq Editable /\ f \in Path /\ f \notin Metas
    BY KeepFacts DEF FilesOK
  <2>2. files[f] # Absent
    BY <2>1 DEF KeptBy, Held
  <2>. QED
    BY <2>1, <2>2 DEF KeptBy, Refilled
<1>. QED
  BY <1>1, <1>2, KeepInit, PTL DEF Spec

=============================================================================
