---------------------------- MODULE PackagesProofs ----------------------------
(***************************************************************************)
(* Theorems about Packages: what is reported of the registry for any       *)
(* number of commands at once, what stays in the project for commands that *)
(* run one after the other.                                                *)
(***************************************************************************)
EXTENDS Packages, TLAPS

-----------------------------------------------------------------------------
(* Types.                                                                  *)

Shimming == {"shim", "fillShim", "edit", "openModules", "fillModules"}
Editing == {"openModules", "fillModules"}
Describing == {"openManifest", "fillManifest", "publish", "published", "send", "sent"}

(* What a command has read by the time it needs it.                        *)
Working(p) ==
    /\ pc[p] \in Shimming => module[p] \in Module
    /\ pc[p] \in Editing => source[p] \in Source
    /\ pc[p] = "readManifest" => options[p] \in Options
    /\ pc[p] \in Describing => info[p] \in Descriptor
    /\ pc[p] = "published" => info[p].version \in Version

Label == {"idle", "shim", "fillShim", "edit", "openModules", "fillModules", "readManifest",
          "openManifest", "fillManifest", "publish", "published", "payload", "send", "sent",
          "detail", "install", "search"}

Told == [line : Lines, version : Version \cup {None}, listed : SUBSET Segment]

(* TypeOK in two parts: what the commands share, and what each has.        *)
SharedOK ==
    /\ modulesGo \in Source \cup {Absent}
    /\ shims \in [Segment -> Module \cup {Absent, None}]
    /\ gomod \in BOOLEAN
    /\ manifest \in Descriptor \cup {Absent}
    /\ public \subseteq Version
    /\ server \in Descriptor \cup {None}
    /\ enabled \subseteq Module /\ owed \subseteq Field /\ torn \in BOOLEAN
    /\ commands \in 0..MaxCommands /\ world \in 0..MaxWorld

OwnOK ==
    /\ pc \in [Proc -> Label]
    /\ module \in [Proc -> Module \cup {None}]
    /\ source \in [Proc -> Source \cup {None}]
    /\ info \in [Proc -> Descriptor \cup {None}]
    /\ options \in [Proc -> Options \cup {None}]
    /\ told \in [Proc -> Told]
    /\ \A p \in Proc : Working(p)

SeenOK ==
    /\ seen \in [Proc -> SUBSET Version]
    /\ known \in [Proc -> SUBSET {"there", "hidden", "detail", "install"}]

TypeInv == SharedOK /\ OwnOK /\ SeenOK

(* The texts that a command makes of others are texts.                     *)
LEMMA EditedType ==
    ASSUME NEW s \in Source, NEW t \in Segment
    PROVE  WithCall(WithImport(s, t), t) \in Source
<1>1. WithImport(s, t) \in Source
  BY DEF WithImport, Source
<1>2. ASSUME NEW r \in Source PROVE WithCall(r, t) \in Source
  BY DEF WithCall, Source
<1>. QED
  BY <1>1, <1>2

LEMMA BeginningsType ==
    ASSUME NEW s \in Source
    PROVE  Beginnings(s) \subseteq Source
<1>1. EmptySource \in Source
  BY DEF EmptySource, Source
<1>2. /\ [s EXCEPT !.init = FALSE, !.enable = FALSE, !.calls = {}] \in Source
      /\ [s EXCEPT !.enable = FALSE, !.calls = {}] \in Source
      /\ [s EXCEPT !.calls = {}] \in Source
  BY DEF Source
<1>. QED
  BY <1>1, <1>2 DEF Beginnings

LEMMA DescriptorTypes ==
    /\ Blank \in Descriptor /\ EmptyFile \in Descriptor
    /\ \A d \in Descriptor, o \in Options : Updated(d, o) \in Descriptor
BY DEF Blank, EmptyFile, Updated, Descriptor, Options, Field

LEMMA SaidType ==
    ASSUME NEW line \in Lines, NEW v \in Version \cup {None}, NEW l \in SUBSET Segment
    PROVE  Said(line, v, l) \in Told
BY DEF Said, Told

LEMMA TypeInit == Init => TypeInv
<1>. SUFFICES ASSUME Init PROVE TypeInv
  OBVIOUS
<1>1. Nothing \in Told
  BY SaidType DEF Nothing, Lines
<1>2. owed \subseteq Field
  BY PackagesAssumption DEF Init, Descriptor
<1>3. SharedOK
  <2>1. modulesGo \in Source \cup {Absent} /\ manifest \in Descriptor \cup {Absent}
    BY PackagesAssumption DEF Init
  <2>2. commands \in 0..MaxCommands /\ world \in 0..MaxWorld
    BY PackagesAssumption DEF Init
  <2>. QED
    BY <1>2, <2>1, <2>2 DEF Init, SharedOK
<1>4. OwnOK
  BY <1>1 DEF Init, OwnOK, Label, Working, Shimming, Editing, Describing
<1>. QED
  BY <1>3, <1>4 DEF Init, TypeInv, SeenOK

(* The steps that all commands have in common.                             *)
LEMMA BeginType ==
    ASSUME TypeInv, NEW p \in Proc, NEW label \in {"shim", "readManifest", "payload", "detail"},
           Begin(p, label), UNCHANGED <<source, info>>,
           label = "shim" =>
             /\ module' \in [Proc -> Module \cup {None}] /\ module'[p] \in Module
             /\ \A q \in Proc : q # p => module'[q] = module[q],
           label # "shim" => UNCHANGED module,
           label = "readManifest" =>
             /\ options' \in [Proc -> Options \cup {None}] /\ options'[p] \in Options
             /\ \A q \in Proc : q # p => options'[q] = options[q],
           label # "readManifest" => UNCHANGED options
    PROVE  OwnOK' /\ SeenOK' /\ commands' \in 0..MaxCommands
<1>1. Nothing \in Told
  BY SaidType DEF Nothing, Lines
<1>2. /\ pc' = [pc EXCEPT ![p] = label]
      /\ told' = [told EXCEPT ![p] = Nothing]
      /\ seen' = [seen EXCEPT ![p] = public]
      /\ known' = [known EXCEPT ![p] = Standing(public, server)]
      /\ commands < MaxCommands /\ commands' = commands + 1
  BY DEF Begin
<1>3. OwnOK'
  BY <1>1, <1>2 DEF TypeInv, OwnOK, Label, Working, Shimming, Editing, Describing
<1>4. SeenOK'
  BY <1>2 DEF TypeInv, SeenOK, SharedOK, Standing
<1>. QED
  BY <1>2, <1>3, <1>4, PackagesAssumption DEF TypeInv, SharedOK

LEMMA EndType ==
    ASSUME TypeInv, NEW p \in Proc, NEW line \in Lines, NEW v \in Version \cup {None},
           End(p, line, v)
    PROVE  OwnOK' /\ SeenOK' /\ commands' = commands /\ world' = world
<1>1. Said(line, v, {}) \in Told
  BY SaidType
<1>. QED
  BY <1>1 DEF End, TypeInv, OwnOK, SeenOK, bounds, Label, Working, Shimming, Editing, Describing

LEMMA GoType ==
    ASSUME TypeInv, NEW p \in Proc, NEW label \in Label, Go(p, label), UNCHANGED locals,
           Working(p)'
    PROVE  OwnOK' /\ SeenOK' /\ commands' = commands /\ world' = world
BY DEF Go, locals, bounds, TypeInv, OwnOK, SeenOK, Label, Working, Shimming, Editing, Describing

LEMMA TypeStep == TypeInv /\ [Next]_vars => TypeInv'
<1> SUFFICES ASSUME TypeInv, [Next]_vars PROVE TypeInv'
  OBVIOUS
<1>0. SharedOK /\ OwnOK /\ SeenOK
  BY DEF TypeInv
<1>a. ASSUME NEW p \in Proc, pc[p] \in Shimming
      PROVE  module[p] \in Module /\ Seg[module[p]] \in Segment
  BY <1>0, <1>a, PackagesAssumption DEF OwnOK, Working
<1>1. ASSUME NEW p \in Proc, NEW m \in Module, Enable(p, m)
      PROVE  TypeInv'
  <2>1. module' \in [Proc -> Module \cup {None}] /\ module'[p] \in Module
        /\ \A q \in Proc : q # p => module'[q] = module[q]
    BY <1>0, <1>1 DEF Enable, OwnOK
  <2>2. OwnOK' /\ SeenOK' /\ commands' \in 0..MaxCommands
    BY <1>1, <2>1, BeginType DEF Enable
  <2>. QED
    BY <1>0, <1>1, <2>2 DEF Enable, TypeInv, SharedOK, project, registry
<1>2. ASSUME NEW p \in Proc, OpenShim(p)
      PROVE  TypeInv'
  <2>1. Working(p)' /\ pc[p] \in Shimming
    BY <1>0, <1>2 DEF OpenShim, Go, locals, Working, OwnOK, Shimming, Editing, Describing
  <2>2. OwnOK' /\ SeenOK' /\ commands' = commands /\ world' = world
    BY <1>2, <2>1, GoType DEF OpenShim, Label
  <2>3. shims' \in [Segment -> Module \cup {Absent, None}]
    BY <1>0, <1>2 DEF OpenShim, SharedOK
  <2>. QED
    BY <1>0, <1>2, <2>2, <2>3 DEF OpenShim, TypeInv, SharedOK, registry, history
<1>3. ASSUME NEW p \in Proc, FillShim(p)
      PROVE  TypeInv'
  <2>1. Working(p)' /\ pc[p] \in Shimming
    BY <1>0, <1>3 DEF FillShim, Go, locals, Working, OwnOK, Shimming, Editing, Describing
  <2>2. OwnOK' /\ SeenOK' /\ commands' = commands /\ world' = world
    BY <1>3, <2>1, GoType DEF FillShim, Label
  <2>3. shims' \in [Segment -> Module \cup {Absent, None}]
    BY <1>0, <1>3, <1>a, <2>1 DEF FillShim, SharedOK
  <2>. QED
    BY <1>0, <1>3, <2>2, <2>3 DEF FillShim, TypeInv, SharedOK, registry, history
<1>4. ASSUME NEW p \in Proc, NEW line \in Lines, NEW v \in Version \cup {None}, End(p, line, v),
             UNCHANGED <<project, registry, owed, torn>>, enabled' \subseteq Module
      PROVE  TypeInv'
  <2>1. OwnOK' /\ SeenOK' /\ commands' = commands /\ world' = world
    BY <1>4, EndType
  <2>. QED
    BY <1>0, <1>4, <2>1 DEF TypeInv, SharedOK, project, registry
<1>5. ASSUME NEW p \in Proc, EditFailed(p) \/ NoName(p) \/ NoPayload(p) \/ UpsertFailed(p)
      PROVE  TypeInv'
  <2>1. End(p, "none", None) /\ UNCHANGED <<project, registry, history>>
    BY <1>5 DEF EditFailed, NoName, NoPayload, UpsertFailed, Fail
  <2>. QED
    BY <1>0, <1>4, <2>1 DEF Lines, history, SharedOK
<1>6. ASSUME NEW p \in Proc, EnabledAlready(p)
      PROVE  TypeInv'
  <2>1. enabled' \subseteq Module
    BY <1>0, <1>6, <1>a DEF EnabledAlready, Enabled, Shimming, SharedOK
  <2>. QED
    BY <1>4, <1>6, <2>1 DEF EnabledAlready, Enabled, Lines
<1>7. ASSUME NEW p \in Proc, EditModules(p)
      PROVE  TypeInv'
  <2> DEFINE s == Seg[module[p]]
  <2>1. s \in Segment /\ module[p] \in Module /\ modulesGo \in Source
    BY <1>0, <1>7, <1>a DEF EditModules, CanEdit, Shimming, SharedOK
  <2>2. WithCall(WithImport(modulesGo, s), s) \in Source
    BY <2>1, EditedType
  <2>3. OwnOK'
    BY <1>0, <1>7, <2>1, <2>2 DEF EditModules, Go, OwnOK, Label, Working, Shimming, Editing,
                                  Describing
  <2>. QED
    BY <1>0, <1>7, <2>3 DEF EditModules, Go, TypeInv, SharedOK, SeenOK, project, registry, history,
                            bounds
<1>8. ASSUME NEW p \in Proc, OpenModules(p)
      PROVE  TypeInv'
  <2>1. Working(p)'
    BY <1>0, <1>8 DEF OpenModules, Go, locals, Working, OwnOK, Shimming, Editing, Describing
  <2>2. OwnOK' /\ SeenOK' /\ commands' = commands /\ world' = world
    BY <1>8, <2>1, GoType DEF OpenModules, Label
  <2>3. modulesGo' \in Source
    BY <1>8 DEF OpenModules, EmptySource, Source
  <2>. QED
    BY <1>0, <1>8, <2>2, <2>3 DEF OpenModules, TypeInv, SharedOK, registry, history
<1>9. ASSUME NEW p \in Proc, FillModules(p)
      PROVE  TypeInv'
  <2>1. module[p] \in Module /\ source[p] \in Source
    BY <1>0, <1>9 DEF FillModules, OwnOK, Working, Shimming, Editing
  <2>2. OwnOK' /\ SeenOK' /\ commands' = commands /\ world' = world
    BY <1>9, EndType DEF FillModules, Enabled, Lines
  <2>. QED
    BY <1>0, <1>9, <2>1, <2>2 DEF FillModules, Enabled, TypeInv, SharedOK, registry
<1>10. ASSUME NEW p \in Proc, NEW o \in Options, Publish(p, o)
       PROVE  TypeInv'
  <2>1. options' \in [Proc -> Options \cup {None}] /\ options'[p] \in Options
        /\ \A q \in Proc : q # p => options'[q] = options[q]
    BY <1>0, <1>10 DEF Publish, OwnOK
  <2>2. OwnOK' /\ SeenOK' /\ commands' \in 0..MaxCommands
    BY <1>10, <2>1, BeginType DEF Publish
  <2>. QED
    BY <1>0, <1>10, <2>2 DEF Publish, TypeInv, SharedOK, project, registry, history
<1>11. ASSUME NEW p \in Proc, ReadManifest(p)
       PROVE  TypeInv'
  <2>1. Updated(Parsed, options[p]) \in Descriptor
    <3>1. Parsed \in Descriptor
      BY <1>0, DescriptorTypes DEF Parsed, Parses, SharedOK
    <3>. QED
      BY <1>0, <1>11, <3>1, DescriptorTypes DEF ReadManifest, OwnOK, Working
  <2>2. OwnOK'
    BY <1>0, <1>11, <2>1 DEF ReadManifest, Go, OwnOK, Label, Working, Shimming, Editing, Describing
  <2>. QED
    BY <1>0, <1>11, <2>2 DEF ReadManifest, Go, TypeInv, SharedOK, SeenOK, project, registry,
                             history,
                             bounds
<1>12. ASSUME NEW p \in Proc, OpenManifest(p)
       PROVE  TypeInv'
  <2>1. Working(p)'
    BY <1>0, <1>12 DEF OpenManifest, Go, locals, Working, OwnOK, Shimming, Editing, Describing
  <2>2. OwnOK' /\ SeenOK' /\ commands' = commands /\ world' = world
    BY <1>12, <2>1, GoType DEF OpenManifest, Label
  <2>. QED
    BY <1>0, <1>12, <2>2, DescriptorTypes DEF OpenManifest, TypeInv, SharedOK, registry, history
<1>13. ASSUME NEW p \in Proc, FillManifest(p)
       PROVE  TypeInv'
  <2>1. Working(p)' /\ info[p] \in Descriptor
    BY <1>0, <1>13 DEF FillManifest, Go, locals, Working, OwnOK, Shimming, Editing, Describing
  <2>2. OwnOK' /\ SeenOK' /\ commands' = commands /\ world' = world
    BY <1>13, <2>1, GoType DEF FillManifest, Label
  <2>. QED
    BY <1>0, <1>13, <2>1, <2>2 DEF FillManifest, TypeInv, SharedOK, registry, history
<1>14. ASSUME NEW p \in Proc, PublishLocally(p) \/ Sent(p) \/ Found(p) \/ Suggest(p)
       PROVE  TypeInv'
  <2>1. PICK line \in Lines : End(p, line, None)
    BY <1>14 DEF PublishLocally, Sent, Found, Suggest, Lines
  <2>2. UNCHANGED <<project, registry, history>>
    BY <1>14 DEF PublishLocally, Sent, Found, Suggest
  <2>. QED
    BY <1>0, <1>4, <2>1, <2>2 DEF history, SharedOK
<1>15. ASSUME NEW v \in SUBSET Version, NEW d \in Descriptor \cup {None}, Registry(v, d)
       PROVE  SeenOK' /\ public' \subseteq Version /\ server' \in Descriptor \cup {None}
  <2>1. Standing(v, d) \in SUBSET {"there", "hidden"}
    BY DEF Standing
  <2>. QED
    BY <1>0, <1>15, <2>1 DEF Registry, SeenOK
<1>16. ASSUME NEW p \in Proc, SendPublish(p)
       PROVE  TypeInv'
  <2>1. info[p] \in Descriptor /\ info[p].version \in Version
    BY <1>0, <1>16 DEF SendPublish, OwnOK, Working, Describing, Descriptor
  <2>2. SeenOK' /\ public' \subseteq Version /\ server' \in Descriptor \cup {None}
    BY <1>0, <1>15, <1>16, <2>1 DEF SendPublish, SharedOK
  <2>3. OwnOK'
    BY <1>0, <1>16, <2>1 DEF SendPublish, locals, OwnOK, Label, Working, Shimming, Editing,
                             Describing
  <2>. QED
    BY <1>0, <1>16, <2>2, <2>3 DEF SendPublish, TypeInv, SharedOK, project, history, bounds
<1>17. ASSUME NEW p \in Proc, Published(p)
       PROVE  TypeInv'
  <2>1. info[p].version \in Version
    BY <1>0, <1>17 DEF Published, OwnOK, Working
  <2>. QED
    BY <1>0, <1>4, <1>17, <2>1 DEF Published, Lines, history, SharedOK
<1>18. ASSUME NEW p \in Proc, PublishFailed(p)
       PROVE  TypeInv'
  <2>1. info[p] \in Descriptor
    BY <1>0, <1>18 DEF PublishFailed, OwnOK, Working, Describing
  <2>2. info[p].version \in Version \cup {None}
    BY <2>1 DEF Descriptor
  <2>. QED
    BY <1>0, <1>4, <1>18, <2>2 DEF PublishFailed, PublishLine, Lines, history, SharedOK
<1>19. ASSUME NEW p \in Proc, Upsert(p) \/ Info(p)
       PROVE  TypeInv'
  <2>1. PICK label \in {"payload", "detail"} : Begin(p, label)
    BY <1>19 DEF Upsert, Info
  <2>2. UNCHANGED <<project, registry, locals, history, world>>
    BY <1>19 DEF Upsert, Info
  <2>3. OwnOK' /\ SeenOK' /\ commands' \in 0..MaxCommands
    BY <2>1, <2>2, BeginType DEF locals
  <2>. QED
    BY <1>0, <2>2, <2>3 DEF TypeInv, SharedOK, project, registry, history
<1>20. ASSUME NEW p \in Proc, BuildPayload(p)
       PROVE  TypeInv'
  <2>1. manifest \in Descriptor
    BY <1>0, <1>20 DEF BuildPayload, Parses, SharedOK
  <2>2. OwnOK'
    BY <1>0, <1>20, <2>1 DEF BuildPayload, Go, OwnOK, Label, Working, Shimming, Editing, Describing
  <2>. QED
    BY <1>0, <1>20, <2>2 DEF BuildPayload, Go, TypeInv, SharedOK, SeenOK, project, registry,
                             history,
                             bounds
<1>21. ASSUME NEW p \in Proc, SendPayload(p)
       PROVE  TypeInv'
  <2>1. info[p] \in Descriptor
    BY <1>0, <1>21 DEF SendPayload, OwnOK, Working, Describing
  <2>2. SeenOK' /\ public' \subseteq Version /\ server' \in Descriptor \cup {None}
    BY <1>0, <1>15, <1>21, <2>1 DEF SendPayload, SharedOK
  <2>3. OwnOK'
    BY <1>0, <1>21, <2>1 DEF SendPayload, locals, OwnOK, Label, Working, Shimming, Editing,
                             Describing
  <2>. QED
    BY <1>0, <1>21, <2>2, <2>3 DEF SendPayload, TypeInv, SharedOK, project, history, bounds
<1>22. ASSUME NEW p \in Proc, AskNext(p)
       PROVE  TypeInv'
  <2>1. pc[p] \in {"detail", "install"} /\ UNCHANGED <<project, registry, locals, told, seen,
                                                        history, bounds>>
    BY <1>22 DEF AskNext
  <2>2. PICK label \in {"install", "search"} : pc' = [pc EXCEPT ![p] = label]
    BY <1>22 DEF AskNext
  <2>3. known' = known \/ known' = [known EXCEPT ![p] = @ \cup {pc[p]}]
    BY <1>22 DEF AskNext
  <2>4. SeenOK'
    BY <1>0, <2>1, <2>3 DEF SeenOK
  <2>5. Working(p)'
    BY <1>0, <2>1, <2>2 DEF OwnOK, Working, Shimming, Editing, Describing, locals
  <2>6. OwnOK'
    BY <1>0, <2>1, <2>2, <2>5 DEF OwnOK, Label, Working, locals
  <2>. QED
    BY <1>0, <2>1, <2>4, <2>6 DEF TypeInv, SharedOK, project, registry, history, bounds
<1>23. ASSUME NEW p \in Proc, ListLocal(p)
       PROVE  TypeInv'
  <2>1. (IF modulesGo # Absent /\ modulesGo.block THEN modulesGo.imports ELSE {}) \in SUBSET Segment
    BY <1>0 DEF SharedOK, Source
  <2>2. PICK t \in Told : told' = [told EXCEPT ![p] = t]
    BY <1>23, <2>1, SaidType DEF ListLocal, Lines
  <2>3. OwnOK'
    BY <1>0, <1>23, <2>2 DEF ListLocal, locals, OwnOK, Working
  <2>4. commands' \in 0..MaxCommands
    BY <1>0, <1>23, PackagesAssumption DEF ListLocal, SharedOK
  <2>. QED
    BY <1>0, <1>23, <2>3, <2>4 DEF ListLocal, TypeInv, SharedOK, SeenOK, project, registry, history
<1>24. ASSUME NEW p \in Proc, Stop(p)
       PROVE  TypeInv'
  <2>1. OwnOK' /\ SeenOK' /\ commands' = commands /\ world' = world
    BY <1>24, EndType DEF Stop, Fail, Lines
  <2>2. modulesGo' \in Source \cup {Absent}
    <3>1. CASE pc[p] = "fillModules"
      <4>1. source[p] \in Source
        BY <1>0, <3>1 DEF OwnOK, Working, Editing
      <4>2. Beginnings(source[p]) \subseteq Source
        BY <4>1, BeginningsType
      <4>. QED
        BY <1>24, <3>1, <4>2 DEF Stop
    <3>2. CASE pc[p] # "fillModules"
      BY <1>0, <1>24, <3>2 DEF Stop, SharedOK
    <3>. QED
      BY <3>1, <3>2
  <2>3. torn' \in BOOLEAN /\ owed' \subseteq Field
    BY <1>0, <1>24 DEF Stop, SharedOK
  <2>. QED
    BY <1>0, <1>24, <2>1, <2>2, <2>3 DEF Stop, TypeInv, SharedOK, registry
<1>25. CASE Withdraw
  <2>1. PICK v \in SUBSET Version, d \in Descriptor \cup {None} : Registry(v, d)
    BY <1>0, <1>25 DEF Withdraw, SharedOK
  <2>2. SeenOK' /\ public' \subseteq Version /\ server' \in Descriptor \cup {None}
    BY <1>15, <2>1
  <2>3. world' \in 0..MaxWorld
    BY <1>0, <1>25, PackagesAssumption DEF Withdraw, SharedOK
  <2>4. OwnOK'
    BY <1>0, <1>25 DEF Withdraw, locals, OwnOK, Working
  <2>. QED
    BY <1>0, <1>25, <2>2, <2>3, <2>4 DEF Withdraw, TypeInv, SharedOK, project, history
<1>26. CASE UNCHANGED vars
  BY <1>0, <1>26 DEF vars, project, registry, locals, history, bounds, TypeInv, SharedOK, OwnOK,
                     SeenOK, Working
<1>. QED
  BY <1>1, <1>2, <1>3, <1>5, <1>6, <1>7, <1>8, <1>9, <1>10, <1>11, <1>12, <1>13, <1>14, <1>16,
     <1>17, <1>18, <1>19, <1>20, <1>21, <1>22, <1>23, <1>24, <1>25, <1>26
     DEF Next, Enabling, Publishing, Sending, Asking, Finished

LEMMA TypeAlways == Spec => []TypeInv
BY TypeInit, TypeStep, PTL DEF Spec

(* Every reachable state of a project and its package is well typed: what  *)
(* is written to modules.go and kuetix.json was read and changed before.   *)
THEOREM PackagesTypeCorrect == Spec => []TypeOK
<1>1. TypeInv => TypeOK
  BY DEF TypeInv, SharedOK, OwnOK, SeenOK, TypeOK, Label, Told
<1>. QED
  BY <1>1, TypeAlways, PTL

-----------------------------------------------------------------------------
(* What is reported of the registry.                                       *)

(* What a registry says of a package it has is an object with something    *)
(* under "data", or beside it; that it has none it says by the status, by  *)
(* saying nothing, by "success", or by a "data" with nothing in it.        *)
ClearAnswers ==
    /\ \A b \in Shown : /\ b.ok /\ b.text = "object" /\ ~b.refused
                        /\ b.data \in {"fields", "items", "absent"}
    /\ \A b \in Denials :
         \/ ~b.ok \/ b.text = "none"
         \/ b.text = "object" /\ b.refused
         \/ b.text = "object" /\ b.data \in {"noFields", "nameless", "unresolved", "noItems"}

(* A look-up that has not found the package could not see it at some time, *)
(* or what it has asked for has failed.                                    *)
Missed(p) == "hidden" \in known[p] \/ {"detail", "install"} \subseteq known[p]

LookupInv(p) ==
    /\ told[p].line = "found" => "there" \in known[p]
    /\ pc[p] = "install" => "hidden" \in known[p] \/ "detail" \in known[p]
    /\ pc[p] = "search" \/ told[p].line = "not found" => Missed(p)

(* What a command may still report it has seen: it remembers what was      *)
(* public and what it could see, whoever changed the registry meanwhile.   *)
SeenInv(p) ==
    /\ pc[p] = "published" => info[p].version \in seen[p]
    /\ told[p].line = "published" => told[p].version \in seen[p]
    /\ pc[p] # "idle" => Standing(public, server) \subseteq known[p]
    /\ ClearAnswers => LookupInv(p)

AllSeen == \A p \in Proc : SeenInv(p)

(* A step of others leaves a command what it has.                          *)
LEMMA OthersSeen ==
    ASSUME NEW p \in Proc, SeenInv(p), UNCHANGED <<pc[p], info[p], told[p]>>,
           seen[p] \subseteq seen'[p], known[p] \subseteq known'[p],
           pc[p] # "idle" => UNCHANGED registry \/ Standing(public, server)' \subseteq known'[p]
    PROVE  SeenInv(p)'
BY DEF SeenInv, LookupInv, Missed, registry, Standing

LEMMA SeenStep == TypeInv /\ AllSeen /\ [Next]_vars => AllSeen'
<1> SUFFICES ASSUME TypeInv, AllSeen, [Next]_vars PROVE AllSeen'
  OBVIOUS
<1>0. OwnOK /\ SeenOK
  BY DEF TypeInv
<1>1. ASSUME NEW p \in Proc, NEW label, Begin(p, label), UNCHANGED <<registry, info>>,
             label \notin {"published", "install", "search"}
      PROVE  AllSeen'
  <2>1. /\ pc'[p] = label /\ told'[p] = Nothing /\ known'[p] = Standing(public, server)
        /\ \A q \in Proc : q # p => UNCHANGED <<pc[q], told[q], seen[q], known[q]>>
    BY <1>0, <1>1 DEF Begin, OwnOK, SeenOK
  <2>2. SeenInv(p)'
    BY <1>1, <2>1 DEF SeenInv, LookupInv, Nothing, Said, registry, Standing
  <2>3. ASSUME NEW q \in Proc, q # p PROVE SeenInv(q)'
    BY <1>1, <2>1, <2>3, OthersSeen DEF AllSeen
  <2>. QED
    BY <2>2, <2>3 DEF AllSeen
<1>2. ASSUME NEW p \in Proc, NEW line, NEW v, End(p, line, v), UNCHANGED registry,
             line = "published" => v \in seen[p],
             ClearAnswers => /\ line = "found" => "there" \in known[p]
                             /\ line = "not found" => Missed(p)
      PROVE  AllSeen'
  <2>1. /\ pc'[p] = "idle" /\ told'[p] = Said(line, v, {}) /\ UNCHANGED <<seen, known>>
        /\ \A q \in Proc : q # p => UNCHANGED <<pc[q], told[q], info[q]>>
    BY <1>0, <1>2 DEF End, OwnOK
  <2>2. told'[p].line = line /\ told'[p].version = v
    BY <2>1 DEF Said
  <2>3. ASSUME ClearAnswers
        PROVE  LookupInv(p)'
    BY <1>2, <2>1, <2>2, <2>3 DEF LookupInv, Missed
  <2>4. SeenInv(p)'
    BY <1>2, <2>1, <2>2, <2>3 DEF SeenInv
  <2>5. ASSUME NEW q \in Proc, q # p PROVE SeenInv(q)'
    BY <1>2, <2>1, <2>5, OthersSeen DEF AllSeen
  <2>. QED
    BY <2>4, <2>5 DEF AllSeen
<1>3. ASSUME NEW p \in Proc, NEW label, Go(p, label), pc[p] # "idle",
             label \notin {"published", "install", "search"},
             UNCHANGED registry, \A q \in Proc : q # p => info'[q] = info[q]
      PROVE  AllSeen'
  <2>1. /\ pc'[p] = label /\ UNCHANGED <<told, seen, known>>
        /\ \A q \in Proc : q # p => pc'[q] = pc[q]
    BY <1>0, <1>3 DEF Go, OwnOK
  <2>2. SeenInv(p)'
    BY <1>3, <2>1 DEF AllSeen, SeenInv, LookupInv, Missed, registry, Standing
  <2>3. ASSUME NEW q \in Proc, q # p PROVE SeenInv(q)'
    BY <1>3, <2>1, <2>3, OthersSeen DEF AllSeen
  <2>. QED
    BY <2>2, <2>3 DEF AllSeen
<1>4. ASSUME NEW v, NEW d, Registry(v, d)
      PROVE  \A q \in Proc : /\ seen[q] \subseteq seen'[q] /\ known[q] \subseteq known'[q]
                             /\ pc[q] # "idle" => /\ Standing(public, server)' \subseteq known'[q]
                                                  /\ v \subseteq seen'[q]
  BY <1>4 DEF Registry, Standing
<1>5. ASSUME NEW p \in Proc, NEW v, NEW d, NEW label, Registry(v, d), pc[p] # "idle",
             pc' = [pc EXCEPT ![p] = label], UNCHANGED <<told, info>>,
             label \notin {"install", "search"}, label = "published" => info[p].version \in v
      PROVE  AllSeen'
  <2>1. SeenInv(p)'
    BY <1>0, <1>4, <1>5 DEF AllSeen, SeenInv, LookupInv, Missed, OwnOK
  <2>2. ASSUME NEW q \in Proc, q # p PROVE SeenInv(q)'
    BY <1>0, <1>4, <1>5, <2>2, OthersSeen DEF AllSeen, OwnOK
  <2>. QED
    BY <2>1, <2>2 DEF AllSeen
<1>6. ASSUME NEW p \in Proc, NEW m \in Module, Enable(p, m)
      PROVE  AllSeen'
  BY <1>1, <1>6 DEF Enable
<1>7. ASSUME NEW p \in Proc, NEW o \in Options, Publish(p, o)
      PROVE  AllSeen'
  BY <1>1, <1>7 DEF Publish
<1>8. ASSUME NEW p \in Proc, Upsert(p) \/ Info(p)
      PROVE  AllSeen'
  BY <1>1, <1>8 DEF Upsert, Info, locals
<1>9. ASSUME NEW p \in Proc, OpenShim(p) \/ FillShim(p) \/ EditModules(p) \/ OpenModules(p)
      PROVE  AllSeen'
  BY <1>3, <1>9 DEF OpenShim, FillShim, EditModules, OpenModules, locals
<1>10. ASSUME NEW p \in Proc, OpenManifest(p) \/ FillManifest(p)
       PROVE  AllSeen'
  BY <1>3, <1>10 DEF OpenManifest, FillManifest, locals
<1>11. ASSUME NEW p \in Proc, ReadManifest(p)
       PROVE  AllSeen'
  <2>1. \A q \in Proc : q # p => info'[q] = info[q]
    BY <1>0, <1>11 DEF ReadManifest, OwnOK
  <2>. QED
    BY <1>3, <1>11, <2>1 DEF ReadManifest
<1>12. ASSUME NEW p \in Proc, BuildPayload(p)
       PROVE  AllSeen'
  <2>1. \A q \in Proc : q # p => info'[q] = info[q]
    BY <1>0, <1>12 DEF BuildPayload, OwnOK
  <2>. QED
    BY <1>3, <1>12, <2>1 DEF BuildPayload
<1>13. ASSUME NEW p \in Proc, AskNext(p)
       PROVE  AllSeen'
  <2>1. /\ pc[p] \in {"detail", "install"}
        /\ pc'[p] = IF pc[p] = "detail" THEN "install" ELSE "search"
        /\ UNCHANGED <<registry, info, told, seen>>
        /\ \A q \in Proc : q # p => UNCHANGED <<pc[q], known[q]>>
    BY <1>0, <1>13 DEF AskNext, OwnOK, SeenOK, locals
  <2>2. known'[p] = known[p] \/ known'[p] = known[p] \cup {pc[p]}
    BY <1>0, <1>13 DEF AskNext, SeenOK
  <2>3. Standing(public, server) \subseteq known[p]
    BY <2>1 DEF AllSeen, SeenInv
  \* What is not taken for the package is a denial.
  <2>4. ASSUME ClearAnswers
        PROVE  "hidden" \in known[p] \/ pc[p] \in known'[p]
    <3>1. CASE \E b \in Answers : ~(b.ok /\ HasData(b))
      <4>1. PICK b \in Answers : ~(b.ok /\ HasData(b))
        BY <3>1
      <4>2. b \notin Shown
        BY <2>4, <4>1 DEF ClearAnswers, HasData, Void
      <4>3. "hidden" \in Standing(public, server)
        BY <4>1, <4>2 DEF Answers
      <4>. QED
        BY <2>3, <4>3
    <3>2. CASE known' = [known EXCEPT ![p] = @ \cup {pc[p]}]
      BY <1>0, <3>2 DEF SeenOK
    <3>. QED
      BY <1>13, <3>1, <3>2 DEF AskNext
  <2>5. ASSUME ClearAnswers
        PROVE  LookupInv(p)'
    BY <2>1, <2>2, <2>4, <2>5 DEF AllSeen, SeenInv, LookupInv, Missed
  <2>6. SeenInv(p)'
    BY <2>1, <2>2, <2>3, <2>5 DEF AllSeen, SeenInv, registry, Standing
  <2>7. ASSUME NEW q \in Proc, q # p PROVE SeenInv(q)'
    BY <2>1, <2>7, OthersSeen DEF AllSeen
  <2>. QED
    BY <2>6, <2>7 DEF AllSeen
<1>14. ASSUME NEW p \in Proc,
              EditFailed(p) \/ NoName(p) \/ NoPayload(p) \/ UpsertFailed(p) \/ Stop(p)
       PROVE  AllSeen'
  BY <1>2, <1>14 DEF EditFailed, NoName, NoPayload, UpsertFailed, Stop, Fail
<1>15. ASSUME NEW p \in Proc, EnabledAlready(p) \/ FillModules(p)
       PROVE  AllSeen'
  BY <1>2, <1>15 DEF EnabledAlready, FillModules, Enabled
<1>16. ASSUME NEW p \in Proc, PublishLocally(p) \/ Sent(p)
       PROVE  AllSeen'
  BY <1>2, <1>16 DEF PublishLocally, Sent
<1>17. ASSUME NEW p \in Proc, PublishFailed(p)
       PROVE  AllSeen'
  BY <1>2, <1>17 DEF PublishFailed, PublishLine
<1>18. ASSUME NEW p \in Proc, Published(p)
       PROVE  AllSeen'
  <2>1. info[p].version \in seen[p]
    BY <1>18 DEF Published, AllSeen, SeenInv
  <2>. QED
    BY <1>2, <1>18, <2>1 DEF Published
<1>19. ASSUME NEW p \in Proc, Found(p)
       PROVE  AllSeen'
  <2>1. ASSUME ClearAnswers
        PROVE  "there" \in known[p]
    <3>1. PICK b \in Answers : b.ok /\ HasData(b)
      BY <1>19 DEF Found
    <3>2. b \notin Denials
      BY <2>1, <3>1 DEF ClearAnswers, HasData, Void
    <3>3. "there" \in Standing(public, server)
      BY <3>1, <3>2 DEF Answers
    <3>. QED
      BY <1>19, <3>3 DEF Found, AllSeen, SeenInv
  <2>. QED
    BY <1>2, <1>19, <2>1 DEF Found
<1>20. ASSUME NEW p \in Proc, SendPublish(p)
       PROVE  AllSeen'
  <2>1. /\ Registry(public \cup {info[p].version}, server) /\ pc[p] # "idle"
        /\ pc' = [pc EXCEPT ![p] = "published"] /\ UNCHANGED <<told, info>>
    BY <1>20 DEF SendPublish, locals
  <2>2. info[p].version \in public \cup {info[p].version}
    OBVIOUS
  <2>. QED
    BY <1>5, <2>1, <2>2
<1>21. ASSUME NEW p \in Proc, SendPayload(p)
       PROVE  AllSeen'
  <2>1. /\ Registry(public, info[p]) /\ pc[p] # "idle"
        /\ pc' = [pc EXCEPT ![p] = "sent"] /\ UNCHANGED <<told, info>>
    BY <1>21 DEF SendPayload, locals
  <2>2. "sent" \notin {"install", "search"} /\ "sent" # "published"
    OBVIOUS
  <2>. QED
    BY <1>5, <2>1, <2>2
<1>22. ASSUME NEW p \in Proc, ListLocal(p)
       PROVE  AllSeen'
  <2>1. pc[p] = "idle" /\ UNCHANGED <<registry, pc, info, seen, known>>
    BY <1>22 DEF ListLocal, locals
  <2>2. told'[p].line = "listed" /\ \A q \in Proc : q # p => told'[q] = told[q]
    BY <1>0, <1>22 DEF ListLocal, Said, OwnOK
  <2>3. SeenInv(p)'
    BY <2>1, <2>2 DEF AllSeen, SeenInv, LookupInv, Missed
  <2>4. ASSUME NEW q \in Proc, q # p PROVE SeenInv(q)'
    BY <2>1, <2>2, <2>4, OthersSeen DEF AllSeen
  <2>. QED
    BY <2>3, <2>4 DEF AllSeen
<1>23. CASE Withdraw
  <2>1. PICK v, d : Registry(v, d)
    BY <1>23 DEF Withdraw
  <2>2. UNCHANGED <<pc, info, told>>
    BY <1>23 DEF Withdraw, locals
  <2>3. ASSUME NEW q \in Proc PROVE SeenInv(q)'
    BY <1>4, <2>1, <2>2, OthersSeen DEF AllSeen
  <2>. QED
    BY <2>3 DEF AllSeen
<1>24. CASE UNCHANGED vars
  BY <1>24 DEF vars, registry, locals, AllSeen, SeenInv, LookupInv, Missed, Standing
<1>25. ASSUME NEW p \in Proc, Suggest(p)
       PROVE  AllSeen'
  <2>1. ClearAnswers => Missed(p)
    BY <1>25 DEF Suggest, AllSeen, SeenInv, LookupInv
  <2>. QED
    BY <1>2, <1>25, <2>1 DEF Suggest
<1>. QED
  BY <1>6, <1>7, <1>8, <1>9, <1>10, <1>11, <1>12, <1>13, <1>14, <1>15, <1>16, <1>17, <1>18, <1>19,
     <1>20, <1>21, <1>22, <1>23, <1>24, <1>25
     DEF Next, Enabling, Publishing, Sending, Asking, Finished

LEMMA SeenAlways == Spec => []AllSeen
<1>1. Init => AllSeen
  <2>. SUFFICES ASSUME Init, NEW p \in Proc
       PROVE  SeenInv(p)
    BY DEF AllSeen
  <2>1. pc[p] = "idle" /\ told[p].line = "none"
    BY DEF Init, Nothing, Said
  <2>. QED
    BY <2>1 DEF SeenInv, LookupInv
<1>. QED
  BY <1>1, SeenStep, TypeAlways, PTL DEF Spec

(* "now publicly visible": a version that publish reports was public at    *)
(* some time during the command, for any number of commands at once and    *)
(* whatever is lost, withdrawn or cut short (publishPackage).              *)
THEOREM PublishReportCorrect == Spec => []PublishReportIsTrue
<1>1. AllSeen => PublishReportIsTrue
  BY DEF AllSeen, SeenInv, PublishReportIsTrue
<1>. QED
  BY <1>1, SeenAlways, PTL

(* A look-up shows a package only if it was there at some time during the  *)
(* command, and says that there is none only if it could not be seen at    *)
(* some time or both endpoints failed, whoever publishes and withdraws     *)
(* between its requests: for a registry that says clearly what it has.     *)
(* packageBodyHasData takes what is no JSON object for the package, and an *)
(* object whose "data" is null, whatever they say (PackageInfoCommand).    *)
THEOREM LookupCorrect ==
    ASSUME ClearAnswers
    PROVE  Spec => []LookupIsTrue
<1>1. AllSeen => LookupIsTrue
  BY DEF AllSeen, SeenInv, LookupInv, Missed, LookupIsTrue
<1>. QED
  BY <1>1, SeenAlways, PTL

-----------------------------------------------------------------------------
(* What stays in the project.  Commands that run one after the other; with *)
(* two at once pk_lost.cfg has the module that is lost.                    *)

Sole == \A p, q \in Proc : p = q

(* A modules.go that enableModule can add to: with an Enable function, and *)
(* an import block or an init to put one before.                           *)
Usable(s) == s.enable /\ (s.block \/ s.init) /\ s.imports \subseteq s.calls

(* The names of the packages tell the modules apart and none of them is    *)
(* the beginning of another, as pk_prefix needs; modules.go is not there   *)
(* or is what a project is created with, edited by enables alone.          *)
UsualProject ==
    /\ Longer = {}
    /\ \A m, n \in Module : Seg[m] = Seg[n] => m = n
    /\ \A s \in Shapes : s = Absent \/ Usable(s)

(* The shim of a module is written before it is enabled, and that of an    *)
(* enabled one is only touched by an enable that takes back the report.    *)
ShimInv ==
    /\ \A m \in enabled : shims[Seg[m]] = m
    /\ \A p \in Proc :
         /\ pc[p] \in Shimming => module[p] \notin enabled
         /\ pc[p] \in {"edit"} \cup Editing => shims[Seg[module[p]]] = module[p]

(* Between the truncation and the text, the text to come has everything,   *)
(* also what modules.go imports without a report.                          *)
ModulesInv ==
    ~torn =>
        /\ ~BeingWritten =>
             /\ modulesGo = Absent \/ Usable(modulesGo)
             /\ \A m \in enabled : modulesGo # Absent /\ Seg[m] \in modulesGo.imports
        /\ \A p \in Proc : pc[p] \in Editing =>
             /\ Usable(source[p])
             /\ \A m \in enabled \cup {module[p]} : Seg[m] \in source[p].imports
        /\ \A p \in Proc : pc[p] = "openModules" => modulesGo.imports \subseteq source[p].imports

WiredInv == ShimInv /\ ModulesInv

(* An edit keeps what is there, adds the module and stays usable.          *)
LEMMA EditAdds ==
    ASSUME NEW s \in Source, NEW t \in Segment, Usable(s)
    PROVE  /\ Usable(WithCall(WithImport(s, t), t))
           /\ t \in WithCall(WithImport(s, t), t).imports
           /\ s.imports \subseteq WithCall(WithImport(s, t), t).imports
<1>1. WithImport(s, t) = [s EXCEPT !.imports = @ \cup {t}, !.block = TRUE]
  BY DEF Usable, WithImport
<1>2. /\ WithImport(s, t).imports = s.imports \cup {t} /\ WithImport(s, t).block = TRUE
      /\ WithImport(s, t).enable = s.enable /\ WithImport(s, t).calls = s.calls
      /\ WithImport(s, t) \in Source
  BY <1>1 DEF Source
<1>3. WithCall(WithImport(s, t), t) = [WithImport(s, t) EXCEPT !.calls = @ \cup {t}]
  BY <1>2 DEF Usable, WithCall
<1>4. /\ WithCall(WithImport(s, t), t).imports = s.imports \cup {t}
      /\ WithCall(WithImport(s, t), t).calls = s.calls \cup {t}
      /\ WithCall(WithImport(s, t), t).block = TRUE
      /\ WithCall(WithImport(s, t), t).enable = s.enable
  BY <1>2, <1>3 DEF Source
<1>. QED
  BY <1>4 DEF Usable

LEMMA WiredStep ==
    ASSUME Sole, UsualProject, TypeInv, WiredInv, [Next]_vars
    PROVE  WiredInv'
<1>0. SharedOK /\ OwnOK
  BY DEF TypeInv
<1>a. ASSUME NEW p \in Proc, pc[p] \in Shimming
      PROVE  module[p] \in Module /\ Seg[module[p]] \in Segment
  BY <1>0, <1>a, PackagesAssumption DEF OwnOK, Working
<1>b. \A m, n \in Module : Seg[m] = Seg[n] => m = n
  BY DEF UsualProject
<1>c. \A p, q \in Proc : p = q
  BY DEF Sole
(* A step elsewhere: modules.go, the shims and the report are let alone.   *)
<1>1. ASSUME UNCHANGED <<modulesGo, shims, enabled, torn, module, source>>,
             \A p \in Proc : pc'[p] # pc[p] => pc[p] \notin Shimming /\ pc'[p] \notin Shimming
      PROVE  WiredInv'
  <2>1. BeingWritten' <=> BeingWritten
    BY <1>1 DEF BeingWritten, Shimming
  <2>2. ShimInv'
    BY <1>1 DEF WiredInv, ShimInv, Shimming, Editing
  <2>3. ModulesInv'
    BY <1>1, <2>1 DEF WiredInv, ModulesInv, Shimming, Editing
  <2>. QED
    BY <2>2, <2>3 DEF WiredInv
<1>2. ASSUME NEW p \in Proc, NEW m \in Module, Enable(p, m)
      PROVE  WiredInv'
  <2>1. /\ pc[p] = "idle" /\ pc'[p] = "shim" /\ module'[p] = m /\ enabled' = enabled \ {m}
        /\ UNCHANGED <<modulesGo, shims, torn, source>>
    BY <1>0, <1>2 DEF Enable, Begin, OwnOK, project
  <2>2. ~BeingWritten /\ ~BeingWritten'
    BY <1>c, <2>1 DEF BeingWritten
  <2>3. ShimInv'
    BY <1>c, <2>1 DEF WiredInv, ShimInv, Shimming, Editing
  <2>4. ModulesInv'
    BY <1>c, <2>1, <2>2 DEF WiredInv, ModulesInv, Editing
  <2>. QED
    BY <2>3, <2>4 DEF WiredInv
<1>3. ASSUME NEW p \in Proc, pc[p] \in {"shim", "fillShim"}, pc'[p] \in {"fillShim", "edit"},
             NEW v, shims' = [shims EXCEPT ![Seg[module[p]]] = v], pc'[p] = "edit" => v = module[p],
             UNCHANGED <<modulesGo, enabled, torn, module, source>>
      PROVE  WiredInv'
  <2>1. module[p] \in Module /\ Seg[module[p]] \in Segment /\ module[p] \notin enabled
    BY <1>3, <1>a DEF WiredInv, ShimInv, Shimming
  <2>2. ~BeingWritten /\ ~BeingWritten'
    BY <1>c, <1>3 DEF BeingWritten
  <2>3. \A m \in enabled : m \in Module /\ Seg[m] # Seg[module[p]] /\ Seg[m] \in Segment
    BY <1>0, <1>b, <2>1, PackagesAssumption DEF SharedOK
  <2>4. shims'[Seg[module[p]]] = v /\ \A m \in enabled : shims'[Seg[m]] = shims[Seg[m]]
    BY <1>0, <1>3, <2>1, <2>3 DEF SharedOK
  <2>5. ShimInv'
    BY <1>c, <1>3, <2>1, <2>4 DEF WiredInv, ShimInv, Shimming, Editing
  <2>6. ModulesInv'
    BY <1>c, <1>3, <2>2 DEF WiredInv, ModulesInv, Editing
  <2>. QED
    BY <2>5, <2>6 DEF WiredInv
<1>4. ASSUME NEW p \in Proc, OpenShim(p) \/ FillShim(p)
      PROVE  WiredInv'
  <2>1. UNCHANGED <<modulesGo, enabled, torn, module, source>>
    BY <1>4 DEF OpenShim, FillShim, locals, history
  <2>2. CASE OpenShim(p)
    <3>1. pc[p] = "shim" /\ pc'[p] = "fillShim" /\ shims' = [shims EXCEPT ![Seg[module[p]]] = None]
      BY <1>0, <2>2 DEF OpenShim, Go, OwnOK
    <3>. QED
      BY <1>3, <2>1, <3>1
  <2>3. CASE FillShim(p)
    <3>1. /\ pc[p] = "fillShim" /\ pc'[p] = "edit"
          /\ shims' = [shims EXCEPT ![Seg[module[p]]] = module[p]]
      BY <1>0, <2>3 DEF FillShim, Go, OwnOK
    <3>. QED
      BY <1>3, <2>1, <3>1
  <2>. QED
    BY <1>4, <2>2, <2>3
<1>5. ASSUME NEW p \in Proc, EnabledAlready(p)
      PROVE  WiredInv'
  <2>1. /\ pc[p] = "edit" /\ pc'[p] = "idle" /\ enabled' = enabled \cup {module[p]}
        /\ UNCHANGED <<modulesGo, shims, torn>>
        /\ modulesGo # Absent /\ Contains(modulesGo, Seg[module[p]])
    BY <1>0, <1>5 DEF EnabledAlready, Enabled, End, OwnOK, project, CanEdit
  <2>2. Seg[module[p]] \in modulesGo.imports
    BY <2>1 DEF Contains, UsualProject
  <2>3. ~BeingWritten /\ ~BeingWritten'
    BY <1>c, <2>1 DEF BeingWritten
  <2>4. ShimInv'
    BY <1>c, <2>1 DEF WiredInv, ShimInv, Shimming, Editing
  <2>5. ModulesInv'
    BY <1>c, <2>1, <2>2, <2>3 DEF WiredInv, ModulesInv, Editing
  <2>. QED
    BY <2>4, <2>5 DEF WiredInv
<1>6. ASSUME NEW p \in Proc, EditModules(p)
      PROVE  WiredInv'
  <2> DEFINE t == Seg[module[p]]
             s == WithCall(WithImport(modulesGo, t), t)
  <2>1. /\ pc[p] = "edit" /\ pc'[p] = "openModules" /\ source'[p] = s
        /\ UNCHANGED <<modulesGo, shims, enabled, torn, module>>
        /\ modulesGo \in Source /\ modulesGo # Absent /\ t \in Segment
    BY <1>0, <1>6, <1>a DEF EditModules, Go, OwnOK, SharedOK, project, history, CanEdit, Shimming
  <2>2. ~BeingWritten /\ ~BeingWritten'
    BY <1>c, <2>1 DEF BeingWritten
  <2>3. ShimInv'
    BY <1>c, <2>1 DEF WiredInv, ShimInv, Shimming, Editing
  <2>4. ~torn => /\ Usable(modulesGo) /\ \A m \in enabled : Seg[m] \in modulesGo.imports
    BY <2>1, <2>2 DEF WiredInv, ModulesInv
  <2>5. ~torn => /\ Usable(s) /\ t \in s.imports /\ \A m \in enabled : Seg[m] \in s.imports
                 /\ modulesGo.imports \subseteq s.imports
    BY <2>1, <2>4, EditAdds
  <2>6. ModulesInv'
    BY <1>c, <2>1, <2>2, <2>4, <2>5 DEF ModulesInv, Editing
  <2>. QED
    BY <2>3, <2>6 DEF WiredInv
<1>7. ASSUME NEW p \in Proc, OpenModules(p)
      PROVE  WiredInv'
  <2>1. /\ pc[p] = "openModules" /\ pc'[p] = "fillModules"
        /\ UNCHANGED <<shims, enabled, torn, module, source>>
    BY <1>0, <1>7 DEF OpenModules, Go, OwnOK, locals, history
  <2>2. BeingWritten'
    BY <2>1 DEF BeingWritten
  <2>3. ShimInv'
    BY <1>c, <2>1 DEF WiredInv, ShimInv, Shimming, Editing
  <2>4. ModulesInv'
    BY <1>c, <2>1, <2>2 DEF WiredInv, ModulesInv, Editing
  <2>. QED
    BY <2>3, <2>4 DEF WiredInv
<1>8. ASSUME NEW p \in Proc, FillModules(p)
      PROVE  WiredInv'
  <2>1. /\ pc[p] = "fillModules" /\ pc'[p] = "idle" /\ enabled' = enabled \cup {module[p]}
        /\ modulesGo' = source[p] /\ UNCHANGED <<shims, torn>> /\ source[p] \in Source
    BY <1>0, <1>8 DEF FillModules, Enabled, End, OwnOK, Working, Editing
  <2>2. ShimInv'
    BY <1>c, <2>1 DEF WiredInv, ShimInv, Shimming, Editing
  <2>3. modulesGo' # Absent
    BY <2>1, PackagesAssumption
  <2>4. ModulesInv'
    BY <1>c, <2>1, <2>3 DEF WiredInv, ModulesInv, Editing
  <2>. QED
    BY <2>2, <2>4 DEF WiredInv
<1>9. ASSUME NEW p \in Proc, NEW line, NEW v, pc[p] # "fillModules", End(p, line, v),
             UNCHANGED <<modulesGo, shims, enabled, torn>>
      PROVE  WiredInv'
  <2>1. pc'[p] = "idle"
    BY <1>0, <1>9 DEF End, OwnOK
  <2>2. ~BeingWritten /\ ~BeingWritten'
    BY <1>c, <1>9, <2>1 DEF BeingWritten
  <2>3. ShimInv'
    BY <1>c, <1>9, <2>1 DEF WiredInv, ShimInv, Shimming, Editing
  <2>4. ModulesInv'
    BY <1>c, <1>9, <2>1, <2>2 DEF WiredInv, ModulesInv, Editing
  <2>. QED
    BY <2>3, <2>4 DEF WiredInv
<1>10. ASSUME NEW p \in Proc, Stop(p), pc[p] = "fillModules"
       PROVE  WiredInv'
  <2>1. pc'[p] = "idle" /\ torn' = TRUE /\ UNCHANGED <<shims, enabled>>
    BY <1>0, <1>10 DEF Stop, Fail, End, OwnOK
  <2>2. ShimInv'
    BY <1>c, <2>1 DEF WiredInv, ShimInv, Shimming, Editing
  <2>3. ModulesInv'
    BY <2>1 DEF ModulesInv
  <2>. QED
    BY <2>2, <2>3 DEF WiredInv
<1>11. ASSUME NEW p \in Proc, Stop(p), pc[p] # "fillModules"
       PROVE  WiredInv'
  <2>1. UNCHANGED <<modulesGo, shims, enabled, torn>> /\ End(p, "none", None)
    BY <1>0, <1>11 DEF Stop, Fail, SharedOK
  <2>. QED
    BY <1>9, <1>11, <2>1
<1>12. ASSUME NEW p \in Proc, EditFailed(p) \/ NoName(p) \/ PublishLocally(p) \/ Published(p)
                              \/ PublishFailed(p)
       PROVE  WiredInv'
  BY <1>9, <1>12 DEF EditFailed, NoName, PublishLocally, Published, PublishFailed, Fail, project,
                     history
<1>13. ASSUME NEW p \in Proc, NoPayload(p) \/ UpsertFailed(p) \/ Sent(p) \/ Found(p) \/ Suggest(p)
       PROVE  WiredInv'
  BY <1>9, <1>13 DEF NoPayload, UpsertFailed, Sent, Found, Suggest, Fail, project, history
<1>14. ASSUME NEW p \in Proc, NEW from, NEW to, pc[p] = from, pc' = [pc EXCEPT ![p] = to],
              from \notin Shimming, to \notin Shimming,
              UNCHANGED <<modulesGo, shims, enabled, torn, module, source>>
       PROVE  WiredInv'
  BY <1>0, <1>1, <1>14 DEF OwnOK
<1>15. ASSUME NEW p \in Proc, NEW o \in Options, Publish(p, o)
       PROVE  WiredInv'
  BY <1>14, <1>15 DEF Publish, Begin, Shimming, project, history
<1>16. ASSUME NEW p \in Proc, ReadManifest(p) \/ OpenManifest(p) \/ FillManifest(p)
       PROVE  WiredInv'
  BY <1>14, <1>16 DEF ReadManifest, OpenManifest, FillManifest, Go, Shimming, project, locals,
                      history
<1>17. ASSUME NEW p \in Proc, SendPublish(p) \/ SendPayload(p) \/ BuildPayload(p)
       PROVE  WiredInv'
  BY <1>14, <1>17 DEF SendPublish, SendPayload, BuildPayload, Go, Shimming, project, locals, history
<1>18. ASSUME NEW p \in Proc, Upsert(p) \/ Info(p)
       PROVE  WiredInv'
  BY <1>14, <1>18 DEF Upsert, Info, Begin, Shimming, project, locals, history
<1>19. ASSUME NEW p \in Proc, AskNext(p)
       PROVE  WiredInv'
  <2>1. PICK to \in {"install", "search"} : pc' = [pc EXCEPT ![p] = to]
    BY <1>19 DEF AskNext, Go
  <2>2. pc[p] \notin Shimming /\ UNCHANGED <<project, locals, history>>
    BY <1>19 DEF AskNext, Shimming
  <2>. QED
    BY <1>14, <2>1, <2>2 DEF Shimming, project, locals, history
<1>20. ASSUME NEW p \in Proc, ListLocal(p)
       PROVE  WiredInv'
  BY <1>1, <1>20 DEF ListLocal, project, locals, history
<1>21. CASE Withdraw
  BY <1>1, <1>21 DEF Withdraw, project, locals, history
<1>22. CASE UNCHANGED vars
  BY <1>1, <1>22 DEF vars, project, locals, history
<1>. QED
  BY <1>2, <1>4, <1>5, <1>6, <1>7, <1>8, <1>10, <1>11, <1>12, <1>13, <1>15, <1>16, <1>17, <1>18,
     <1>19, <1>20, <1>21, <1>22 DEF Next, Enabling, Publishing, Sending, Asking, Finished

LEMMA WiredInit == ASSUME UsualProject, Init PROVE WiredInv
<1>1. enabled = {} /\ modulesGo \in Shapes /\ \A p \in Proc : pc[p] = "idle"
  BY DEF Init
<1>. QED
  BY <1>1 DEF WiredInv, ShimInv, ModulesInv, UsualProject, Shimming, Editing

(* "Updated modules.go with Enable() call": an enabled module stays        *)
(* imported, called and enabled by its shim, whatever is enabled,          *)
(* published or stopped after it, in any project with the modules.go it    *)
(* was created with (enableModule, addEnableCallToModules).                *)
THEOREM EnabledStays == ASSUME Sole, UsualProject PROVE Spec => []EnabledIsWired
<1>1. Init => WiredInv
  BY WiredInit
<1>2. TypeInv /\ WiredInv /\ [Next]_vars => WiredInv'
  BY WiredStep
<1>3. TypeInv /\ WiredInv => EnabledIsWired
  BY DEF WiredInv, ShimInv, ModulesInv, Usable, EnabledIsWired, Wired
<1>. QED
  BY <1>1, <1>2, <1>3, TypeAlways, PTL DEF Spec

(* The refinement.  Until a write of modules.go is cut short, enable       *)
(* implements InPlace: the module is in place from the truncation on, for  *)
(* the text to come has it, and reported with the last write.              *)

(* A step that leaves the shims, the report and the text alone.            *)
LEMMA PlacedKept ==
    ASSUME UNCHANGED <<modulesGo, shims>>, BeingWritten' <=> BeingWritten,
           \A p \in Proc : pc[p] = "fillModules" \/ pc'[p] = "fillModules" =>
               pc'[p] = pc[p] /\ source'[p] = source[p]
    PROVE  Placed' = Placed
BY DEF Placed, InText

LEMMA PutStep ==
    ASSUME ~torn, torn' = torn, Placed \subseteq Placed', enabled' \subseteq enabled
    PROVE  Project!Next
<1>1. Placed' \in SUBSET Module /\ Placed' = Placed \cup Placed'
  BY DEF Placed
<1>. QED
  BY <1>1 DEF Project!Next, Project!Put

LEMMA ReportStep ==
    ASSUME ~torn, torn' = torn, NEW m \in Placed, Placed' = Placed, enabled' = enabled \cup {m}
    PROVE  Project!Next
<1>1. m \in Module
  BY DEF Placed
<1>. QED
  BY <1>1 DEF Project!Next, Project!Report

LEMMA ProjectStep ==
    ASSUME Sole, UsualProject, TypeInv, WiredInv, [Next]_vars
    PROVE  [Project!Next]_(Project!vars)
<1>0. SharedOK /\ OwnOK
  BY DEF TypeInv
<1>a. ASSUME NEW p \in Proc, pc[p] \in Shimming
      PROVE  module[p] \in Module /\ Seg[module[p]] \in Segment
  BY <1>0, <1>a, PackagesAssumption DEF OwnOK, Working
<1>b. \A m, n \in Module : Seg[m] = Seg[n] => m = n
  BY DEF UsualProject
<1>c. \A p, q \in Proc : p = q
  BY DEF Sole
<1>1. CASE torn /\ torn' = TRUE
  BY <1>1 DEF Project!Next, Project!AfterCut
<1>2. CASE ~torn /\ torn' = TRUE
  BY <1>2 DEF Project!Next, Project!CutShort
<1>3. CASE ~torn /\ UNCHANGED torn
  <2>e. ASSUME NEW m \in enabled, ~BeingWritten
        PROVE  InText(modulesGo, m)
    BY <1>3, <2>e DEF WiredInv, ModulesInv, Usable, InText
  (* A step elsewhere.                                                     *)
  <2>1. ASSUME UNCHANGED <<modulesGo, shims, enabled>>, BeingWritten' <=> BeingWritten,
               \A p \in Proc : pc[p] = "fillModules" \/ pc'[p] = "fillModules" =>
                   pc'[p] = pc[p] /\ source'[p] = source[p]
        PROVE  Project!Next
    BY <1>3, <2>1, PlacedKept, PutStep
  <2>2. ASSUME NEW p \in Proc, NEW to, pc[p] # "fillModules", to # "fillModules",
               pc' = [pc EXCEPT ![p] = to], UNCHANGED <<modulesGo, shims, enabled>>
        PROVE  Project!Next
    <3>1. pc'[p] # "fillModules"
      BY <1>0, <2>2 DEF OwnOK
    <3>2. \A q \in Proc : pc[q] # "fillModules" /\ pc'[q] # "fillModules"
      BY <1>c, <2>2, <3>1
    <3>. QED
      BY <2>1, <2>2, <3>2 DEF BeingWritten
  <2>3. ASSUME NEW p \in Proc, NEW m \in Module, Enable(p, m)
        PROVE  Project!Next
    <3>1. /\ pc[p] = "idle" /\ pc' = [pc EXCEPT ![p] = "shim"] /\ enabled' = enabled \ {m}
          /\ UNCHANGED <<modulesGo, shims>>
      BY <2>3 DEF Enable, Begin, project
    <3>2. \A q \in Proc : pc[q] # "fillModules" /\ pc'[q] # "fillModules"
      BY <1>0, <1>c, <3>1 DEF OwnOK
    <3>3. Placed' = Placed
      BY <3>1, <3>2, PlacedKept DEF BeingWritten
    <3>. QED
      BY <1>3, <3>1, <3>3, PutStep
  <2>4. ASSUME NEW p \in Proc, OpenShim(p) \/ FillShim(p)
        PROVE  Project!Next
    <3>1. /\ pc[p] \in {"shim", "fillShim"} /\ pc'[p] \in {"fillShim", "edit"}
          /\ UNCHANGED <<modulesGo, enabled>>
          /\ module[p] \in Module /\ Seg[module[p]] \in Segment
      BY <1>0, <1>a, <2>4 DEF OpenShim, FillShim, Go, OwnOK, Shimming, history
    <3>2. \A q \in Proc : pc[q] # "fillModules" /\ pc'[q] # "fillModules"
      BY <1>c, <3>1
    <3>3. ~BeingWritten /\ ~BeingWritten'
      BY <3>2 DEF BeingWritten
    <3>4. /\ Placed = {n \in Module : shims[Seg[n]] = n /\ InText(modulesGo, n)}
          /\ Placed' = {n \in Module : shims'[Seg[n]] = n /\ InText(modulesGo, n)}
      BY <3>1, <3>3 DEF Placed, InText
    <3>5. ASSUME NEW n \in Module, n # module[p], NEW v,
                 shims' = [shims EXCEPT ![Seg[module[p]]] = v]
          PROVE  shims'[Seg[n]] = shims[Seg[n]]
      BY <1>0, <1>b, <3>1, <3>5, PackagesAssumption DEF SharedOK
    <3>6. CASE OpenShim(p)
      <4>1. shims' = [shims EXCEPT ![Seg[module[p]]] = None] /\ pc[p] = "shim"
        BY <3>6 DEF OpenShim
      <4>2. shims'[Seg[module[p]]] = None /\ None # module[p]
        BY <1>0, <3>1, <4>1, PackagesAssumption DEF SharedOK
      <4>3. Placed' = Placed \ {module[p]}
        BY <3>4, <3>5, <4>1, <4>2
      <4>4. module[p] \notin enabled
        BY <4>1 DEF WiredInv, ShimInv, Shimming
      <4>5. \E m \in Module : Project!Renew(m)
        BY <1>3, <3>1, <4>3, <4>4 DEF Project!Renew
      <4>. QED
        BY <4>5 DEF Project!Next
    <3>7. CASE FillShim(p)
      <4>1. shims' = [shims EXCEPT ![Seg[module[p]]] = module[p]]
        BY <3>7 DEF FillShim
      <4>2. shims'[Seg[module[p]]] = module[p]
        BY <1>0, <3>1, <4>1 DEF SharedOK
      <4>3. Placed \subseteq Placed'
        BY <3>4, <3>5, <4>1, <4>2
      <4>. QED
        BY <1>3, <3>1, <4>3, PutStep
    <3>. QED
      BY <2>4, <3>6, <3>7
  <2>5. ASSUME NEW p \in Proc, EnabledAlready(p)
        PROVE  Project!Next
    <3>1. /\ pc[p] = "edit" /\ pc' = [pc EXCEPT ![p] = "idle"]
          /\ enabled' = enabled \cup {module[p]} /\ UNCHANGED <<modulesGo, shims>>
          /\ modulesGo # Absent /\ Contains(modulesGo, Seg[module[p]]) /\ module[p] \in Module
      BY <1>a, <2>5 DEF EnabledAlready, Enabled, End, project, CanEdit, Shimming
    <3>2. \A q \in Proc : pc[q] # "fillModules" /\ pc'[q] # "fillModules"
      BY <1>0, <1>c, <3>1 DEF OwnOK
    <3>3. ~BeingWritten /\ Placed' = Placed
      BY <3>1, <3>2, PlacedKept DEF BeingWritten
    <3>4. InText(modulesGo, module[p])
      BY <1>3, <3>1, <3>3 DEF InText, Contains, UsualProject, WiredInv, ModulesInv, Usable
    <3>5. shims[Seg[module[p]]] = module[p]
      BY <3>1 DEF WiredInv, ShimInv
    <3>6. module[p] \in Placed
      BY <3>1, <3>3, <3>4, <3>5 DEF Placed
    <3>. QED
      BY <1>3, <3>1, <3>3, <3>6, ReportStep
  <2>6. ASSUME NEW p \in Proc, OpenModules(p)
        PROVE  Project!Next
    <3>1. /\ pc[p] = "openModules" /\ pc' = [pc EXCEPT ![p] = "fillModules"]
          /\ UNCHANGED <<shims, enabled, source>>
      BY <2>6 DEF OpenModules, Go, locals, history
    <3>2. ~BeingWritten /\ pc'[p] = "fillModules" /\ BeingWritten'
      BY <1>0, <1>c, <3>1 DEF BeingWritten, OwnOK
    <3>3. Usable(source[p]) /\ modulesGo.imports \subseteq source[p].imports
      BY <1>3, <3>1 DEF WiredInv, ModulesInv, Editing
    <3>4. source[p] # Absent
      BY <1>0, <3>1, PackagesAssumption DEF OwnOK, Working, Editing
    <3>5. ASSUME NEW n \in Module, InText(modulesGo, n)
          PROVE  InText(source[p], n)
      BY <3>3, <3>4, <3>5 DEF InText, Usable
    <3>6. Placed = {n \in Module : shims[Seg[n]] = n /\ InText(modulesGo, n)}
      BY <3>2 DEF Placed
    <3>7. ASSUME NEW n \in Module, shims[Seg[n]] = n, InText(source[p], n)
          PROVE  n \in Placed'
      BY <3>1, <3>2, <3>7 DEF Placed, InText
    <3>8. Placed \subseteq Placed'
      BY <3>5, <3>6, <3>7
    <3>. QED
      BY <1>3, <3>1, <3>8, PutStep
  <2>7. ASSUME NEW p \in Proc, FillModules(p)
        PROVE  Project!Next
    <3>1. /\ pc[p] = "fillModules" /\ pc' = [pc EXCEPT ![p] = "idle"] /\ modulesGo' = source[p]
          /\ enabled' = enabled \cup {module[p]} /\ UNCHANGED shims /\ module[p] \in Module
      BY <1>a, <2>7 DEF FillModules, Enabled, End, Shimming
    <3>2. BeingWritten /\ ~BeingWritten'
      BY <1>0, <1>c, <3>1 DEF BeingWritten, OwnOK
    <3>3. Placed = {n \in Module : shims[Seg[n]] = n /\ InText(source[p], n)}
      BY <1>c, <3>1, <3>2 DEF Placed
    <3>4. Placed' = {n \in Module : shims[Seg[n]] = n /\ InText(source[p], n)}
      BY <3>1, <3>2 DEF Placed, InText
    <3>5. source[p] # Absent
      BY <1>0, <3>1, PackagesAssumption DEF OwnOK, Working, Editing
    <3>6. InText(source[p], module[p])
      BY <1>3, <3>1, <3>5 DEF WiredInv, ModulesInv, Editing, Usable, InText
    <3>7. module[p] \in Placed
      BY <3>1, <3>3, <3>6 DEF WiredInv, ShimInv, Editing
    <3>. QED
      BY <1>3, <3>1, <3>3, <3>4, <3>7, ReportStep
  <2>8. ASSUME NEW p \in Proc, NEW line, NEW v, pc[p] # "fillModules", End(p, line, v),
               UNCHANGED <<modulesGo, shims, enabled>>
        PROVE  Project!Next
    BY <2>2, <2>8 DEF End
  <2>9. ASSUME NEW p \in Proc, Stop(p)
        PROVE  Project!Next
    <3>1. pc[p] # "fillModules"
      <4>1. pc[p] = "fillModules" => torn' = TRUE
        BY <1>0, <2>9 DEF Stop
      <4>. QED
        BY <1>3, <4>1
    <3>2. UNCHANGED <<modulesGo, shims, enabled>> /\ End(p, "none", None)
      BY <2>9, <3>1 DEF Stop, Fail
    <3>. QED
      BY <2>8, <3>1, <3>2
  <2>10. ASSUME NEW p \in Proc, EditFailed(p) \/ NoName(p) \/ PublishLocally(p) \/ Published(p)
                                \/ PublishFailed(p)
         PROVE  Project!Next
    BY <2>8, <2>10 DEF EditFailed, NoName, PublishLocally, Published, PublishFailed, Fail, project,
                       history
  <2>11. ASSUME NEW p \in Proc, NoPayload(p) \/ UpsertFailed(p) \/ Sent(p) \/ Found(p)
                                \/ Suggest(p)
         PROVE  Project!Next
    BY <2>8, <2>11 DEF NoPayload, UpsertFailed, Sent, Found, Suggest, Fail, project, history
  <2>12. ASSUME NEW p \in Proc, EditModules(p) \/ ReadManifest(p) \/ OpenManifest(p)
                                \/ FillManifest(p)
         PROVE  Project!Next
    BY <2>2, <2>12 DEF EditModules, ReadManifest, OpenManifest, FillManifest, Go, project, history
  <2>13. ASSUME NEW p \in Proc, SendPublish(p) \/ SendPayload(p) \/ BuildPayload(p)
         PROVE  Project!Next
    BY <2>2, <2>13 DEF SendPublish, SendPayload, BuildPayload, Go, project, history
  <2>14. ASSUME NEW p \in Proc, (\E o \in Options : Publish(p, o)) \/ Upsert(p) \/ Info(p)
         PROVE  Project!Next
    BY <2>2, <2>14 DEF Publish, Upsert, Info, Begin, project, history
  <2>15. ASSUME NEW p \in Proc, AskNext(p)
         PROVE  Project!Next
    <3>1. PICK to \in {"install", "search"} : pc' = [pc EXCEPT ![p] = to]
      BY <2>15 DEF AskNext, Go
    <3>2. pc[p] # "fillModules" /\ UNCHANGED <<modulesGo, shims, enabled>>
      BY <2>15 DEF AskNext, project, history
    <3>. QED
      BY <2>2, <3>1, <3>2
  <2>16. CASE Withdraw \/ (\E p \in Proc : ListLocal(p)) \/ UNCHANGED vars
    <3>1. UNCHANGED <<modulesGo, shims, enabled, pc, source>>
      BY <2>16 DEF Withdraw, ListLocal, vars, project, locals, history
    <3>. QED
      BY <2>1, <3>1 DEF BeingWritten
  <2>. QED
    BY <2>3, <2>4, <2>5, <2>6, <2>7, <2>9, <2>10, <2>11, <2>12, <2>13, <2>14, <2>15, <2>16
       DEF Next, Enabling, Publishing, Sending, Asking, Finished
<1>4. torn' \in BOOLEAN /\ (torn => torn' = TRUE)
  <2>1. ASSUME NEW p \in Proc, Stop(p)
        PROVE  torn' = torn \/ torn' = TRUE
    <3>1. pc[p] = "fillModules" => torn' = TRUE
      BY <1>0, <2>1 DEF Stop
    <3>2. pc[p] # "fillModules" => torn' = torn
      BY <1>0, <2>1 DEF Stop, SharedOK
    <3>. QED
      BY <3>1, <3>2
  <2>2. ASSUME NEW p \in Proc, Enabling(p)
        PROVE  torn' = torn
    BY <2>2 DEF Enabling, Enable, OpenShim, FillShim, EditFailed, EnabledAlready, EditModules,
       OpenModules, FillModules, history
  <2>3. ASSUME NEW p \in Proc, Publishing(p) \/ Sending(p) \/ Asking(p) \/ ListLocal(p)
        PROVE  torn' = torn
    BY <2>3 DEF Publishing, Sending, Asking, Publish, NoName, ReadManifest, OpenManifest,
       FillManifest, PublishLocally, SendPublish, Published, PublishFailed, Upsert, BuildPayload,
       NoPayload, SendPayload, Sent, UpsertFailed, Info, Found, AskNext, Suggest, ListLocal, history
  <2>4. ASSUME Withdraw \/ UNCHANGED vars
        PROVE  torn' = torn
    BY <2>4 DEF Withdraw, vars, history
  <2>5. torn' = torn \/ torn' = TRUE
    BY <2>1, <2>2, <2>3, <2>4 DEF Next, Finished
  <2>. QED
    BY <1>0, <2>5 DEF SharedOK
<1>. QED
  BY <1>0, <1>1, <1>2, <1>3, <1>4 DEF SharedOK

(* Until a write of modules.go is cut short, enable puts one module after  *)
(* the other in place and takes none out but the one it is enabling, in    *)
(* any project with the modules.go it was created with (enableModule,      *)
(* addEnableCallToModules).                                                *)
THEOREM EnableKeepsInPlace == ASSUME Sole, UsualProject PROVE Spec => EnablesOneByOne
<1>1. Init => WiredInv
  BY WiredInit
<1>2. TypeInv /\ WiredInv /\ [Next]_vars => WiredInv'
  BY WiredStep
<1>3. Init => Project!Init
  BY DEF Init, Project!Init, Placed
<1>4. TypeInv /\ WiredInv /\ [Next]_vars => [Project!Next]_(Project!vars)
  BY ProjectStep
<1>. QED
  BY <1>1, <1>2, <1>3, <1>4, TypeAlways, PTL DEF Spec, EnablesOneByOne, Project!Spec

-----------------------------------------------------------------------------
(* What users describe.                                                    *)

(* A kuetix.json that describes the package parses to start with; one that *)
(* does not is taken for an empty one and overwritten.                     *)
Readable == \A d \in Descriptors : d # Absent /\ "rest" \in d.fields => d.parses

BeingDescribed == \E p \in Proc : pc[p] = "fillManifest"

(* As long as no write of kuetix.json was cut short, the file parses and   *)
(* has the fields, or a command is about to write them back; whatever is   *)
(* sent was read from it.                                                  *)
RestInv ==
    "rest" \in owed =>
        /\ ~BeingDescribed => Parses /\ "rest" \in manifest.fields
        /\ \A p \in Proc : pc[p] \in Describing => info[p].parses /\ "rest" \in info[p].fields
        /\ server # None => "rest" \in server.fields

LEMMA RestStep ==
    ASSUME Sole, TypeInv, RestInv, [Next]_vars
    PROVE  RestInv'
<1>0. SharedOK /\ OwnOK
  BY DEF TypeInv
<1>c. \A p, q \in Proc : p = q
  BY DEF Sole
<1>1. ASSUME UNCHANGED <<manifest, info, owed>>, server' = server \/ server' = None,
             \A p \in Proc : pc'[p] # pc[p] =>
               /\ pc[p] # "fillManifest" /\ pc'[p] # "fillManifest"
               /\ pc'[p] \in Describing => pc[p] \in Describing
      PROVE  RestInv'
  <2>1. BeingDescribed' <=> BeingDescribed
    BY <1>1 DEF BeingDescribed
  <2>. QED
    BY <1>1, <2>1 DEF RestInv, Parses
<1>2. ASSUME NEW p \in Proc, NEW to, pc' = [pc EXCEPT ![p] = to], pc[p] # "fillManifest",
             to \notin Describing, UNCHANGED <<manifest, info, owed, server>>
      PROVE  RestInv'
  <2>1. to # "fillManifest"
    BY <1>2 DEF Describing
  <2>. QED
    BY <1>0, <1>1, <1>2, <2>1 DEF OwnOK
<1>3. ASSUME NEW p \in Proc, OpenShim(p) \/ FillShim(p) \/ EditModules(p) \/ OpenModules(p)
      PROVE  RestInv'
  BY <1>2, <1>3 DEF OpenShim, FillShim, EditModules, OpenModules, Go, Describing, project, registry,
                    locals, history
<1>4. ASSUME NEW p \in Proc, (\E m \in Module : Enable(p, m)) \/ (\E o \in Options : Publish(p, o))
      PROVE  RestInv'
  BY <1>2, <1>4 DEF Enable, Publish, Begin, Describing, project, registry, history
<1>5. ASSUME NEW p \in Proc, Upsert(p) \/ Info(p)
      PROVE  RestInv'
  BY <1>2, <1>5 DEF Upsert, Info, Begin, Describing, project, registry, locals, history
<1>6. ASSUME NEW p \in Proc, AskNext(p)
      PROVE  RestInv'
  <2>1. PICK to \in {"install", "search"} : pc' = [pc EXCEPT ![p] = to]
    BY <1>6 DEF AskNext, Go
  <2>2. pc[p] # "fillManifest" /\ UNCHANGED <<manifest, info, owed, server>>
    BY <1>6 DEF AskNext, project, registry, locals, history
  <2>. QED
    BY <1>2, <2>1, <2>2 DEF Describing
<1>7. ASSUME NEW p \in Proc, NEW line, NEW v, End(p, line, v), pc[p] # "fillManifest",
             UNCHANGED <<manifest, owed, server>>
      PROVE  RestInv'
  <2>1. pc'[p] = "idle"
    BY <1>0, <1>7 DEF End, OwnOK
  <2>2. ~BeingDescribed
    BY <1>c, <1>7 DEF BeingDescribed
  <2>. QED
    BY <1>c, <1>7, <2>1, <2>2 DEF RestInv, Parses, Describing
<1>8. ASSUME NEW p \in Proc, EditFailed(p) \/ NoName(p) \/ PublishLocally(p) \/ Published(p)
                             \/ PublishFailed(p)
      PROVE  RestInv'
  BY <1>7, <1>8 DEF EditFailed, NoName, PublishLocally, Published, PublishFailed, Fail, project,
                    registry, history
<1>9. ASSUME NEW p \in Proc, NoPayload(p) \/ UpsertFailed(p) \/ Sent(p) \/ Found(p) \/ Suggest(p)
      PROVE  RestInv'
  BY <1>7, <1>9 DEF NoPayload, UpsertFailed, Sent, Found, Suggest, Fail, project, registry, history
<1>10. ASSUME NEW p \in Proc, EnabledAlready(p) \/ FillModules(p)
       PROVE  RestInv'
  BY <1>7, <1>10 DEF EnabledAlready, FillModules, Enabled, project, registry
<1>11. ASSUME NEW p \in Proc, ReadManifest(p)
       PROVE  RestInv'
  <2> DEFINE d == Updated(Parsed, options[p])
  <2>1. /\ pc[p] = "readManifest" /\ pc'[p] = "openManifest" /\ info'[p] = d
        /\ UNCHANGED <<manifest, owed, server>>
    BY <1>0, <1>11 DEF ReadManifest, Go, OwnOK, project, registry, history
  <2>2. ~BeingDescribed /\ ~BeingDescribed'
    BY <1>c, <2>1 DEF BeingDescribed
  <2>3. "rest" \in owed => Parses /\ "rest" \in manifest.fields
    BY <2>2 DEF RestInv
  <2>4. "rest" \in owed => d.parses /\ "rest" \in d.fields
    BY <2>3 DEF Parsed, Updated
  <2>. QED
    BY <1>c, <2>1, <2>2, <2>3, <2>4 DEF RestInv, Parses
<1>12. ASSUME NEW p \in Proc, OpenManifest(p)
       PROVE  RestInv'
  <2>1. /\ pc[p] = "openManifest" /\ pc'[p] = "fillManifest" /\ UNCHANGED <<info, owed, server>>
    BY <1>0, <1>12 DEF OpenManifest, Go, OwnOK, locals, registry, history
  <2>2. BeingDescribed'
    BY <2>1 DEF BeingDescribed
  <2>. QED
    BY <1>c, <2>1, <2>2 DEF RestInv, Describing
<1>13. ASSUME NEW p \in Proc, FillManifest(p)
       PROVE  RestInv'
  <2>1. /\ pc[p] = "fillManifest" /\ pc'[p] = "publish" /\ manifest' = info[p]
        /\ UNCHANGED <<info, owed, server>> /\ info[p] \in Descriptor
    BY <1>0, <1>13 DEF FillManifest, Go, OwnOK, Working, Describing, locals, registry, history
  <2>2. manifest' # Absent
    BY <2>1, PackagesAssumption
  <2>3. "rest" \in owed => info[p].parses /\ "rest" \in info[p].fields
    BY <2>1 DEF RestInv, Describing
  <2>. QED
    BY <1>c, <2>1, <2>2, <2>3 DEF RestInv, Parses
<1>14. ASSUME NEW p \in Proc, SendPublish(p)
       PROVE  RestInv'
  BY <1>0, <1>1, <1>14 DEF SendPublish, Registry, OwnOK, Describing, project, locals, history
<1>15. ASSUME NEW p \in Proc, BuildPayload(p)
       PROVE  RestInv'
  <2>1. /\ pc[p] = "payload" /\ pc'[p] = "send" /\ info'[p] = manifest /\ Parses
        /\ UNCHANGED <<manifest, owed, server>>
    BY <1>0, <1>15 DEF BuildPayload, Go, OwnOK, project, registry, history
  <2>2. ~BeingDescribed /\ ~BeingDescribed'
    BY <1>c, <2>1 DEF BeingDescribed
  <2>. QED
    BY <1>c, <2>1, <2>2 DEF RestInv, Parses
<1>16. ASSUME NEW p \in Proc, SendPayload(p)
       PROVE  RestInv'
  <2>1. /\ pc[p] = "send" /\ pc'[p] = "sent" /\ server' = info[p]
        /\ UNCHANGED <<manifest, owed, info>>
    BY <1>0, <1>16 DEF SendPayload, Registry, OwnOK, project, locals, history
  <2>2. ~BeingDescribed /\ ~BeingDescribed'
    BY <1>c, <2>1 DEF BeingDescribed
  <2>3. "rest" \in owed => info[p].parses /\ "rest" \in info[p].fields
    BY <2>1 DEF RestInv, Describing
  <2>. QED
    BY <1>c, <2>1, <2>2, <2>3 DEF RestInv, Parses
<1>17. ASSUME NEW p \in Proc, Stop(p)
       PROVE  RestInv'
  <2>1. CASE pc[p] = "fillManifest"
    <3>1. owed' = {}
      BY <1>17, <2>1 DEF Stop
    <3>. QED
      BY <3>1 DEF RestInv
  <2>2. CASE pc[p] # "fillManifest"
    BY <1>7, <1>17, <2>2 DEF Stop, Fail, registry
  <2>. QED
    BY <2>1, <2>2
<1>18. ASSUME NEW p \in Proc, ListLocal(p)
       PROVE  RestInv'
  BY <1>1, <1>18 DEF ListLocal, project, registry, locals, history
<1>19. CASE Withdraw
  <2>1. server' = server \/ server' = None
    BY <1>19 DEF Withdraw, Registry
  <2>. QED
    BY <1>1, <1>19, <2>1 DEF Withdraw, project, locals, history
<1>20. CASE UNCHANGED vars
  BY <1>1, <1>20 DEF vars, project, registry, locals, history
<1>. QED
  BY <1>3, <1>4, <1>5, <1>6, <1>8, <1>9, <1>10, <1>11, <1>12, <1>13, <1>14, <1>15, <1>16, <1>17,
     <1>18, <1>19, <1>20 DEF Next, Enabling, Publishing, Sending, Asking, Finished

(* What users describe in kuetix.json, as far as kue knows it, is there    *)
(* after any sequence of publishes that finish their writes, and on the    *)
(* registry once it was sent (publishPackage, buildPackagePayload).        *)
THEOREM DescriptionStays == ASSUME Sole, Readable PROVE Spec => []KnownFieldsSurvive
<1>1. Init => RestInv
  <2>. SUFFICES ASSUME Init PROVE RestInv
    OBVIOUS
  <2>1. /\ manifest \in Descriptors /\ server = None /\ \A p \in Proc : pc[p] = "idle"
        /\ owed = IF manifest = Absent THEN {} ELSE manifest.fields
    BY DEF Init
  <2>. QED
    BY <2>1 DEF RestInv, Readable, Parses, Describing
<1>2. TypeInv /\ RestInv /\ [Next]_vars => RestInv'
  BY RestStep
<1>3. TypeInv /\ RestInv => KnownFieldsSurvive
  BY DEF RestInv, BeingDescribed, Parses, Describing, KnownFieldsSurvive
<1>. QED
  BY <1>1, <1>2, <1>3, TypeAlways, PTL DEF Spec

=============================================================================
