------------------------- MODULE RegistryCacheProofs -------------------------
(***************************************************************************)
(* Theorems about RegistryCache, for any number of processes, owners,      *)
(* versions and sources, and, at the end, about TemplateCache, for any     *)
(* number of processes, versions, archives and files.                      *)
(***************************************************************************)
EXTENDS RegistryCache, TLAPS

LEMMA KeyOfType == ASSUME NEW r \in Entry PROVE KeyOf(r) \in Key
BY DEF Entry, Key, KeyOf, Ext

(* What a step of CutShort leaves behind is still a well-formed disk.      *)
LEMMA CutShortType ==
    ASSUME TypeOK, NEW p \in Proc, CutShort(p),
           pc[p] \in {"fill", "sideFill"} => resp[p] \in Entry
    PROVE  /\ files' \in [Key -> FileState]
           /\ sidecars' \in [Key -> FileState]
           /\ newer' \subseteq Key \X Key
<1>1. CASE UNCHANGED diskVars
  BY <1>1 DEF TypeOK, diskVars
<1>2. ASSUME pc[p] = "fill",
             files' = [files EXCEPT ![KeyOf(resp[p])] = Torn],
             Touch(KeyOf(resp[p])), UNCHANGED sidecars
      PROVE  /\ files' \in [Key -> FileState]
             /\ sidecars' \in [Key -> FileState]
             /\ newer' \subseteq Key \X Key
  <2>1. KeyOf(resp[p]) \in Key
    BY <1>2, KeyOfType
  <2>. QED
    BY <1>2, <2>1 DEF TypeOK, Touch, FileState
<1>3. ASSUME pc[p] = "sideFill",
             sidecars' = [sidecars EXCEPT ![KeyOf(resp[p])] = Torn],
             UNCHANGED <<files, newer>>
      PROVE  /\ files' \in [Key -> FileState]
             /\ sidecars' \in [Key -> FileState]
             /\ newer' \subseteq Key \X Key
  BY <1>3 DEF TypeOK, FileState
<1>. QED
  BY <1>1, <1>2, <1>3 DEF CutShort

-----------------------------------------------------------------------------
(* Typing.  A process that is past its fetch holds an answer, and one that *)
(* is past its search holds a view.                                        *)

HoldingAnswer == {"lookup", "truncate", "fill", "sideTruncate", "sideFill",
                  "parse", "exec"}

Holds ==
    \A p \in Proc :
        /\ pc[p] \in HoldingAnswer => resp[p] \in Entry
        /\ pc[p] \in {"loadSidecar", "show"} => view[p] \in View

TypeInv == TypeOK /\ Holds

LEMMA TypeStep == TypeInv /\ [Next]_vars => TypeInv'
<1> SUFFICES ASSUME TypeInv, [Next]_vars PROVE TypeInv'
  OBVIOUS
<1> USE DEF TypeInv, Holds, HoldingAnswer
<1>1. ASSUME NEW o \in Owner, NEW v \in Version, NEW c \in Content, Publish(o, v, c)
      PROVE  TypeInv'
  BY <1>1 DEF Publish, TypeOK, Entry, diskVars, procVars
<1>2. ASSUME NEW p \in Proc, NEW cmd \in Commands, NEW nc \in BOOLEAN, Start(p, cmd, nc)
      PROVE  TypeInv'
  BY <1>2 DEF Start, Goto, TypeOK, Labels, Outcomes, Job, worldVars, diskVars
<1>3. ASSUME NEW p \in Proc, FetchVerified(p)
      PROVE  TypeInv'
  <2>1. PICK o \in Owner, body \in Content :
           /\ registry[o] # Unpublished
           /\ resp' = [resp EXCEPT ![p] = [owner |-> o, version |-> registry[o].version,
                                           content |-> body]]
    BY <1>3 DEF FetchVerified, Delivered, Unpublished, TypeOK, Entry
  <2>2. [owner |-> o, version |-> registry[o].version, content |-> body] \in Entry
    BY <2>1 DEF TypeOK, Entry, Unpublished
  <2>. QED
    BY <1>3, <2>1, <2>2 DEF FetchVerified, Goto, TypeOK, Labels, worldVars, diskVars
<1>4. ASSUME NEW p \in Proc, FetchRejected(p) \/ FetchFailed(p)
      PROVE  TypeInv'
  BY <1>4 DEF FetchRejected, FetchFailed, End, TypeOK, Labels, Outcomes, worldVars, diskVars
<1>5. ASSUME NEW p \in Proc, Lookup(p)
      PROVE  TypeInv'
  BY <1>5 DEF Lookup, HavePath, Goto, End, TypeOK, Labels, Outcomes, worldVars, diskVars
<1>6. ASSUME NEW p \in Proc, Truncate(p)
      PROVE  TypeInv'
  <2>1. KeyOf(resp[p]) \in Key
    BY <1>6, KeyOfType DEF Truncate
  <2>. QED
    BY <1>6, <2>1 DEF Truncate, Touch, Goto, TypeOK, Labels, FileState, worldVars
<1>7. ASSUME NEW p \in Proc, Fill(p)
      PROVE  TypeInv'
  <2>1. KeyOf(resp[p]) \in Key /\ resp[p].content \in Content
    BY <1>7, KeyOfType DEF Fill, Entry
  <2>2. Overlay(files[KeyOf(resp[p])], resp[p].content) \subseteq FileState
    BY <2>1 DEF Overlay, FileState
  <2>. QED
    BY <1>7, <2>1, <2>2 DEF Fill, Touch, Goto, TypeOK, Labels, worldVars
<1>8. ASSUME NEW p \in Proc, WriteFailed(p)
      PROVE  TypeInv'
  BY <1>8, CutShortType DEF WriteFailed, End, TypeOK, Labels, Outcomes, worldVars
<1>9. ASSUME NEW p \in Proc, SidecarTruncate(p)
      PROVE  TypeInv'
  BY <1>9 DEF SidecarTruncate, Goto, TypeOK, Labels, FileState, worldVars
<1>10. ASSUME NEW p \in Proc, SidecarFill(p)
       PROVE  TypeInv'
  <2>1. resp[p].content \in Content
    BY <1>10 DEF SidecarFill, Entry
  <2>2. Overlay(sidecars[KeyOf(resp[p])], resp[p].content) \subseteq FileState
    BY <2>1 DEF Overlay, FileState
  <2>3. sidecars' \in [Key -> FileState]
    BY <1>10, <2>2 DEF SidecarFill, TypeOK
  <2>. QED
    BY <1>10, <2>3 DEF SidecarFill, HavePath, Goto, End, TypeOK, Labels, Outcomes, worldVars
<1>11. ASSUME NEW p \in Proc, SidecarWriteFailed(p)
       PROVE  TypeInv'
  BY <1>11, CutShortType
     DEF SidecarWriteFailed, HavePath, Goto, End, TypeOK, Labels, Outcomes, worldVars
<1>12. ASSUME NEW p \in Proc, Parse(p)
       PROVE  TypeInv'
  BY <1>12 DEF Parse, Goto, End, TypeOK, Labels, Outcomes, worldVars, diskVars
<1>13. ASSUME NEW p \in Proc, Exec(p)
       PROVE  TypeInv'
  <2>1. KeyOf(resp[p]) \in Key
    BY <1>13, KeyOfType DEF Exec
  <2>. QED
    BY <1>13, <2>1 DEF Exec, End, TypeOK, Labels, Outcomes, worldVars, diskVars
<1>14. ASSUME NEW p \in Proc, Find(p)
       PROVE  TypeInv'
  <2>1. ASSUME NEW k \in Best
        PROVE  [key |-> k, hash |-> Absent, text |-> None] \in View
    BY <2>1 DEF Best, Cached, View, FileState
  <2>. QED
    BY <1>14, <2>1 DEF Find, Goto, End, TypeOK, Labels, Outcomes, worldVars, diskVars
<1>15. ASSUME NEW p \in Proc, LoadSidecar(p)
       PROVE  TypeInv'
  <2>1. view[p] \in View /\ view[p].key \in Key
    BY <1>15 DEF LoadSidecar, View
  <2>2. [view[p] EXCEPT !.hash = sidecars[view[p].key]] \in View
    BY <2>1 DEF View, TypeOK
  <2>. QED
    BY <1>15, <2>1, <2>2 DEF LoadSidecar, Goto, TypeOK, Labels, worldVars, diskVars
<1>16. ASSUME NEW p \in Proc, Show(p)
       PROVE  TypeInv'
  <2>1. view[p] \in View /\ view[p].key \in Key
    BY <1>16 DEF Show, View
  <2>2. [view[p] EXCEPT !.text = files[view[p].key]] \in View
    BY <2>1 DEF View, TypeOK
  <2>. QED
    BY <1>16, <2>1, <2>2 DEF Show, End, TypeOK, Labels, Outcomes, worldVars, diskVars
<1>17. ASSUME NEW p \in Proc, Crash(p)
       PROVE  TypeInv'
  BY <1>17, CutShortType DEF Crash, End, TypeOK, Labels, Outcomes, worldVars
<1>18. CASE UNCHANGED vars
  BY <1>18 DEF TypeOK, vars
<1>. QED
  BY <1>1, <1>2, <1>3, <1>4, <1>5, <1>6, <1>7, <1>8, <1>9, <1>10, <1>11, <1>12,
     <1>13, <1>14, <1>15, <1>16, <1>17, <1>18 DEF Next, Step

LEMMA TypeInductive == Spec => []TypeInv
<1>1. Init => TypeInv
  BY DEF Init, TypeInv, TypeOK, Holds, HoldingAnswer, FileState, Labels, Outcomes,
         Job, Commands, Unpublished
<1>. QED
  BY <1>1, TypeStep, PTL DEF Spec

(* Every reachable state of RegistryCache is well formed; the inductive    *)
(* part adds that a command past its fetch (its search) holds an answer    *)
(* (a view).                                                               *)
THEOREM TypeCorrect == Spec => []TypeOK
<1>1. TypeInv => TypeOK
  BY DEF TypeInv
<1>. QED
  BY <1>1, TypeInductive, PTL

-----------------------------------------------------------------------------
(* Nothing unpublished gets in.  The inductive part adds that every answer *)
(* a process holds, and every entry the registry serves, was published,    *)
(* and that nothing has been executed yet while a command is under way.    *)

Fresh == \A p \in Proc : pc[p] # "idle" => ran[p] = None

LicenseInv ==
    /\ TypeInv
    /\ Fresh
    /\ OnlyPublishedContent
    /\ \A o \in Owner : registry[o] # Unpublished =>
         registry[o] \in published /\ registry[o].owner = o
    /\ \A p \in Proc : resp[p] # None =>
         Licensed(resp[p].owner, resp[p].version, resp[p].content)

LEMMA FreshStep == TypeInv /\ Fresh /\ [Next]_vars => Fresh'
<1> SUFFICES ASSUME TypeInv, Fresh, [Next]_vars PROVE Fresh'
  OBVIOUS
<1> USE DEF TypeInv, Fresh, TypeOK
<1>1. ASSUME NEW p \in Proc, Step(p) \/ Crash(p)
      PROVE  Fresh'
  BY <1>1 DEF Step, FetchVerified, FetchRejected, FetchFailed, Lookup, Truncate, Fill,
     WriteFailed, SidecarTruncate, SidecarFill, SidecarWriteFailed, Parse, Exec, Find,
     LoadSidecar, Show, Crash, End, Goto, HavePath
<1>2. ASSUME NEW p \in Proc, NEW cmd \in Commands, NEW nc \in BOOLEAN, Start(p, cmd, nc)
      PROVE  Fresh'
  BY <1>2 DEF Start, Goto
<1>3. ASSUME NEW o \in Owner, NEW v \in Version, NEW c \in Content, Publish(o, v, c)
      PROVE  Fresh'
  BY <1>3 DEF Publish, procVars
<1>4. CASE UNCHANGED vars
  BY <1>4 DEF vars
<1>. QED
  BY <1>1, <1>2, <1>3, <1>4 DEF Next

(* A step that leaves the registry alone keeps every licence.              *)
LEMMA LicensedKept ==
    ASSUME published \subseteq published', NEW o, NEW v, NEW c, Licensed(o, v, c)
    PROVE  Licensed(o, v, c)'
BY DEF Licensed

LEMMA CutShortLicensed ==
    ASSUME TypeInv, OnlyPublishedContent, NEW p \in Proc, CutShort(p), NEW k \in Key
    PROVE  /\ files'[k] \in Content => files'[k] = files[k]
           /\ sidecars'[k] \in Content => sidecars'[k] = sidecars[k]
BY ConstantsAssumption DEF CutShort, diskVars, TypeInv, TypeOK

LEMMA LicenseStep == LicenseInv /\ [Next]_vars => LicenseInv'
<1> SUFFICES ASSUME LicenseInv, [Next]_vars PROVE LicenseInv'
  OBVIOUS
<1> USE DEF LicenseInv
<1>t. TypeInv' /\ Fresh'
  BY TypeStep, FreshStep
<1>k. published \subseteq published'
  BY DEF Next, Step, FetchVerified, FetchRejected, FetchFailed, Lookup, Truncate, Fill,
     WriteFailed, SidecarTruncate, SidecarFill, SidecarWriteFailed, Parse, Exec, Find,
     LoadSidecar, Show, Crash, Start, Publish, worldVars, vars
<1>1. ASSUME NEW o \in Owner, NEW v \in Version, NEW c \in Content, Publish(o, v, c)
      PROVE  LicenseInv'
  BY <1>1, <1>t, <1>k, LicensedKept
     DEF Publish, OnlyPublishedContent, diskVars, procVars, Unpublished, TypeInv, TypeOK
<1>2. ASSUME NEW p \in Proc, NEW cmd \in Commands, NEW nc \in BOOLEAN, Start(p, cmd, nc)
      PROVE  LicenseInv'
  BY <1>2, <1>t, ConstantsAssumption
     DEF Start, OnlyPublishedContent, Licensed, worldVars, diskVars, TypeInv, TypeOK
<1>3. ASSUME NEW p \in Proc, FetchVerified(p)
      PROVE  LicenseInv'
  <2>1. PICK o \in Owner, body \in Content :
           /\ registry[o] # Unpublished
           /\ body \in Delivered(o)
           /\ Verified(body, ServerHash(o))
           /\ resp' = [resp EXCEPT ![p] = [owner |-> o, version |-> registry[o].version,
                                           content |-> body]]
    BY <1>3 DEF FetchVerified, Delivered, Unpublished, TypeInv, TypeOK, Entry
  <2>2. Licensed(o, registry[o].version, body)
    <3>1. registry[o] \in published /\ registry[o].owner = o /\ registry[o].content \in Content
      BY <2>1 DEF TypeInv, TypeOK, Entry, Unpublished
    <3>2. o \in Hashed => body = registry[o].content
      BY <2>1, <3>1, ConstantsAssumption DEF Verified, ServerHash
    <3>3. ~BodiesMayDiffer => body = registry[o].content
      BY <2>1 DEF Delivered
    <3>. QED
      BY <3>1, <3>2, <3>3, ConstantsAssumption DEF Licensed
  <2>3. ran[p] = None
    BY <1>3 DEF FetchVerified, Fresh
  <2>4. UNCHANGED <<worldVars, diskVars, ran>>
    BY <1>3 DEF FetchVerified
  <2>. QED
    BY <2>1, <2>2, <2>3, <2>4, <1>t, ConstantsAssumption
       DEF OnlyPublishedContent, Licensed, worldVars, diskVars, TypeInv, TypeOK
<1>4. ASSUME NEW p \in Proc,
             \/ FetchRejected(p) \/ FetchFailed(p) \/ Lookup(p) \/ Parse(p)
             \/ Find(p) \/ LoadSidecar(p) \/ Show(p)
      PROVE  LicenseInv'
  BY <1>4, <1>t
     DEF FetchRejected, FetchFailed, Lookup, Parse, Find, LoadSidecar, Show,
         OnlyPublishedContent, Licensed, worldVars, diskVars
<1>5. ASSUME NEW p \in Proc, Truncate(p) \/ SidecarTruncate(p)
      PROVE  LicenseInv'
  BY <1>5, <1>t, ConstantsAssumption
     DEF Truncate, SidecarTruncate, OnlyPublishedContent, Licensed, worldVars, TypeInv, TypeOK
<1>6. ASSUME NEW p \in Proc, Fill(p) \/ SidecarFill(p)
      PROVE  LicenseInv'
  <2>1. /\ resp[p] \in Entry
        /\ KeyOf(resp[p]) \in Key
        /\ KeyOf(resp[p]).owner = resp[p].owner
        /\ KeyOf(resp[p]).version = resp[p].version
    BY <1>6, KeyOfType DEF Fill, SidecarFill, TypeInv, Holds, HoldingAnswer, KeyOf
  <2>2. Licensed(KeyOf(resp[p]).owner, KeyOf(resp[p]).version, resp[p].content)
    BY <2>1, ConstantsAssumption, NoneAssumption
  <2>3. ASSUME NEW old, NEW s \in Overlay(old, resp[p].content), s \in Content
        PROVE  s = resp[p].content
    BY <2>3, ConstantsAssumption DEF Overlay
  <2>4. \A k \in Key : files'[k] \in Content =>
          files'[k] = files[k] \/ (k = KeyOf(resp[p]) /\ files'[k] = resp[p].content)
    BY <1>6, <2>1, <2>3 DEF Fill, SidecarFill, TypeInv, TypeOK
  <2>5. \A k \in Key : sidecars'[k] \in Content =>
          sidecars'[k] = sidecars[k] \/ (k = KeyOf(resp[p]) /\ sidecars'[k] = resp[p].content)
    BY <1>6, <2>1, <2>3 DEF Fill, SidecarFill, TypeInv, TypeOK
  <2>6. UNCHANGED <<worldVars, resp, ran>>
    BY <1>6 DEF Fill, SidecarFill
  <2>. QED
    BY <2>2, <2>4, <2>5, <2>6, <1>t DEF OnlyPublishedContent, Licensed, worldVars
<1>7. ASSUME NEW p \in Proc, WriteFailed(p) \/ SidecarWriteFailed(p) \/ Crash(p)
      PROVE  LicenseInv'
  <2>1. CutShort(p) /\ UNCHANGED <<worldVars, resp, ran>>
    BY <1>7 DEF WriteFailed, SidecarWriteFailed, Crash
  <2>2. \A k \in Key : /\ files'[k] \in Content => files'[k] = files[k]
                       /\ sidecars'[k] \in Content => sidecars'[k] = sidecars[k]
    BY <2>1, CutShortLicensed
  <2>. QED
    BY <2>1, <2>2, <1>t DEF OnlyPublishedContent, Licensed, worldVars
<1>8. ASSUME NEW p \in Proc, Exec(p)
      PROVE  LicenseInv'
  <2>1. /\ resp[p] \in Entry
        /\ KeyOf(resp[p]) \in Key
        /\ KeyOf(resp[p]).owner = resp[p].owner
        /\ KeyOf(resp[p]).version = resp[p].version
    BY <1>8, KeyOfType DEF Exec, TypeInv, Holds, HoldingAnswer, KeyOf
  <2>. QED
    BY <1>8, <2>1, <1>t
       DEF Exec, OnlyPublishedContent, Licensed, worldVars, diskVars, TypeInv, TypeOK
<1>9. CASE UNCHANGED vars
  BY <1>9, <1>t DEF vars, OnlyPublishedContent, Licensed
<1>. QED
  BY <1>1, <1>2, <1>3, <1>4, <1>5, <1>6, <1>7, <1>8, <1>9 DEF Next, Step

(* However many commands run, crash and fail on one cache directory, a     *)
(* complete entry, a recorded hash and an executed source were published   *)
(* by that owner under that version.                                       *)
THEOREM NothingUnpublishedGetsIn == Spec => []OnlyPublishedContent
<1>1. Init => LicenseInv
  BY ConstantsAssumption
     DEF Init, LicenseInv, TypeInv, TypeOK, Holds, HoldingAnswer, FileState, Labels,
         Outcomes, Job, Commands, Unpublished, Fresh, OnlyPublishedContent
<1>2. LicenseInv => OnlyPublishedContent
  BY DEF LicenseInv
<1>. QED
  BY <1>1, <1>2, LicenseStep, PTL DEF Spec

-----------------------------------------------------------------------------
(* One command at a time.  The copy a command has written or found stays   *)
(* as it is until the command ends, so what it runs, and what a get leaves *)
(* behind, is the text it verified; the crashes and failed writes of       *)
(* earlier commands do not matter.                                         *)

Sole == \A p, q \in Proc : p = q

Secured == {"sideTruncate", "sideFill", "parse", "exec"}

SoleInv ==
    /\ TypeInv
    /\ Fresh
    /\ \A p \in Proc :
         /\ pc[p] # "idle" => outcome[p] = "none"
         /\ pc[p] \in {"parse", "exec", "find", "loadSidecar", "show"} => job[p].cmd # "get"
         /\ pc[p] = "fill" => files[KeyOf(resp[p])] = Empty
         /\ pc[p] \in Secured => files[KeyOf(resp[p])] = resp[p].content
    /\ RunsWhatItVerified
    /\ GetLeavesVerifiedCopy

LEMMA SoleStep == ASSUME Sole, SoleInv, [Next]_vars PROVE SoleInv'
<1> USE DEF Sole, SoleInv, Secured, RunsWhatItVerified, GetLeavesVerifiedCopy
<1>t. TypeInv' /\ Fresh'
  BY TypeStep, FreshStep
<1>1. ASSUME NEW o \in Owner, NEW v \in Version, NEW c \in Content, Publish(o, v, c)
      PROVE  SoleInv'
  BY <1>1, <1>t DEF Publish, diskVars, procVars
<1>2. ASSUME NEW p \in Proc, NEW cmd \in Commands, NEW nc \in BOOLEAN, Start(p, cmd, nc)
      PROVE  SoleInv'
  BY <1>2, <1>t DEF Start, Goto, diskVars, TypeInv, TypeOK
<1>3. ASSUME NEW p \in Proc, FetchVerified(p)
      PROVE  SoleInv'
  BY <1>3, <1>t DEF FetchVerified, Goto, diskVars, TypeInv, TypeOK, Fresh
<1>4. ASSUME NEW p \in Proc, FetchRejected(p) \/ FetchFailed(p)
      PROVE  SoleInv'
  BY <1>4, <1>t DEF FetchRejected, FetchFailed, End, diskVars, TypeInv, TypeOK
<1>5. ASSUME NEW p \in Proc, Lookup(p)
      PROVE  SoleInv'
  BY <1>5, <1>t DEF Lookup, CacheHit, HavePath, Goto, End, diskVars, TypeInv, TypeOK
<1>6. ASSUME NEW p \in Proc, Truncate(p)
      PROVE  SoleInv'
  <2>1. KeyOf(resp[p]) \in Key
    BY <1>6, KeyOfType DEF Truncate, TypeInv, Holds, HoldingAnswer
  <2>. QED
    BY <1>6, <2>1, <1>t DEF Truncate, Goto, TypeInv, TypeOK, Fresh
<1>7. ASSUME NEW p \in Proc, Fill(p)
      PROVE  SoleInv'
  <2>1. KeyOf(resp[p]) \in Key
    BY <1>7, KeyOfType DEF Fill, TypeInv, Holds, HoldingAnswer
  <2>2. files' = [files EXCEPT ![KeyOf(resp[p])] = resp[p].content]
    BY <1>7 DEF Fill, Overlay
  <2>. QED
    BY <1>7, <2>1, <2>2, <1>t DEF Fill, Goto, TypeInv, TypeOK, Fresh
<1>8. ASSUME NEW p \in Proc, WriteFailed(p) \/ Crash(p)
      PROVE  SoleInv'
  BY <1>8, <1>t DEF WriteFailed, Crash, End, TypeInv, TypeOK, Fresh
<1>9. ASSUME NEW p \in Proc, SidecarTruncate(p)
      PROVE  SoleInv'
  BY <1>9, <1>t DEF SidecarTruncate, Goto, TypeInv, TypeOK
<1>10. ASSUME NEW p \in Proc, SidecarFill(p) \/ SidecarWriteFailed(p)
       PROVE  SoleInv'
  <2>1. UNCHANGED <<files, resp, job, ran>>
    BY <1>10 DEF SidecarFill, SidecarWriteFailed, CutShort, diskVars
  <2>2. pc[p] \in {"sideTruncate", "sideFill"} /\ HavePath(p)
    BY <1>10 DEF SidecarFill, SidecarWriteFailed
  <2>. QED
    BY <2>1, <2>2, <1>t DEF HavePath, Goto, End, TypeInv, TypeOK
<1>11. ASSUME NEW p \in Proc, Parse(p)
       PROVE  SoleInv'
  BY <1>11, <1>t DEF Parse, Goto, End, diskVars, TypeInv, TypeOK
<1>12. ASSUME NEW p \in Proc, Exec(p)
       PROVE  SoleInv'
  BY <1>12, <1>t DEF Exec, End, diskVars, TypeInv, TypeOK
<1>13. ASSUME NEW p \in Proc, Find(p) \/ LoadSidecar(p) \/ Show(p)
       PROVE  SoleInv'
  BY <1>13, <1>t DEF Find, LoadSidecar, Show, Goto, End, diskVars, TypeInv, TypeOK
<1>14. CASE UNCHANGED vars
  BY <1>14, <1>t DEF vars
<1>. QED
  BY <1>1, <1>2, <1>3, <1>4, <1>5, <1>6, <1>7, <1>8, <1>9, <1>10, <1>11, <1>12,
     <1>13, <1>14 DEF Next, Step

LEMMA SoleInductive == ASSUME Sole PROVE Spec => []SoleInv
<1>1. Init => SoleInv
  BY ConstantsAssumption
     DEF Init, SoleInv, TypeInv, TypeOK, Holds, HoldingAnswer, FileState, Labels,
         Outcomes, Job, Commands, Unpublished, Fresh, RunsWhatItVerified,
         GetLeavesVerifiedCopy, Secured
<1>2. SoleInv /\ [Next]_vars => SoleInv'
  BY SoleStep
<1>. QED
  BY <1>1, <1>2, PTL DEF Spec

(* While commands do not overlap, `kue run` executes the text whose hash   *)
(* it verified, although it opens the cache path again to do so.           *)
THEOREM SoleRunIsVerified == ASSUME Sole PROVE Spec => []RunsWhatItVerified
<1>1. SoleInv => RunsWhatItVerified
  BY DEF SoleInv
<1>. QED
  BY <1>1, SoleInductive, PTL

(* While commands do not overlap, a get that reports success leaves the    *)
(* verified source in the cache, whatever was there before.                *)
THEOREM SoleGetIsVerified == ASSUME Sole PROVE Spec => []GetLeavesVerifiedCopy
<1>1. SoleInv => GetLeavesVerifiedCopy
  BY DEF SoleInv
<1>. QED
  BY <1>1, SoleInductive, PTL

-----------------------------------------------------------------------------
(* Any number of commands at once, without crashes, on a registry that     *)
(* never changes a published version.  What arrives is the text published, *)
(* or is altered on the way and rejected since every answer has a hash.    *)
(* Two commands that write one entry then write the same text, and an      *)
(* entry is incomplete only while some command is still at work on it.     *)

BodiesChecked == Hashed = Owner \/ ~BodiesMayDiffer

Steady == VersionsImmutable /\ ~Faults /\ BodiesChecked

(* What passes the check is what the registry holds.                       *)
LEMMA AcceptedIsPublished ==
    ASSUME BodiesChecked, TypeOK, NEW o \in Owner, registry[o] # Unpublished,
           NEW body \in Delivered(o), Verified(body, ServerHash(o))
    PROVE  body = registry[o].content
<1>1. registry[o] \in Entry
  BY DEF TypeOK
<1>. QED
  BY <1>1, ConstantsAssumption DEF BodiesChecked, Delivered, Verified, ServerHash, Entry

At(p, k, labels) == pc[p] \in labels /\ KeyOf(resp[p]) = k

OneSource ==
    /\ \A e, f \in published : e.owner = f.owner /\ e.version = f.version => e = f
    /\ \A o \in Owner : registry[o] # Unpublished => registry[o] \in published
    /\ \A o \in Owner : registry[o] # Unpublished => registry[o].owner = o
    /\ \A p \in Proc : resp[p] # None => resp[p] \in published

Source(k, c) == \E e \in published : KeyOf(e) = k /\ e.content = c

EntriesInv ==
    \A k \in Key :
        /\ files[k] \in {Absent, Empty} \/ Source(k, files[k])
        /\ sidecars[k] \in {Absent, Empty} \/ Source(k, sidecars[k])
        /\ files[k] = Empty => \E p \in Proc : At(p, k, {"fill"})
        /\ files[k] = Absent => sidecars[k] = Absent
        /\ files[k] # Absent /\ sidecars[k] \in {Absent, Empty} =>
             \E p \in Proc : At(p, k, Writing)
        /\ \A p \in Proc : At(p, k, Writing) => files[k] # Absent
        /\ \A p \in Proc : At(p, k, {"sideFill"}) => sidecars[k] # Absent

SteadyInv == TypeInv /\ OneSource /\ EntriesInv

LEMMA OneSourceStep == ASSUME Steady, TypeInv, OneSource, [Next]_vars PROVE OneSource'
<1> USE DEF OneSource, TypeInv, TypeOK
<1>1. ASSUME NEW o \in Owner, NEW v \in Version, NEW c \in Content, Publish(o, v, c)
      PROVE  OneSource'
  <2> DEFINE e == [owner |-> o, version |-> v, content |-> c]
  <2>1. \A q \in published : q.owner = o /\ q.version = v => q = e
    BY <1>1 DEF Publish, Steady, Entry
  <2>2. /\ published' = published \cup {e}
        /\ registry' = [registry EXCEPT ![o] = e]
        /\ resp' = resp
    BY <1>1 DEF Publish, procVars
  <2>3. e.owner = o /\ e.version = v
    OBVIOUS
  <2> HIDE DEF e
  <2>. QED
    BY <2>1, <2>2, <2>3
<1>2. ASSUME NEW p \in Proc, FetchVerified(p)
      PROVE  OneSource'
  <2>1. PICK o \in Owner :
           /\ registry[o] # Unpublished
           /\ resp' = [resp EXCEPT ![p] = [owner |-> o, version |-> registry[o].version,
                                           content |-> registry[o].content]]
    BY <1>2, AcceptedIsPublished DEF FetchVerified, Steady
  <2>2. [owner |-> o, version |-> registry[o].version,
         content |-> registry[o].content] = registry[o]
    BY <2>1, registry[o] \in Entry DEF Unpublished, Entry
  <2>. QED
    BY <1>2, <2>1, <2>2 DEF FetchVerified, worldVars
<1>3. ASSUME NEW p \in Proc, NEW cmd \in Commands, NEW nc \in BOOLEAN, Start(p, cmd, nc)
      PROVE  OneSource'
  BY <1>3 DEF Start, worldVars
<1>4. ASSUME NEW p \in Proc, Step(p) \/ Crash(p), ~FetchVerified(p)
      PROVE  OneSource'
  BY <1>4 DEF Step, FetchRejected, FetchFailed, Lookup, Truncate, Fill,
     WriteFailed, SidecarTruncate, SidecarFill, SidecarWriteFailed, Parse, Exec, Find,
     LoadSidecar, Show, Crash, worldVars
<1>5. CASE UNCHANGED vars
  BY <1>5 DEF vars
<1>. QED
  BY <1>1, <1>2, <1>3, <1>4, <1>5 DEF Next

(* A step that changes neither files nor answers, and moves no process     *)
(* into or out of its writes, keeps the entries.                           *)
LEMMA EntriesKept ==
    ASSUME EntriesInv, published \subseteq published',
           UNCHANGED <<files, sidecars>>,
           \A p \in Proc : pc'[p] \in Writing \/ pc[p] \in Writing =>
               pc'[p] = pc[p] /\ resp'[p] = resp[p]
    PROVE  EntriesInv'
BY DEF EntriesInv, At, Source, Writing

LEMMA SourceUnique ==
    ASSUME OneSource, NEW k, NEW c, NEW d, Source(k, c), Source(k, d)
    PROVE  c = d
BY DEF OneSource, Source, KeyOf

LEMMA AnswerIsSource ==
    ASSUME TypeInv, OneSource, NEW p \in Proc, pc[p] \in HoldingAnswer
    PROVE  /\ resp[p] \in Entry
           /\ KeyOf(resp[p]) \in Key
           /\ resp[p].content \in Content
           /\ Source(KeyOf(resp[p]), resp[p].content)
BY KeyOfType, NoneAssumption DEF TypeInv, Holds, HoldingAnswer, OneSource, Source, Entry

LEMMA EntriesStep == ASSUME Steady, SteadyInv, [Next]_vars PROVE EntriesInv'
<1> USE DEF SteadyInv, Writing
<1>1. ASSUME NEW o \in Owner, NEW v \in Version, NEW c \in Content, Publish(o, v, c)
      PROVE  EntriesInv'
  BY <1>1, EntriesKept DEF Publish, diskVars, procVars
<1>2. ASSUME NEW p \in Proc, NEW cmd \in Commands, NEW nc \in BOOLEAN, Start(p, cmd, nc)
      PROVE  EntriesInv'
  BY <1>2, EntriesKept DEF Start, Goto, worldVars, diskVars, TypeInv, TypeOK
<1>3. ASSUME NEW p \in Proc,
             \/ FetchVerified(p) \/ FetchRejected(p) \/ FetchFailed(p)
             \/ Parse(p) \/ Exec(p) \/ Find(p) \/ LoadSidecar(p) \/ Show(p)
      PROVE  EntriesInv'
  BY <1>3, EntriesKept
     DEF FetchVerified, FetchRejected, FetchFailed, Parse, Exec, Find, LoadSidecar,
         Show, Goto, End, worldVars, diskVars, TypeInv, TypeOK
<1>4. ASSUME NEW p \in Proc, Lookup(p)
      PROVE  EntriesInv'
  BY <1>4, EntriesKept DEF Lookup, HavePath, Goto, End, worldVars, diskVars, TypeInv, TypeOK
<1>5. ASSUME NEW p \in Proc, Truncate(p)
      PROVE  EntriesInv'
  <2>1. KeyOf(resp[p]) \in Key
    BY <1>5, AnswerIsSource DEF Truncate, HoldingAnswer
  <2>2. /\ files' = [files EXCEPT ![KeyOf(resp[p])] = Empty]
        /\ pc' = [pc EXCEPT ![p] = "fill"]
        /\ pc[p] = "truncate"
        /\ UNCHANGED <<published, sidecars, resp>>
    BY <1>5 DEF Truncate, Goto, worldVars
  <2>3. At(p, KeyOf(resp[p]), {"fill"})'
    BY <2>2 DEF At, TypeInv, TypeOK
  <2>4. \A q \in Proc, k \in Key, L \in {{"fill"}, {"sideFill"}, Writing} :
           /\ At(q, k, L) => At(q, k, L)'
           /\ At(q, k, L)' => At(q, k, L) \/ k = KeyOf(resp[p])
    BY <2>2 DEF At, TypeInv, TypeOK
  <2>. QED
    BY <2>1, <2>2, <2>3, <2>4, ConstantsAssumption DEF EntriesInv, Source, At, TypeInv, TypeOK
<1>6. ASSUME NEW p \in Proc, Fill(p)
      PROVE  EntriesInv'
  <2>1. /\ KeyOf(resp[p]) \in Key
        /\ resp[p].content \in Content
        /\ Source(KeyOf(resp[p]), resp[p].content)
    BY <1>6, AnswerIsSource DEF Fill, HoldingAnswer
  <2>2. files[KeyOf(resp[p])] \in {Empty, resp[p].content}
    BY <1>6, <2>1, SourceUnique DEF Fill, EntriesInv, At
  <2>3. /\ files' = [files EXCEPT ![KeyOf(resp[p])] = resp[p].content]
        /\ pc' = [pc EXCEPT ![p] = "sideTruncate"]
        /\ pc[p] = "fill"
        /\ UNCHANGED <<published, sidecars, resp>>
    BY <1>6, <2>2 DEF Fill, Overlay, Goto, worldVars
  <2>4. \A q \in Proc, k \in Key :
           /\ At(q, k, {"fill"}) => At(q, k, {"fill"})' \/ k = KeyOf(resp[p])
           /\ At(q, k, Writing) <=> At(q, k, Writing)'
           /\ At(q, k, {"sideFill"})' <=> At(q, k, {"sideFill"})
    BY <2>3 DEF At, TypeInv, TypeOK
  <2>5. \A k \in Key : k = KeyOf(resp[p]) => At(p, k, Writing)'
    BY <2>3 DEF At, TypeInv, TypeOK
  <2>6. \A k \in Key : files'[k] = IF k = KeyOf(resp[p]) THEN resp[p].content ELSE files[k]
    BY <2>1, <2>3 DEF TypeInv, TypeOK
  <2>7. \A k, c : Source(k, c) <=> Source(k, c)'
    BY <2>3 DEF Source
  <2>8. resp[p].content \notin {Absent, Empty}
    BY <2>1, ConstantsAssumption
  <2>9. sidecars' = sidecars
    BY <2>3
  <2> HIDE <2>3
  <2>10. ASSUME NEW k \in Key
         PROVE  /\ files'[k] \in {Absent, Empty} \/ Source(k, files[k])'
                /\ sidecars'[k] \in {Absent, Empty} \/ Source(k, sidecars[k])'
                /\ files'[k] = Absent => sidecars'[k] = Absent
                /\ \A q \in Proc : At(q, k, Writing)' => files'[k] # Absent
                /\ \A q \in Proc : At(q, k, {"sideFill"})' => sidecars'[k] # Absent
    BY <2>1, <2>4, <2>6, <2>7, <2>8, <2>9 DEF EntriesInv
  <2>11. ASSUME NEW k \in Key
         PROVE  /\ files'[k] = Empty => \E q \in Proc : At(q, k, {"fill"})'
                /\ files'[k] # Absent /\ sidecars'[k] \in {Absent, Empty} =>
                     \E q \in Proc : At(q, k, Writing)'
    <3>1. CASE k = KeyOf(resp[p])
      BY <2>5, <2>6, <2>8, <3>1
    <3>2. CASE k # KeyOf(resp[p])
      <4>1. files'[k] = files[k] /\ sidecars'[k] = sidecars[k]
        BY <2>6, <2>9, <3>2
      <4>2. files'[k] = Empty => \E q \in Proc : At(q, k, {"fill"})'
        BY <2>4, <3>2, <4>1 DEF EntriesInv
      <4>3. files'[k] # Absent /\ sidecars'[k] \in {Absent, Empty} =>
              \E q \in Proc : At(q, k, Writing)'
        BY <2>4, <4>1 DEF EntriesInv
      <4>. QED
        BY <4>2, <4>3
    <3>. QED
      BY <3>1, <3>2
  <2>. QED
    BY <2>10, <2>11 DEF EntriesInv
<1>7. ASSUME NEW p \in Proc, SidecarTruncate(p)
      PROVE  EntriesInv'
  <2>1. KeyOf(resp[p]) \in Key
    BY <1>7, AnswerIsSource DEF SidecarTruncate, HoldingAnswer
  <2>2. /\ sidecars' = [sidecars EXCEPT ![KeyOf(resp[p])] = Empty]
        /\ pc' = [pc EXCEPT ![p] = "sideFill"]
        /\ pc[p] = "sideTruncate"
        /\ UNCHANGED <<published, files, resp>>
    BY <1>7 DEF SidecarTruncate, Goto, worldVars
  <2>3. \A q \in Proc, k \in Key :
           /\ At(q, k, {"fill"}) <=> At(q, k, {"fill"})'
           /\ At(q, k, Writing) <=> At(q, k, Writing)'
           /\ At(q, k, {"sideFill"})' => At(q, k, {"sideFill"}) \/ k = KeyOf(resp[p])
    BY <2>2 DEF At, TypeInv, TypeOK
  <2>4. At(p, KeyOf(resp[p]), Writing)
    BY <2>2 DEF At
  <2>. QED
    BY <2>1, <2>2, <2>3, <2>4, ConstantsAssumption DEF EntriesInv, Source, TypeInv, TypeOK
<1>8. ASSUME NEW p \in Proc, SidecarFill(p)
      PROVE  EntriesInv'
  <2>1. /\ KeyOf(resp[p]) \in Key
        /\ resp[p].content \in Content
        /\ Source(KeyOf(resp[p]), resp[p].content)
    BY <1>8, AnswerIsSource DEF SidecarFill, HoldingAnswer
  <2>2. sidecars[KeyOf(resp[p])] \in {Empty, resp[p].content}
    BY <1>8, <2>1, SourceUnique DEF SidecarFill, EntriesInv, At
  <2>3. /\ sidecars' = [sidecars EXCEPT ![KeyOf(resp[p])] = resp[p].content]
        /\ pc' = [pc EXCEPT ![p] = "idle"] \/ pc' = [pc EXCEPT ![p] = "parse"]
        /\ pc[p] = "sideFill"
        /\ UNCHANGED <<published, files, resp>>
    BY <1>8, <2>2 DEF SidecarFill, Overlay, HavePath, Goto, End, worldVars
  <2>4. \A q \in Proc, k \in Key :
           /\ At(q, k, {"fill"}) <=> At(q, k, {"fill"})'
           /\ At(q, k, Writing) => At(q, k, Writing)' \/ k = KeyOf(resp[p])
           /\ At(q, k, Writing)' => At(q, k, Writing)
           /\ At(q, k, {"sideFill"})' => At(q, k, {"sideFill"})
    BY <2>3 DEF At, TypeInv, TypeOK
  <2>5. files[KeyOf(resp[p])] # Absent
    BY <2>1, <2>3 DEF EntriesInv, At
  <2>. QED
    BY <2>1, <2>3, <2>4, <2>5, ConstantsAssumption DEF EntriesInv, Source, TypeInv, TypeOK
<1>9. ASSUME NEW p \in Proc, WriteFailed(p) \/ SidecarWriteFailed(p) \/ Crash(p)
      PROVE  EntriesInv'
  BY <1>9 DEF WriteFailed, SidecarWriteFailed, Crash, Steady
<1>10. CASE UNCHANGED vars
  BY <1>10, EntriesKept DEF vars
<1>. QED
  BY <1>1, <1>2, <1>3, <1>4, <1>5, <1>6, <1>7, <1>8, <1>9, <1>10 DEF Next, Step

(* On a steady registry, and while no command dies, commands that overlap  *)
(* in any way leave every cache entry whole once none of them is writing:  *)
(* source and sidecar are there, undamaged, and agree, also where answers  *)
(* with a stated hash are altered on the way.                              *)
THEOREM OverlappingCommandsLeaveCacheIntact ==
    ASSUME Steady PROVE Spec => []QuiescentCacheIntact
<1>1. Init => SteadyInv
  BY ConstantsAssumption
     DEF Init, SteadyInv, TypeInv, TypeOK, Holds, HoldingAnswer, FileState, Labels,
         Outcomes, Job, Commands, Unpublished, OneSource, EntriesInv, At, Writing
<1>2. SteadyInv /\ [Next]_vars => SteadyInv'
  BY TypeStep, OneSourceStep, EntriesStep DEF SteadyInv
<1>3. SteadyInv => QuiescentCacheIntact
  <2> SUFFICES ASSUME SteadyInv, \A p \in Proc : pc[p] \notin Writing, NEW k \in Key
               PROVE  \/ files[k] = Absent /\ sidecars[k] = Absent
                      \/ files[k] \in Content /\ sidecars[k] = files[k]
    BY DEF QuiescentCacheIntact
  <2>1. ~\E p \in Proc : At(p, k, Writing) \/ At(p, k, {"fill"})
    BY DEF At, Writing
  <2>2. CASE files[k] = Absent
    BY <2>2 DEF SteadyInv, EntriesInv
  <2>3. CASE files[k] # Absent
    <3>1. Source(k, files[k]) /\ Source(k, sidecars[k])
      BY <2>1, <2>3 DEF SteadyInv, EntriesInv
    <3>. QED
      BY <3>1, SourceUnique DEF SteadyInv, TypeInv, TypeOK, Source, Entry
  <2>. QED
    BY <2>2, <2>3
<1>. QED
  BY <1>1, <1>2, <1>3, PTL DEF Spec

(* A command that is about to run a file, or past its truncation, has one: *)
(* nothing removes an entry.                                               *)
ReadyInv ==
    \A p \in Proc : pc[p] \in Writing \cup {"parse", "exec"} => files[KeyOf(resp[p])] # Absent

RanInv == SteadyInv /\ Fresh /\ ReadyInv /\ RunsVerifiedOrEmpty

LEMMA EntriesStayThere ==
    ASSUME TypeInv, ~Faults, [Next]_vars, NEW k \in Key, files[k] # Absent
    PROVE  files'[k] # Absent
<1> USE ConstantsAssumption DEF TypeInv, TypeOK
<1>1. ASSUME NEW p \in Proc, Truncate(p)
      PROVE  files'[k] # Absent
  BY <1>1 DEF Truncate
<1>2. ASSUME NEW p \in Proc, Fill(p)
      PROVE  files'[k] # Absent
  <2>1. resp[p].content \in Content
    BY <1>2 DEF Fill, Holds, HoldingAnswer, Entry
  <2>2. PICK s \in {resp[p].content, Torn} : files' = [files EXCEPT ![KeyOf(resp[p])] = s]
    BY <1>2 DEF Fill, Overlay
  <2>. QED
    BY <2>1, <2>2
<1>3. ASSUME NEW p \in Proc, Step(p) \/ Crash(p), ~Truncate(p), ~Fill(p)
      PROVE  files'[k] # Absent
  BY <1>3 DEF Step, FetchVerified, FetchRejected, FetchFailed, Lookup, WriteFailed,
     SidecarTruncate, SidecarFill, SidecarWriteFailed, Parse, Exec, Find, LoadSidecar, Show,
     Crash, diskVars
<1>4. ASSUME NEW p \in Proc, NEW cmd \in Commands, NEW nc \in BOOLEAN, Start(p, cmd, nc)
      PROVE  files'[k] # Absent
  BY <1>4 DEF Start, diskVars
<1>5. ASSUME NEW o \in Owner, NEW v \in Version, NEW c \in Content, Publish(o, v, c)
      PROVE  files'[k] # Absent
  BY <1>5 DEF Publish, diskVars
<1>6. CASE UNCHANGED vars
  BY <1>6 DEF vars
<1>. QED
  BY <1>1, <1>2, <1>3, <1>4, <1>5, <1>6 DEF Next

LEMMA RanStep == ASSUME Steady, RanInv, [Next]_vars PROVE RanInv'
<1> USE DEF RanInv
<1>t. TypeInv /\ OneSource /\ EntriesInv /\ ~Faults
  BY DEF SteadyInv, Steady
<1>s. SteadyInv' /\ Fresh'
  BY TypeStep, OneSourceStep, EntriesStep, FreshStep DEF SteadyInv
<1>f. ASSUME NEW k \in Key, files[k] # Absent
      PROVE  files'[k] # Absent
  BY <1>f, <1>t, EntriesStayThere
<1>k. ASSUME NEW p \in Proc, pc[p] \in HoldingAnswer
      PROVE  /\ KeyOf(resp[p]) \in Key
             /\ resp[p].content \in Content
             /\ Source(KeyOf(resp[p]), resp[p].content)
  BY <1>k, <1>t, AnswerIsSource
(* A step that leaves answers and runs alone.                              *)
<1>1. ASSUME NEW p \in Proc, UNCHANGED <<resp, ran>>, \A q \in Proc : q # p => pc'[q] = pc[q],
             pc'[p] \in Writing \cup {"parse", "exec"} =>
               pc[p] \in HoldingAnswer /\ files'[KeyOf(resp[p])] # Absent
      PROVE  ReadyInv' /\ RunsVerifiedOrEmpty'
  <2>1. RunsVerifiedOrEmpty'
    BY <1>1 DEF RunsVerifiedOrEmpty
  <2>2. ReadyInv'
    BY <1>1, <1>f, <1>k DEF ReadyInv, Writing, HoldingAnswer
  <2>. QED
    BY <2>1, <2>2
<1>2. ASSUME NEW p \in Proc, Start(p, job'[p].cmd, job'[p].noCache) \/ FetchVerified(p) \/ Exec(p)
      PROVE  ReadyInv' /\ RunsVerifiedOrEmpty'
  <2>1. /\ \A q \in Proc : q # p => UNCHANGED <<pc[q], resp[q], ran[q]>>
        /\ pc'[p] \notin Writing \cup {"parse", "exec"}
    BY <1>2, <1>t DEF Start, FetchVerified, Exec, Goto, End, Writing, TypeInv, TypeOK
  <2>2. ReadyInv'
    BY <1>f, <1>k, <2>1 DEF ReadyInv, Writing, HoldingAnswer
  <2>3. ran'[p] # None => ran'[p] \in {resp'[p].content, Empty}
    <3>1. CASE Exec(p)
      <4>1. /\ pc[p] = "exec" /\ resp'[p] = resp[p] /\ ran'[p] = files[KeyOf(resp[p])]
            /\ pc[p] \in HoldingAnswer /\ files[KeyOf(resp[p])] # Absent
        BY <1>t, <3>1 DEF Exec, HoldingAnswer, ReadyInv, TypeInv, TypeOK
      <4>2. files[KeyOf(resp[p])] = Empty \/ Source(KeyOf(resp[p]), files[KeyOf(resp[p])])
        BY <1>k, <1>t, <4>1 DEF EntriesInv
      <4>3. files[KeyOf(resp[p])] \in {resp[p].content, Empty}
        BY <1>k, <1>t, <4>1, <4>2, SourceUnique
      <4>. QED
        BY <4>1, <4>3
    <3>2. CASE ~Exec(p)
      BY <1>2, <1>t, <3>2 DEF Start, FetchVerified, Fresh, TypeInv, TypeOK
    <3>. QED
      BY <3>1, <3>2
  <2>. QED
    BY <2>1, <2>2, <2>3 DEF RunsVerifiedOrEmpty
<1>3. ASSUME NEW p \in Proc, NEW cmd \in Commands, NEW nc \in BOOLEAN, Start(p, cmd, nc)
      PROVE  ReadyInv' /\ RunsVerifiedOrEmpty'
  <2>1. job'[p].cmd = cmd /\ job'[p].noCache = nc
    BY <1>3, <1>t DEF Start, TypeInv, TypeOK
  <2>. QED
    BY <1>2, <1>3, <2>1
<1>4. ASSUME NEW p \in Proc, Truncate(p) \/ Fill(p)
      PROVE  ReadyInv' /\ RunsVerifiedOrEmpty'
  <2>1. /\ UNCHANGED <<resp, ran>> /\ pc[p] \in HoldingAnswer
        /\ \A q \in Proc : q # p => pc'[q] = pc[q]
    BY <1>4, <1>t DEF Truncate, Fill, Goto, HoldingAnswer, TypeInv, TypeOK
  <2>2. files'[KeyOf(resp[p])] # Absent
    <3>1. CASE Truncate(p)
      BY <1>k, <1>t, <2>1, <3>1, ConstantsAssumption DEF Truncate, TypeInv, TypeOK
    <3>2. CASE Fill(p)
      BY <1>k, <1>f, <2>1, <3>2 DEF Fill, ReadyInv, Writing
    <3>. QED
      BY <1>4, <3>1, <3>2
  <2>. QED
    BY <1>1, <2>1, <2>2
<1>5. ASSUME NEW p \in Proc,
             \/ Lookup(p) \/ SidecarTruncate(p) \/ SidecarFill(p) \/ SidecarWriteFailed(p)
             \/ Parse(p)
      PROVE  ReadyInv' /\ RunsVerifiedOrEmpty'
  <2>1. /\ UNCHANGED <<resp, ran>> /\ pc[p] \in HoldingAnswer
        /\ \A q \in Proc : q # p => pc'[q] = pc[q]
    BY <1>5, <1>t DEF Lookup, SidecarTruncate, SidecarFill, SidecarWriteFailed, Parse, HavePath,
                      Goto, End, HoldingAnswer, TypeInv, TypeOK
  <2>2. pc'[p] \in Writing \cup {"parse", "exec"} => files[KeyOf(resp[p])] # Absent
    <3>1. CASE Lookup(p)
      <4>1. pc'[p] \in Writing \cup {"parse", "exec"} => files[KeyOf(resp[p])] = resp[p].content
        BY <1>t, <3>1 DEF Lookup, CacheHit, HavePath, Goto, End, Writing, TypeInv, TypeOK
      <4>. QED
        BY <1>k, <2>1, <4>1, ConstantsAssumption
    <3>2. CASE ~Lookup(p)
      BY <1>5, <3>2 DEF SidecarTruncate, SidecarFill, SidecarWriteFailed, Parse, ReadyInv, Writing
    <3>. QED
      BY <3>1, <3>2
  <2>. QED
    BY <1>1, <1>f, <1>k, <2>1, <2>2
<1>6. ASSUME NEW p \in Proc,
             FetchRejected(p) \/ FetchFailed(p) \/ Find(p) \/ LoadSidecar(p) \/ Show(p)
      PROVE  ReadyInv' /\ RunsVerifiedOrEmpty'
  <2>1. /\ UNCHANGED <<resp, ran>> /\ \A q \in Proc : q # p => pc'[q] = pc[q]
        /\ pc'[p] \notin Writing \cup {"parse", "exec"}
    BY <1>6, <1>t DEF FetchRejected, FetchFailed, Find, LoadSidecar, Show, Goto, End, Writing,
                      TypeInv, TypeOK
  <2>. QED
    BY <1>1, <2>1
<1>7. ASSUME NEW p \in Proc, WriteFailed(p) \/ Crash(p)
      PROVE  FALSE
  BY <1>7, <1>t DEF WriteFailed, Crash
<1>8. ASSUME NEW o \in Owner, NEW v \in Version, NEW c \in Content, Publish(o, v, c)
      PROVE  ReadyInv' /\ RunsVerifiedOrEmpty'
  BY <1>8 DEF Publish, ReadyInv, RunsVerifiedOrEmpty, diskVars, procVars
<1>9. CASE UNCHANGED vars
  BY <1>9, <1>s DEF vars, ReadyInv, RunsVerifiedOrEmpty
<1>. QED
  BY <1>s, <1>2, <1>3, <1>4, <1>5, <1>6, <1>7, <1>8, <1>9 DEF Next, Step

(* On a steady registry, and while no command dies, the race between the   *)
(* check of the hash and the execution has one outcome besides the right   *)
(* one: an empty file.  No other text is executed, however many commands   *)
(* write the entry meanwhile (RunCommand, CacheWorkflow).                  *)
THEOREM OverlappingRunsAreVerified ==
    ASSUME Steady PROVE Spec => []RunsVerifiedOrEmpty
<1>1. Init => RanInv
  BY ConstantsAssumption
     DEF Init, RanInv, SteadyInv, TypeInv, TypeOK, Holds, HoldingAnswer, FileState, Labels,
         Outcomes, Job, Commands, Unpublished, OneSource, EntriesInv, At, Writing, Fresh,
         ReadyInv, RunsVerifiedOrEmpty
<1>2. RanInv /\ [Next]_vars => RanInv'
  BY RanStep
<1>3. RanInv => RunsVerifiedOrEmpty
  BY DEF RanInv
<1>. QED
  BY <1>1, <1>2, <1>3, PTL DEF Spec

-----------------------------------------------------------------------------
(* Refinement.  One command at a time, the cached runner implements        *)
(* FreshRun: the fetch is the moment the source is taken, and everything   *)
(* the cache does between the fetch and the execution is a stutter.        *)

AskInv == \A p \in Proc : pc[p] = "fetch" => resp[p] = None

LEMMA AskStep == TypeInv /\ AskInv /\ [Next]_vars => AskInv'
<1> SUFFICES ASSUME TypeInv, AskInv, [Next]_vars PROVE AskInv'
  OBVIOUS
<1> USE DEF TypeInv, AskInv, TypeOK
<1>1. ASSUME NEW p \in Proc, Step(p) \/ Crash(p)
      PROVE  AskInv'
  BY <1>1 DEF Step, FetchVerified, FetchRejected, FetchFailed, Lookup, Truncate, Fill,
     WriteFailed, SidecarTruncate, SidecarFill, SidecarWriteFailed, Parse, Exec, Find,
     LoadSidecar, Show, Crash, End, Goto, HavePath
<1>2. ASSUME NEW p \in Proc, NEW cmd \in Commands, NEW nc \in BOOLEAN, Start(p, cmd, nc)
      PROVE  AskInv'
  BY <1>2 DEF Start, Goto
<1>3. ASSUME NEW o \in Owner, NEW v \in Version, NEW c \in Content, Publish(o, v, c)
      PROVE  AskInv'
  BY <1>3 DEF Publish, procVars
<1>4. CASE UNCHANGED vars
  BY <1>4 DEF vars
<1>. QED
  BY <1>1, <1>2, <1>3, <1>4 DEF Next

LEMMA RefinementStep ==
    ASSUME Sole, BodiesChecked, SoleInv, AskInv, [Next]_vars
    PROVE  [Abstract!Next]_(Abstract!vars)
<1> USE DEF SoleInv, TypeInv, TypeOK
<1>1. ASSUME NEW o \in Owner, NEW v \in Version, NEW c \in Content, Publish(o, v, c)
      PROVE  Abstract!Publish(o, c)
  <2>1. [owner |-> o, version |-> v, content |-> c] # Unpublished
    BY NoneAssumption DEF Entry, Unpublished
  <2>. QED
    BY <1>1, <2>1 DEF Publish, Abstract!Publish, diskVars, procVars
<1>2. ASSUME NEW p \in Proc, NEW cmd \in Commands, NEW nc \in BOOLEAN, Start(p, cmd, nc)
      PROVE  Abstract!Begin(p)
  BY <1>2 DEF Start, Abstract!Begin, worldVars
<1>3. ASSUME NEW p \in Proc, FetchVerified(p)
      PROVE  \E o \in Owner : Abstract!Take(p, o)
  <2>1. PICK o \in Owner : registry[o] # Unpublished /\ \E body \in Delivered(o) :
           /\ Verified(body, ServerHash(o))
           /\ resp' = [resp EXCEPT ![p] = [owner |-> o, version |-> registry[o].version,
                                           content |-> body]]
    BY <1>3 DEF FetchVerified
  <2>2. PICK body \in Delivered(o) :
           /\ Verified(body, ServerHash(o))
           /\ resp' = [resp EXCEPT ![p] = [owner |-> o, version |-> registry[o].version,
                                           content |-> body]]
    BY <2>1
  <2>3. registry[o] \in Entry
    BY <2>1
  <2>4. body = registry[o].content
    BY <2>1, <2>2, AcceptedIsPublished
  <2>5. [owner |-> o, version |-> registry[o].version, content |-> body] # None
    BY <2>4, <2>3, NoneAssumption DEF Entry
  <2>6. resp[p] = None /\ UNCHANGED <<registry, ran>>
    BY <1>3 DEF FetchVerified, AskInv, worldVars
  <2>7. registry[o].content # None
    BY <2>3, ConstantsAssumption DEF Entry
  <2>. QED
    BY <2>1, <2>2, <2>4, <2>5, <2>6, <2>7 DEF Abstract!Take
<1>4. ASSUME NEW p \in Proc, Exec(p)
      PROVE  Abstract!Run(p)
  <2>1. /\ resp[p] # None
        /\ ran[p] = None
        /\ files[KeyOf(resp[p])] = resp[p].content
        /\ resp[p].content # None
    BY <1>4, NoneAssumption, ConstantsAssumption
       DEF Exec, Fresh, Secured, Holds, HoldingAnswer, Entry
  <2>. QED
    BY <1>4, <2>1 DEF Exec, Abstract!Run, worldVars
<1>5. ASSUME NEW p \in Proc, Step(p) \/ Crash(p), ~FetchVerified(p), ~Exec(p)
      PROVE  UNCHANGED Abstract!vars
  <2>1. UNCHANGED <<registry, resp, ran>>
    BY <1>5 DEF Step, FetchRejected, FetchFailed, Lookup, Truncate, Fill,
     WriteFailed, SidecarTruncate, SidecarFill, SidecarWriteFailed, Parse, Find,
     LoadSidecar, Show, Crash, worldVars
  <2>. QED
    BY <2>1 DEF Abstract!vars
<1>6. CASE UNCHANGED vars
  BY <1>6 DEF vars, Abstract!vars
<1>. QED
  BY <1>1, <1>2, <1>3, <1>4, <1>5, <1>6 DEF Next, Abstract!Next

(* Where every answer is verified, and commands do not overlap, a cached   *)
(* `kue run` is indistinguishable from one that has no cache: it executes  *)
(* what the registry published when it asked, or nothing.                  *)
THEOREM CacheTransparent ==
    ASSUME Sole, BodiesChecked PROVE Spec => CacheIsTransparent
<1>1. Init => Abstract!Init
  BY DEF Init, Abstract!Init, Unpublished
<1>2. Init => AskInv
  BY DEF Init, AskInv
<1>3. Spec => []AskInv
  BY <1>2, AskStep, TypeInductive, PTL DEF Spec
<1>4. SoleInv /\ AskInv /\ [Next]_vars => [Abstract!Next]_(Abstract!vars)
  BY RefinementStep
<1>. QED
  BY <1>1, <1>3, <1>4, SoleInductive, PTL DEF Spec, CacheIsTransparent, Abstract!Spec

-----------------------------------------------------------------------------
(* The other cache under ~/.kue, that of project templates, which shares   *)
(* no state with the one above.  Its three theorems are stated of an       *)
(* instance of TemplateCache with state and parameters of its own; the     *)
(* assumption TemplateCache makes about its constants is a hypothesis.     *)

CONSTANTS File, Text, Url, Home, Configured, Format, MaxPublishes

VARIABLES archive, offered, dir, at, task, fetched, todo, loaded

Templates == INSTANCE TemplateCache
    WITH Content <- Text, published <- offered, pc <- at, job <- task

LEMMA SourceType ==
    ASSUME Templates!TemplateCacheAssumption, NEW p \in Proc,
           task[p].url \in Configured \cup {None}, task[p].version \in Version
    PROVE  Templates!Source(p) \in Url
BY DEF Templates!TemplateCacheAssumption, Templates!Source

(* An archive is read whole.                                               *)
LEMMA GetType ==
    ASSUME Templates!TemplateCacheAssumption, Templates!TypeOK,
           NEW p \in Proc, Templates!Get(p)
    PROVE  Templates!TypeOK'
<1>1. PICK a \in Templates!Downloads(Templates!Source(p)) :
        fetched' = [fetched EXCEPT ![p] = a]
  BY DEF Templates!Get
<1>2. task[p].url \in Configured \cup {None} /\ task[p].version \in Version
  BY DEF Templates!TypeOK
<1>3. a \in Templates!Tree
  BY <1>1, <1>2, SourceType DEF Templates!Downloads, Templates!TypeOK
<1>4. fetched' \in [Proc -> Templates!Tree]
  BY <1>1, <1>3 DEF Templates!TypeOK
<1>5. todo' \in [Proc -> SUBSET File]
  <2>1. todo' = [todo EXCEPT ![p] = {f \in File : fetched'[p][f] # None}]
    BY DEF Templates!Get
  <2>. QED
    BY <2>1 DEF Templates!TypeOK
<1>6. at' \in [Proc -> {"idle", "stat", "remove", "make", "tar", "zip",
                        "extract", "clear"}]
  BY DEF Templates!Get, Templates!Goto, Templates!TypeOK
<1>. QED
  BY <1>4, <1>5, <1>6 DEF Templates!TypeOK, Templates!Get, Templates!world

LEMMA MadeType ==
    ASSUME NEW d \in Templates!Directory
    PROVE  Templates!Made(d) \in [File -> Text \cup {None, Torn}]
BY DEF Templates!Directory, Templates!Made, Templates!NoFiles

LEMMA ExtractType ==
    ASSUME Templates!TypeOK, NEW p \in Proc, Templates!Extract(p)
    PROVE  Templates!TypeOK'
<1>1. task[p].version \in Version
  BY DEF Templates!TypeOK
<1>2. dir[task[p].version] \in Templates!Directory
  BY <1>1 DEF Templates!TypeOK
<1>3. CASE Templates!Unpacked(p)
  BY <1>2, <1>3
     DEF Templates!Extract, Templates!Use, Templates!Goto, Templates!Cached,
         Templates!world, Templates!TypeOK
<1>4. ASSUME ~Templates!Unpacked(p)
      PROVE  Templates!TypeOK'
  <2>1. PICK f \in todo[p] :
          /\ dir' = [dir EXCEPT ![task[p].version] =
                       [Templates!Made(@) EXCEPT ![f] = fetched[p][f]]]
          /\ todo' = [todo EXCEPT ![p] = @ \ {f}]
          /\ UNCHANGED <<at, loaded>>
    BY <1>4 DEF Templates!Extract
  <2>2. fetched[p][f] \in Text \cup {None}
    BY <2>1 DEF Templates!TypeOK, Templates!Tree
  <2>3. [Templates!Made(dir[task[p].version]) EXCEPT ![f] = fetched[p][f]]
          \in Templates!Directory
    BY <1>2, <2>2, MadeType DEF Templates!Directory
  <2>4. dir' \in [Version -> Templates!Directory]
    BY <1>1, <2>1, <2>3 DEF Templates!TypeOK
  <2>5. todo' \in [Proc -> SUBSET File]
    BY <2>1 DEF Templates!TypeOK
  <2>. QED
    BY <2>1, <2>4, <2>5 DEF Templates!TypeOK, Templates!Extract, Templates!world
<1>. QED
  BY <1>3, <1>4

LEMMA RemainsType ==
    ASSUME NEW d \in Templates!Directory
    PROVE  Templates!Remains(d) \subseteq Templates!Directory
<1>1. CASE d = Absent
  BY <1>1 DEF Templates!Remains
<1>2. ASSUME d # Absent, NEW K \in SUBSET File
      PROVE  [f \in File |-> IF f \in K THEN d[f] ELSE None] \in Templates!Directory
  BY <1>2 DEF Templates!Directory
<1>. QED
  BY <1>1, <1>2 DEF Templates!Remains

(* Whatever an interrupted step leaves is a directory, or none.            *)
LEMMA InterruptedType ==
    ASSUME Templates!TypeOK, NEW p \in Proc, Templates!Interrupted(p)
    PROVE  dir' \in [Version -> Templates!Directory]
<1>1. /\ task[p].version \in Version
      /\ dir \in [Version -> Templates!Directory]
  BY DEF Templates!TypeOK
<1>2. dir[task[p].version] \in Templates!Directory
  BY <1>1
<1>3. CASE UNCHANGED dir
  BY <1>1, <1>3
<1>4. ASSUME NEW f \in todo[p],
             dir' = [dir EXCEPT ![task[p].version] =
                       [Templates!Made(@) EXCEPT ![f] = Torn]]
      PROVE  dir' \in [Version -> Templates!Directory]
  <2>1. [Templates!Made(dir[task[p].version]) EXCEPT ![f] = Torn]
          \in Templates!Directory
    BY <1>2, MadeType DEF Templates!Directory
  <2>. QED
    BY <1>1, <1>4, <2>1
<1>5. ASSUME NEW d \in Templates!Remains(Templates!Cached(p)),
             dir' = [dir EXCEPT ![task[p].version] = d]
      PROVE  dir' \in [Version -> Templates!Directory]
  <2>1. d \in Templates!Directory
    BY <1>2, <1>5, RemainsType DEF Templates!Cached
  <2>. QED
    BY <1>1, <1>5, <2>1
<1>6. ASSUME dir' \in [Version -> (UNION {Templates!Remains(dir[v]) : v \in Version})
                                   \cup {Absent}]
      PROVE  dir' \in [Version -> Templates!Directory]
  <2>1. \A v \in Version : Templates!Remains(dir[v]) \subseteq Templates!Directory
    BY <1>1, RemainsType
  <2>2. Absent \in Templates!Directory
    BY DEF Templates!Directory
  <2>. DEFINE U == UNION {Templates!Remains(dir[v]) : v \in Version}
  <2>3. U \subseteq Templates!Directory
    BY <2>1
  <2>4. dir' \in [Version -> U \cup {Absent}]
    BY <1>6
  <2>. HIDE DEF U
  <2>. QED
    BY <2>2, <2>3, <2>4
<1>. QED
  BY <1>3, <1>4, <1>5, <1>6 DEF Templates!Interrupted

LEMMA TemplateStepType ==
    ASSUME Templates!TemplateCacheAssumption
    PROVE  Templates!TypeOK /\ [Templates!Next]_(Templates!vars) => Templates!TypeOK'
<1>. SUFFICES ASSUME Templates!TypeOK, [Templates!Next]_(Templates!vars)
              PROVE  Templates!TypeOK'
  OBVIOUS
<1>1. ASSUME NEW u \in Url, NEW a \in Templates!Tree, Templates!Publish(u, a)
      PROVE  Templates!TypeOK'
  BY <1>1 DEF Templates!Publish, Templates!TypeOK
<1>2. ASSUME NEW p \in Proc, NEW cmd \in {"download", "update", "clear"},
             NEW url \in Configured \cup {None}, NEW v \in Version,
             Templates!Start(p, cmd, url, v)
      PROVE  Templates!TypeOK'
  <2>1. [f \in File |-> None] \in Templates!Tree
    BY DEF Templates!Tree
  <2>2. task' \in [Proc -> [cmd : {"download", "update", "clear"},
                            url : Configured \cup {None}, version : Version]]
    BY <1>2 DEF Templates!Start, Templates!TypeOK
  <2>. QED
    BY <1>2, <2>1, <2>2
       DEF Templates!Start, Templates!TypeOK, Templates!Goto, Templates!world,
           Templates!NoFiles
<1>3. ASSUME NEW p \in Proc, Templates!Step(p)
      PROVE  Templates!TypeOK'
  <2>1. task[p].version \in Version /\ dir[task[p].version] \in Templates!Directory
    BY DEF Templates!TypeOK
  <2>2. CASE Templates!Stat(p)
    BY <2>1, <2>2 DEF Templates!Stat, Templates!TypeOK, Templates!Goto,
         Templates!world, Templates!Use, Templates!Cached
  <2>3. CASE Templates!Remove(p) \/ Templates!Clear(p)
    <3>1. Absent \in Templates!Directory
      BY DEF Templates!Directory
    <3>2. CASE Templates!Remove(p)
      BY <2>1, <3>1, <3>2
         DEF Templates!Remove, Templates!TypeOK, Templates!Goto, Templates!world
    <3>3. CASE Templates!Clear(p)
      BY <3>1, <3>3
         DEF Templates!Clear, Templates!TypeOK, Templates!Goto, Templates!world
    <3>. QED
      BY <2>3, <3>2, <3>3
  <2>4. ASSUME Templates!Make(p)
        PROVE  Templates!TypeOK'
    <3>1. Templates!Made(dir[task[p].version]) \in Templates!Directory
      BY <2>1, MadeType DEF Templates!Directory
    <3>. QED
      BY <2>4, <2>1, <3>1
         DEF Templates!Make, Templates!TypeOK, Templates!Goto, Templates!world
  <2>5. CASE Templates!Get(p)
    BY <2>5, GetType
  <2>6. CASE Templates!GetFailed(p) \/ Templates!CopyFailed(p)
    BY <2>6 DEF Templates!GetFailed, Templates!CopyFailed, Templates!Fail,
         Templates!TypeOK, Templates!Goto, Templates!world
  <2>7. CASE Templates!Extract(p)
    BY <2>7, ExtractType
  <2>8. ASSUME Templates!Failed(p) \/ Templates!Crash(p)
        PROVE  Templates!TypeOK'
    <3>1. dir' \in [Version -> Templates!Directory]
      BY <2>8, InterruptedType DEF Templates!Failed, Templates!Crash
    <3>. QED
      BY <2>8, <3>1 DEF Templates!Failed, Templates!Crash, Templates!Fail,
         Templates!TypeOK, Templates!Goto, Templates!world
  <2>. QED
    BY <1>3, <2>2, <2>3, <2>4, <2>5, <2>6, <2>7, <2>8 DEF Templates!Step
<1>4. CASE UNCHANGED Templates!vars
  BY <1>4 DEF Templates!vars, Templates!TypeOK
<1>. QED
  BY <1>1, <1>2, <1>3, <1>4 DEF Templates!Next

(* In every reachable state of the template cache the archives are whole,  *)
(* and a directory holds files of the templates, whole or cut short, in    *)
(* every interleaving and after every fault.                               *)
THEOREM TemplatesTypeCorrect ==
    ASSUME Templates!TemplateCacheAssumption
    PROVE  Templates!Spec => []Templates!TypeOK
<1>1. Templates!Init => Templates!TypeOK
  <2>. SUFFICES ASSUME Templates!Init PROVE Templates!TypeOK
    OBVIOUS
  <2>1. [File -> Text] \subseteq Templates!Tree
    BY DEF Templates!Tree
  <2>2. (CHOOSE v \in Version : TRUE) \in Version
    BY DEF Templates!TemplateCacheAssumption
  <2>3. task \in [Proc -> [cmd : {"download", "update", "clear"},
                           url : Configured \cup {None}, version : Version]]
    BY <2>2 DEF Templates!Init
  <2>4. [f \in File |-> None] \in Templates!Tree
    BY DEF Templates!Tree
  <2>5. archive \in [Url -> Templates!Tree]
    BY <2>1 DEF Templates!Init
  <2>6. offered \in [Url -> SUBSET Templates!Tree]
    BY <2>5 DEF Templates!Init
  <2>. QED
    BY <2>3, <2>4, <2>5, <2>6
       DEF Templates!Init, Templates!TypeOK, Templates!NoFiles, Templates!Directory
<1>. QED
  BY <1>1, TemplateStepType, PTL DEF Templates!Spec

(* One command at a time, a download begins with a directory that was not  *)
(* there: nothing is in it but what was unpacked, and no command has       *)
(* templates before it ends.                                               *)
Begun(p) ==
    /\ at[p] = "make" => Templates!Cached(p) = Absent
    /\ at[p] \in {"tar", "zip"} => Templates!Cached(p) = Templates!NoFiles
    /\ at[p] = "extract" =>
          /\ Templates!Cached(p) # Absent
          /\ \A f \in File \ todo[p] : Templates!Cached(p)[f] = fetched[p][f]

UnpackInv ==
    \A p \in Proc :
       /\ Begun(p)
       /\ at[p] # "idle" => loaded[p] = None
       /\ task[p].cmd = "update" /\ loaded[p] # None => loaded[p] = fetched[p]

(* The step of the only process sees to its own part of UnpackInv.         *)
LEMMA OnlyOneUnpacks ==
    ASSUME Sole, NEW p \in Proc, Begun(p)',
           at'[p] # "idle" => loaded'[p] = None,
           task'[p].cmd = "update" /\ loaded'[p] # None => loaded'[p] = fetched'[p]
    PROVE  UnpackInv'
<1>1. \A q \in Proc : q = p
  BY DEF Sole
<1>. QED
  BY <1>1 DEF UnpackInv

(* An unpacked file is as it is in the archive, and the last one makes the *)
(* directory the archive.                                                  *)
LEMMA ExtractUnpacks ==
    ASSUME Templates!TemplateCacheAssumption, Sole, Templates!TypeOK, UnpackInv,
           NEW p \in Proc, Templates!Extract(p)
    PROVE  UnpackInv'
<1>. DEFINE v == task[p].version
<1>1. /\ v \in Version /\ dir[v] \in Templates!Directory
      /\ fetched[p] \in Templates!Tree /\ todo[p] \subseteq File
      /\ task' = task /\ fetched' = fetched
      /\ at[p] = "extract" /\ loaded[p] = None
  BY DEF Templates!Extract, Templates!TypeOK, UnpackInv
<1>2. /\ dir[v] \in [File -> Text \cup {None, Torn}]
      /\ \A f \in File \ todo[p] : dir[v][f] = fetched[p][f]
      /\ Templates!Made(dir[v]) = dir[v]
  BY <1>1
     DEF UnpackInv, Begun, Templates!Cached, Templates!Directory, Templates!Made
<1>3. ASSUME Templates!Unpacked(p)
      PROVE  UnpackInv'
  <2>1. /\ loaded' = [loaded EXCEPT ![p] = dir[v]]
        /\ at' = [at EXCEPT ![p] = "idle"]
    BY <1>3 DEF Templates!Extract, Templates!Use, Templates!Goto, Templates!Cached
  <2>2. loaded'[p] = dir[v] /\ at'[p] = "idle"
    BY <2>1 DEF Templates!TypeOK
  <2>3. dir[v] = fetched[p]
    BY <1>1, <1>2, <1>3 DEF Templates!Unpacked, Templates!Tree
  <2>. QED
    BY <1>1, <2>2, <2>3, OnlyOneUnpacks DEF Begun
<1>4. ASSUME ~Templates!Unpacked(p)
      PROVE  UnpackInv'
  <2>1. PICK f \in todo[p] :
          /\ dir' = [dir EXCEPT ![v] =
                       [Templates!Made(@) EXCEPT ![f] = fetched[p][f]]]
          /\ todo' = [todo EXCEPT ![p] = @ \ {f}]
          /\ UNCHANGED <<at, loaded>>
    BY <1>4 DEF Templates!Extract
  <2>2. todo'[p] = todo[p] \ {f}
    BY <2>1 DEF Templates!TypeOK
  <2>3. dir'[v] = [Templates!Made(dir[v]) EXCEPT ![f] = fetched[p][f]]
    BY <1>1, <2>1 DEF Templates!TypeOK
  <2>4. dir'[v] \in [File -> Text \cup {None, Torn}]
    <3>1. fetched[p][f] \in Text \cup {None}
      BY <1>1, <2>1 DEF Templates!Tree
    <3>. QED
      BY <1>1, <2>3, <3>1, MadeType
  <2>5. ASSUME NEW g \in File \ todo'[p]
        PROVE  dir'[v][g] = fetched[p][g]
    BY <1>1, <1>2, <2>2, <2>3
  <2>6. dir'[v] # Absent
    BY <2>4 DEF Templates!TemplateCacheAssumption
  <2>. QED
    BY <1>1, <2>1, <2>5, <2>6, OnlyOneUnpacks DEF Begun, Templates!Cached
<1>. QED
  BY <1>3, <1>4

LEMMA UnpackStep ==
    ASSUME Templates!TemplateCacheAssumption, Sole
    PROVE  Templates!TypeOK /\ UnpackInv /\ [Templates!Next]_(Templates!vars)
              => UnpackInv'
<1>. SUFFICES ASSUME Templates!TypeOK, UnpackInv, [Templates!Next]_(Templates!vars)
              PROVE  UnpackInv'
  OBVIOUS
<1>1. ASSUME NEW u \in Url, NEW a \in Templates!Tree, Templates!Publish(u, a)
      PROVE  UnpackInv'
  BY <1>1 DEF Templates!Publish, UnpackInv, Begun, Templates!Cached, Templates!NoFiles
<1>2. ASSUME NEW p \in Proc, NEW cmd \in {"download", "update", "clear"},
             NEW url \in Configured \cup {None}, NEW v \in Version,
             Templates!Start(p, cmd, url, v)
      PROVE  UnpackInv'
  <2>1. at'[p] \in {"clear", "stat"} /\ loaded'[p] = None
    BY <1>2 DEF Templates!Start, Templates!Goto, Templates!TypeOK
  <2>. QED
    BY <2>1, OnlyOneUnpacks DEF Begun
<1>3. ASSUME NEW p \in Proc, Templates!Step(p)
      PROVE  UnpackInv'
  <2>. DEFINE v == task[p].version
  <2>1. v \in Version /\ dir[v] \in Templates!Directory
    BY DEF Templates!TypeOK
  <2>2. ASSUME Templates!Stat(p)
        PROVE  UnpackInv'
    <3>1. at[p] = "stat" /\ loaded[p] = None /\ task' = task /\ dir' = dir
      BY <2>2 DEF Templates!Stat, UnpackInv
    <3>2. CASE loaded' = loaded
      <4>1. at'[p] = "remove" \/ (at'[p] = "make" /\ dir[v] = Absent) \/ at'[p] = "idle"
        BY <2>2
           DEF Templates!Stat, Templates!Refreshes, Templates!Goto, Templates!TypeOK,
               Templates!Cached, Templates!Use
      <4>. QED
        BY <3>1, <3>2, <4>1, OnlyOneUnpacks DEF Begun, Templates!Cached
    <3>3. CASE task[p].cmd # "update" /\ at'[p] = "idle"
      BY <3>1, <3>3, OnlyOneUnpacks DEF Begun
    <3>4. loaded' = loaded \/ (task[p].cmd # "update" /\ at'[p] = "idle")
      BY <2>2
         DEF Templates!Stat, Templates!Use, Templates!Goto, Templates!TypeOK
    <3>. QED
      BY <3>2, <3>3, <3>4
  <2>3. ASSUME Templates!Remove(p)
        PROVE  UnpackInv'
    <3>1. /\ at'[p] = "make" /\ loaded'[p] = None
          /\ task' = task /\ dir'[v] = Absent
      BY <2>1, <2>3
         DEF Templates!Remove, Templates!Goto, Templates!TypeOK, UnpackInv
    <3>. QED
      BY <3>1, OnlyOneUnpacks DEF Begun, Templates!Cached
  <2>4. ASSUME Templates!Make(p)
        PROVE  UnpackInv'
    <3>1. /\ at'[p] = "tar" /\ loaded'[p] = None
          /\ task' = task /\ dir'[v] = Templates!Made(dir[v])
      BY <2>1, <2>4
         DEF Templates!Make, Templates!Goto, Templates!TypeOK, UnpackInv
    <3>2. dir[v] = Absent
      BY <2>4 DEF Templates!Make, UnpackInv, Begun, Templates!Cached
    <3>. QED
      BY <3>1, <3>2, OnlyOneUnpacks DEF Begun, Templates!Cached, Templates!Made
  <2>5. ASSUME Templates!Get(p)
        PROVE  UnpackInv'
    <3>1. at[p] \in {"tar", "zip"}
      <4>1. Templates!Source(p) \in Url
        BY SourceType DEF Templates!TypeOK
      <4>. QED
        BY <2>5, <4>1 DEF Templates!Get, Templates!TemplateCacheAssumption
    <3>2. /\ at'[p] = "extract" /\ loaded'[p] = None
          /\ task' = task /\ dir' = dir
      BY <2>5, <3>1 DEF Templates!Get, Templates!Goto, Templates!TypeOK, UnpackInv
    <3>3. dir[v] = Templates!NoFiles
      BY <3>1 DEF UnpackInv, Begun, Templates!Cached
    <3>4. Templates!NoFiles # Absent
      <4>1. [f \in File |-> None] \in [File -> Text \cup {None, Torn}]
        OBVIOUS
      <4>. QED
        BY <4>1 DEF Templates!NoFiles, Templates!TemplateCacheAssumption
    <3>5. todo'[p] = {f \in File : fetched'[p][f] # None}
      <4>1. todo' = [todo EXCEPT ![p] = {f \in File : fetched'[p][f] # None}]
        BY <2>5 DEF Templates!Get
      <4>. QED
        BY <4>1 DEF Templates!TypeOK
    <3>6. \A f \in File \ todo'[p] : Templates!NoFiles[f] = fetched'[p][f]
      BY <3>5 DEF Templates!NoFiles
    <3>. QED
      BY <3>2, <3>3, <3>4, <3>6, OnlyOneUnpacks DEF Begun, Templates!Cached
  <2>6. ASSUME Templates!GetFailed(p) \/ Templates!CopyFailed(p)
        PROVE  UnpackInv'
    <3>1. /\ task' = task /\ dir' = dir /\ loaded' = loaded /\ fetched' = fetched
          /\ \/ at'[p] = "idle"
             \/ at[p] = "tar" /\ at'[p] = "zip"
      BY <2>6 DEF Templates!GetFailed, Templates!CopyFailed, Templates!Fail,
         Templates!Goto, Templates!TypeOK
    <3>. QED
      BY <3>1, OnlyOneUnpacks DEF UnpackInv, Begun, Templates!Cached, Templates!NoFiles
  <2>7. CASE Templates!Extract(p)
    BY <2>7, ExtractUnpacks
  <2>8. ASSUME Templates!Clear(p) \/ Templates!Failed(p) \/ Templates!Crash(p)
        PROVE  UnpackInv'
    <3>1. /\ task' = task /\ loaded' = loaded /\ fetched' = fetched
          /\ at'[p] = "idle"
      BY <2>8 DEF Templates!Clear, Templates!Failed, Templates!Crash,
         Templates!Fail, Templates!Goto, Templates!TypeOK
    <3>. QED
      BY <3>1, OnlyOneUnpacks DEF UnpackInv, Begun
  <2>. QED
    BY <1>3, <2>2, <2>3, <2>4, <2>5, <2>6, <2>7, <2>8 DEF Templates!Step
<1>4. CASE UNCHANGED Templates!vars
  BY <1>4 DEF Templates!vars, UnpackInv, Begun, Templates!Cached, Templates!NoFiles
<1>. QED
  BY <1>1, <1>2, <1>3, <1>4 DEF Templates!Next

(* update.txt: a successful `kue templates update` leaves exactly the      *)
(* files of the archive it has downloaded, whatever failed downloads,      *)
(* crashes and earlier archives left there, for commands that do not       *)
(* overlap.                                                                *)
THEOREM UpdateIsClean ==
    ASSUME Templates!TemplateCacheAssumption, Sole
    PROVE  Templates!Spec => []Templates!UpdateLeavesArchive
<1>1. Templates!Init => UnpackInv
  BY DEF Templates!Init, UnpackInv, Begun
<1>2. UnpackInv => Templates!UpdateLeavesArchive
  BY DEF UnpackInv, Templates!UpdateLeavesArchive
<1>. QED
  BY <1>1, <1>2, UnpackStep, TemplatesTypeCorrect, PTL DEF Templates!Spec
-----------------------------------------------------------------------------
(* Where only the version decides the source, and every source offers an   *)
(* archive.                                                                *)
OwnSources == Configured = {} /\ \A u \in Url : Format[u] # {}

Fetching == {"tar", "zip", "extract"}

Whole(v) == dir[v] = Absent \/ dir[v] \in offered[Home[v]]

(* A directory is the whole of an archive, or the process that will make   *)
(* it so is at work in it.                                                 *)
WholeInv ==
    /\ \A u \in Url : archive[u] \in offered[u]
    /\ \A v \in Version :
          Whole(v) \/ \E p \in Proc : at[p] \in Fetching /\ task[p].version = v
    /\ \A p \in Proc :
          /\ at[p] = "zip" => "zip" \in Format[Home[task[p].version]]
          /\ at[p] = "extract" => fetched[p] \in offered[Home[task[p].version]]
          /\ loaded[p] # None => loaded[p] \in offered[Home[task[p].version]]

LEMMA SourceIsHome ==
    ASSUME Templates!TypeOK, OwnSources, NEW p \in Proc
    PROVE  Templates!Source(p) = Home[task[p].version]
BY DEF OwnSources, Templates!TypeOK, Templates!Source

(* What the only process leaves behind when it is not fetching.            *)
LEMMA OnlyOneFetches ==
    ASSUME Sole, WholeInv, NEW p \in Proc, UNCHANGED <<archive, offered>>,
           at'[p] = "zip" => "zip" \in Format[Home[task'[p].version]],
           at'[p] = "extract" => fetched'[p] \in offered[Home[task'[p].version]],
           loaded'[p] # None => loaded'[p] \in offered[Home[task'[p].version]],
           \A v \in Version :
               Whole(v)' \/ (at'[p] \in Fetching /\ task'[p].version = v)
    PROVE  WholeInv'
<1>1. \A q \in Proc : q = p
  BY DEF Sole
<1>. QED
  BY <1>1 DEF WholeInv

LEMMA UnpackedIsArchive ==
    ASSUME Templates!TypeOK, UnpackInv, NEW p \in Proc, Templates!Unpacked(p),
           at[p] = "extract"
    PROVE  Templates!Cached(p) = fetched[p]
<1>1. /\ task[p].version \in Version
      /\ dir[task[p].version] \in Templates!Directory
      /\ fetched[p] \in Templates!Tree
  BY DEF Templates!TypeOK
<1>. QED
  BY <1>1 DEF UnpackInv, Begun, Templates!Unpacked, Templates!Cached,
     Templates!Directory, Templates!Tree

LEMMA WholeStep ==
    ASSUME Templates!TemplateCacheAssumption, Sole, ~Faults, OwnSources
    PROVE  /\ Templates!TypeOK /\ UnpackInv /\ WholeInv
           /\ [Templates!Next]_(Templates!vars)
           => WholeInv'
<1>. SUFFICES ASSUME Templates!TypeOK, UnpackInv, WholeInv,
                     [Templates!Next]_(Templates!vars)
              PROVE  WholeInv'
  OBVIOUS
<1>1. ASSUME NEW u \in Url, NEW a \in Templates!Tree, Templates!Publish(u, a)
      PROVE  WholeInv'
  <2>1. /\ archive' = [archive EXCEPT ![u] = a]
        /\ offered' = [offered EXCEPT ![u] = @ \cup {a}]
        /\ UNCHANGED <<dir, at, task, fetched, loaded>>
    BY <1>1 DEF Templates!Publish
  <2>2. \A w \in Url : offered[w] \subseteq offered'[w] /\ archive'[w] \in offered'[w]
    BY <2>1 DEF Templates!TypeOK, WholeInv
  <2>3. \A v \in Version : Home[v] \in Url
    BY DEF Templates!TemplateCacheAssumption
  <2>4. \A p \in Proc : task[p].version \in Version
    BY DEF Templates!TypeOK
  <2>. QED
    BY <2>1, <2>2, <2>3, <2>4 DEF WholeInv, Whole
<1>2. ASSUME NEW p \in Proc, NEW cmd \in {"download", "update", "clear"},
             NEW url \in Configured \cup {None}, NEW v \in Version,
             Templates!Start(p, cmd, url, v)
      PROVE  WholeInv'
  <2>1. /\ at[p] = "idle" /\ at'[p] \in {"clear", "stat"} /\ loaded'[p] = None
        /\ UNCHANGED <<archive, offered, dir>>
    BY <1>2
       DEF Templates!Start, Templates!Goto, Templates!TypeOK, Templates!world
  <2>2. \A w \in Version : Whole(w)
    BY <2>1 DEF WholeInv, Sole, Fetching
  <2>. QED
    BY <2>1, <2>2, OnlyOneFetches DEF Whole
<1>3. ASSUME NEW p \in Proc, Templates!Step(p)
      PROVE  WholeInv'
  <2>. DEFINE v == task[p].version
  <2>1. /\ v \in Version /\ dir[v] \in Templates!Directory
        /\ Home[v] \in Url /\ Templates!Source(p) = Home[v]
    BY SourceIsHome DEF Templates!TypeOK, Templates!TemplateCacheAssumption
  <2>2. UNCHANGED <<archive, offered, task>>
    BY <1>3 DEF Templates!Step, Templates!Stat, Templates!Remove, Templates!Make,
       Templates!Get, Templates!GetFailed, Templates!CopyFailed, Templates!Extract,
       Templates!Clear, Templates!Failed, Templates!Crash, Templates!world
  <2>3. \A w \in Version \ {v} : Whole(w)
    BY DEF WholeInv, Sole
  <2>4. at[p] \notin Fetching => Whole(v)
    BY <2>1 DEF WholeInv, Sole
  <2>5. ASSUME Templates!Stat(p)
        PROVE  WholeInv'
    <3>1. /\ at[p] = "stat" /\ loaded[p] = None /\ dir' = dir
          /\ at'[p] \in {"idle", "remove", "make"}
          /\ loaded'[p] = None \/ (loaded'[p] = dir[v] /\ dir[v] # Absent)
      BY <2>5 DEF Templates!Stat, UnpackInv, Templates!Use, Templates!Goto,
         Templates!TypeOK, Templates!Cached
    <3>. QED
      BY <2>2, <2>3, <2>4, <3>1, OnlyOneFetches DEF Whole, Fetching
  <2>6. ASSUME Templates!Remove(p)
        PROVE  WholeInv'
    <3>1. /\ at'[p] = "make" /\ loaded'[p] = None
          /\ dir' = [dir EXCEPT ![v] = Absent]
      BY <2>6
         DEF Templates!Remove, Templates!Goto, Templates!TypeOK, UnpackInv
    <3>2. \A w \in Version : Whole(w)'
      BY <2>2, <2>3, <3>1 DEF Whole, Templates!TypeOK
    <3>. QED
      BY <2>2, <3>1, <3>2, OnlyOneFetches
  <2>7. ASSUME Templates!Make(p)
        PROVE  WholeInv'
    <3>1. /\ at'[p] = "tar" /\ loaded'[p] = None
          /\ dir' = [dir EXCEPT ![v] = Templates!Made(@)]
      BY <2>7
         DEF Templates!Make, Templates!Goto, Templates!TypeOK, UnpackInv
    <3>2. \A w \in Version \ {v} : Whole(w)'
      BY <2>2, <2>3, <3>1 DEF Whole, Templates!TypeOK
    <3>. QED
      BY <2>2, <3>1, <3>2, OnlyOneFetches DEF Fetching
  <2>8. ASSUME Templates!Get(p)
        PROVE  WholeInv'
    <3>1. at[p] \in {"tar", "zip"}
      BY <2>1, <2>8 DEF Templates!Get, Templates!TemplateCacheAssumption
    <3>2. at'[p] = "extract" /\ loaded'[p] = None /\ dir' = dir
      BY <2>8, <3>1 DEF Templates!Get, Templates!Goto, Templates!TypeOK, UnpackInv
    <3>3. fetched'[p] = archive[Home[v]]
      BY <2>1, <2>8 DEF Templates!Get, Templates!Downloads, Templates!TypeOK
    <3>4. \A w \in Version \ {v} : Whole(w)'
      BY <2>2, <2>3, <3>2 DEF Whole
    <3>5. fetched'[p] \in offered[Home[v]]
      BY <2>1, <3>3 DEF WholeInv
    <3>. QED
      BY <2>2, <3>2, <3>4, <3>5, OnlyOneFetches DEF Fetching
  <2>9. ASSUME Templates!GetFailed(p)
        PROVE  WholeInv'
    <3>1. /\ at[p] \in {"tar", "zip"} /\ at[p] \notin Format[Home[v]]
          /\ loaded' = loaded /\ dir' = dir /\ fetched' = fetched
      BY <2>1, <2>9 DEF Templates!GetFailed, Templates!Fail
    <3>2. at[p] = "tar" /\ "zip" \in Format[Home[v]]
      BY <2>1, <3>1 DEF WholeInv, OwnSources, Templates!TemplateCacheAssumption
    <3>3. at'[p] = "zip" /\ loaded[p] = None
      BY <2>9, <3>2
         DEF Templates!GetFailed, Templates!Goto, Templates!TypeOK, UnpackInv
    <3>4. \A w \in Version \ {v} : Whole(w)'
      BY <2>2, <2>3, <3>1 DEF Whole
    <3>. QED
      BY <2>2, <3>1, <3>2, <3>3, <3>4, OnlyOneFetches DEF Fetching
  <2>10. ASSUME Templates!Extract(p), Templates!Unpacked(p)
         PROVE  WholeInv'
    <3>1. /\ at[p] = "extract" /\ dir' = dir
          /\ at'[p] = "idle" /\ loaded'[p] = Templates!Cached(p)
      BY <2>10
         DEF Templates!Extract, Templates!Use, Templates!Goto, Templates!TypeOK
    <3>2. dir[v] = fetched[p]
      BY <2>10, <3>1, UnpackedIsArchive DEF Templates!Cached
    <3>3. dir[v] \in offered[Home[v]]
      BY <3>1, <3>2 DEF WholeInv
    <3>4. \A w \in Version : Whole(w)'
      BY <2>2, <2>3, <3>1, <3>3 DEF Whole
    <3>. QED
      BY <2>2, <3>1, <3>3, <3>4, OnlyOneFetches DEF Templates!Cached
  <2>11. ASSUME Templates!Extract(p), ~Templates!Unpacked(p)
         PROVE  WholeInv'
    <3>1. PICK f \in todo[p] :
            /\ dir' = [dir EXCEPT ![v] =
                         [Templates!Made(@) EXCEPT ![f] = fetched[p][f]]]
            /\ UNCHANGED <<at, loaded>>
      BY <2>11 DEF Templates!Extract
    <3>2. at[p] = "extract" /\ fetched' = fetched /\ loaded[p] = None
      BY <2>11 DEF Templates!Extract, UnpackInv
    <3>3. \A w \in Version \ {v} : Whole(w)'
      BY <2>2, <2>3, <3>1 DEF Whole, Templates!TypeOK
    <3>4. fetched[p] \in offered[Home[v]]
      BY <3>2 DEF WholeInv
    <3>. QED
      BY <2>2, <3>1, <3>2, <3>3, <3>4, OnlyOneFetches DEF Fetching
  <2>12. ASSUME Templates!Clear(p)
         PROVE  WholeInv'
    <3>1. /\ at'[p] = "idle" /\ loaded'[p] = None
          /\ dir' = [w \in Version |-> Absent]
      BY <2>12
         DEF Templates!Clear, Templates!Goto, Templates!TypeOK, UnpackInv
    <3>. QED
      BY <2>2, <3>1, OnlyOneFetches DEF Whole
  <2>. QED
    BY <1>3, <2>5, <2>6, <2>7, <2>8, <2>9, <2>10, <2>11, <2>12
       DEF Templates!Step, Templates!CopyFailed, Templates!Failed, Templates!Crash
<1>4. CASE UNCHANGED Templates!vars
  BY <1>4 DEF Templates!vars, WholeInv, Whole
<1>. QED
  BY <1>1, <1>2, <1>3, <1>4 DEF Templates!Next

(* download.txt: "Download and cache templates from the configured         *)
(* source".  As long as only the version decides the source, and commands  *)
(* neither overlap nor fail, the templates a command uses are one archive  *)
(* that was published for that version, all of it.                         *)
THEOREM TemplatesAreConfigured ==
    ASSUME Templates!TemplateCacheAssumption, Sole, ~Faults, OwnSources
    PROVE  Templates!Spec => []Templates!LoadedIsConfigured
<1>1. Templates!Init => UnpackInv
  BY DEF Templates!Init, UnpackInv, Begun
<1>2. Templates!Init => WholeInv
  BY DEF Templates!Init, WholeInv, Whole
<1>3. Templates!TypeOK /\ WholeInv => Templates!LoadedIsConfigured
  BY SourceIsHome DEF WholeInv, Templates!LoadedIsConfigured
<1>. QED
  BY <1>1, <1>2, <1>3, UnpackStep, WholeStep, TemplatesTypeCorrect, PTL
     DEF Templates!Spec

=============================================================================
