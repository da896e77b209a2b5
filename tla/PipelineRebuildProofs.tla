------------------------ MODULE PipelineRebuildProofs ------------------------
(***************************************************************************)
(* Theorems about PipelineRebuild, for any number of requests and any      *)
(* bounds. The sync theorem is about preemptive threads with one writer    *)
(* that assigns whole values; the async theorem is about tasks that yield  *)
(* only where they await, with every kind of configuration change.         *)
(***************************************************************************)
EXTENDS PipelineRebuild, TLAPS

USE DEF Goto, WGoto, Disturb, config, pipe, local, writer

\* Every step keeps every variable in its type.
LEMMA TypeStep == TypeOK /\ [Next]_vars => TypeOK'
<1> SUFFICES ASSUME TypeOK, [Next]_vars PROVE TypeOK'
  BY Zenon
<1> USE ConstantsAssumption DEF TypeOK, Sources, NoStamps
<1>1. ASSUME NEW t \in Requests, RequestStep(t) PROVE TypeOK'
  <2>1. CASE CompareRevision(t)
    BY Zenon, <2>1 DEF CompareRevision, WriterIdle
  <2>2. CASE CompareSignature(t)
    BY Zenon, <2>2 DEF CompareSignature
  <2>3. CASE CompareRoute(t)
    BY Zenon, <2>3 DEF CompareRoute
  <2>4. CASE CaptureRevision(t)
    BY Zenon, <2>4 DEF CaptureRevision
  <2>5. CASE CaptureSignature(t)
    BY Zenon, <2>5 DEF CaptureSignature
  <2>6. CASE CaptureRoute(t)
    BY Zenon, <2>6 DEF CaptureRoute
  <2>7. CASE AskClass(t)
    BY <2>7 DEF AskClass
  <2>8. CASE PublishChecks(t)
    BY Zenon, <2>8 DEF PublishChecks
  <2>9. CASE StampRevision(t)
    BY Zenon, <2>9 DEF StampRevision
  <2>10. CASE StampSignature(t)
    BY Zenon, <2>10 DEF StampSignature
  <2>11. CASE StampRoute(t)
    BY Zenon, <2>11 DEF StampRoute
  <2>12. CASE TakeSnapshot(t)
    BY <2>12 DEF TakeSnapshot
  <2>13. CASE Finish(t)
    BY Zenon, <2>13 DEF Finish
  <2> QED
    BY Zenon, <1>1, <2>1, <2>2, <2>3, <2>4, <2>5, <2>6, <2>7, <2>8, <2>9, <2>10,
       <2>11, <2>12, <2>13 DEF RequestStep
<1>2. ASSUME NEW w \in Writers, WriterStep(w) PROVE TypeOK'
  <2>1. CASE AssignField(w)
    BY Zenon, <2>1 DEF AssignField
  <2>2. CASE ReadRevision(w)
    BY Zenon, <2>2 DEF ReadRevision
  <2>3. CASE WriteRevision(w)
    BY <2>3 DEF WriteRevision
  <2>4. CASE MutateContainer(w)
    BY <2>4 DEF MutateContainer
  <2>5. CASE AssignRoute(w)
    BY Zenon, <2>5 DEF AssignRoute
  <2>6. CASE BeginRouteInPlace(w)
    BY Zenon, <2>6 DEF BeginRouteInPlace
  <2>7. CASE ReadRouteRev(w)
    BY ZenonT(30), <2>7 DEF ReadRouteRev
  <2>8. CASE WriteRouteRev(w)
    <3>1. wtmp[w] + 1 \in Nat
      OBVIOUS
    <3>2. wpc' \in [Writers -> {"idle", "readRevision", "writeRevision",
            "readRouteRev", "writeRouteRev", "readRouteRevFirst",
            "writeRouteRevFirst", "mutateRoute"}]
      BY <2>8 DEF WriteRouteRev
    <3> QED
      BY ZenonT(30), <2>8, <3>1, <3>2 DEF WriteRouteRev
  <2>9. CASE MutateRoute(w)
    BY Zenon, <2>9 DEF MutateRoute
  <2> QED
    BY Zenon, <1>2, <2>1, <2>2, <2>3, <2>4, <2>5, <2>6, <2>7, <2>8, <2>9
       DEF WriterStep
<1>3. CASE UNCHANGED vars
  BY Zenon, <1>3 DEF vars
<1> QED
  BY Zenon, <1>1, <1>2, <1>3 DEF Next

\* The variables of the pipeline, of its requests and of the configuration
\* writers keep their types.
THEOREM TypeCorrect == Spec => []TypeOK
<1>1. Init => TypeOK
  BY ConstantsAssumption DEF Init, TypeOK, Fresh, Sources, NoStamps
<1> QED
  BY <1>1, TypeStep, PTL DEF Spec
-----------------------------------------------------------------------------
(* Threads: one writer, assigning whole values.                             *)

SingleAssigner ==
  /\ \A v, w \in Writers : v = w
  /\ Mutations \subseteq {"assign", "routeAssign"}

Stamping == {"stampRevision", "stampSignature", "stampRoute"}
Built == {"build"} \cup Stamping

\* The writer has changed the value and not yet the counter.
FieldMoving == \E w \in Writers : wpc[w] \in {"readRevision", "writeRevision"}
RouteMoving == \E w \in Writers : wpc[w] \in {"readRouteRev", "writeRouteRev"}

\* A writer works on the counter value it has read.
WriterInv ==
  \A w \in Writers :
    /\ wpc[w] \in {"idle", "readRevision", "writeRevision",
                   "readRouteRev", "writeRouteRev"}
    /\ wpc[w] = "writeRevision" => wtmp[w] = revision
    /\ wpc[w] = "writeRouteRev" => wtmp[w] = routeRev

\* No stamp is ahead of the counter it was read from.
StampInv ==
  /\ built.revision <= revision
  /\ built.route <= routeRev
  /\ \A t \in Requests :
       /\ captured[t].revision <= revision
       /\ captured[t].route <= routeRev

\* The lock is held exactly while a request publishes its own list.
LockInv ==
  \A t \in Requests :
    /\ pc[t] \in Stamping <=> lock = t
    /\ pc[t] \in Stamping => todo[t] = {} /\ checks = kept[t]
    /\ pc[t] \in {"stampSignature", "stampRoute"} =>
         built.revision = captured[t].revision

\* What a request found out about a class is right unless its stamp is old.
AskedRight(t) ==
  /\ \A x \in todo[t] : x \notin kept[t]
  /\ "container" \notin todo[t] => ("container" \in kept[t] <=> size > 0)
  /\ "field" \notin todo[t] =>
       \/ captured[t].revision < revision \/ FieldMoving
       \/ ("field" \in kept[t] <=> field)
  /\ "route" \notin todo[t] =>
       \/ captured[t].route < routeRev \/ RouteMoving
       \/ ("route" \in kept[t] <=> route)

BuildInv == \A t \in Requests : pc[t] \in Built => AskedRight(t)

\* The same of the published list and the published stamps.
PublishedInv ==
  lock = Nobody =>
    /\ "container" \in checks <=> size > 0
    /\ built.revision < revision \/ FieldMoving \/ ("field" \in checks <=> field)
    /\ built.route < routeRev \/ RouteMoving \/ ("route" \in checks <=> route)

SyncInv ==
  TypeOK /\ WriterInv /\ StampInv /\ LockInv /\ BuildInv /\ PublishedInv

\* What each kind of check class reads.
LEMMA AppliesDef ==
  /\ Applies("field") <=> field
  /\ Applies("container") <=> size > 0
  /\ Applies("route") <=> route
BY Zenon DEF Applies

\* Every step of a request keeps the invariant.
LEMMA SyncRequestStep ==
  ASSUME SyncInv, NEW t \in Requests, RequestStep(t), TypeOK'
  PROVE  SyncInv'
<1> USE ConstantsAssumption
    DEF SyncInv, TypeOK, WriterInv, StampInv, LockInv, BuildInv, PublishedInv,
        AskedRight, Stamping, Built, FieldMoving, RouteMoving, Sources, NoStamps
<1>1. CASE CompareRevision(t)
  BY <1>1 DEF CompareRevision
<1>2. CASE CompareSignature(t)
  BY <1>2 DEF CompareSignature
<1>3. CASE CompareRoute(t)
  BY <1>3 DEF CompareRoute
<1>4. CASE CaptureRevision(t)
  BY <1>4 DEF CaptureRevision
<1>5. CASE CaptureSignature(t)
  BY <1>5 DEF CaptureSignature
<1>6. CASE CaptureRoute(t)
  BY <1>6 DEF CaptureRoute
<1>7. CASE AskClass(t)
  <2>1. PICK s \in todo[t] :
          /\ todo' = [todo EXCEPT ![t] = @ \ {s}]
          /\ kept' = [kept EXCEPT ![t] = IF Applies(s) THEN @ \cup {s} ELSE @]
    BY ZenonT(30), <1>7 DEF AskClass
  <2>2. UNCHANGED <<config, pipe, captured, writer>> /\ pc' = pc /\ pc[t] = "build"
    BY <1>7 DEF AskClass
  <2>3. WriterInv' /\ StampInv' /\ PublishedInv'
    BY Zenon, <2>2
  <2>4. LockInv'
    BY <2>1, <2>2
  <2>5. /\ todo'[t] = todo[t] \ {s}
        /\ kept'[t] = IF Applies(s) THEN kept[t] \cup {s} ELSE kept[t]
        /\ \A u \in Requests \ {t} : todo'[u] = todo[u] /\ kept'[u] = kept[u]
    BY <2>1
  <2>6. s \in Sources
    BY ZenonT(30), <2>1
  <2>7. \A x : /\ x \in todo'[t] <=> x \in todo[t] /\ x # s
              /\ x \in kept'[t] <=> x \in kept[t] \/ (x = s /\ Applies(s))
    BY <2>5
  <2>8. BuildInv'
    <3> SUFFICES ASSUME NEW u \in Requests, pc[u] \in Built
                 PROVE  AskedRight(u)'
      BY Zenon, <2>2
    <3>1. CASE u # t
      BY Zenon, <2>2, <2>5, <3>1
    <3>2. CASE u = t
      <4> HIDE DEF TypeOK, WriterInv, StampInv, LockInv, PublishedInv
      <4>1. AskedRight(t)
        BY Zenon, <3>2
      <4>2. field' = field /\ size' = size /\ route' = route
            /\ revision' = revision /\ routeRev' = routeRev
            /\ captured' = captured /\ wpc' = wpc
        BY Zenon, <2>2
      <4>3. "container" \notin todo'[t] => ("container" \in kept'[t] <=> size > 0)
        BY <2>1, <2>7, <4>1, AppliesDef
      <4>4. "field" \notin todo'[t] =>
              \/ captured[t].revision < revision \/ FieldMoving
              \/ ("field" \in kept'[t] <=> field)
        BY <2>1, <2>7, <4>1, AppliesDef
      <4>5. "route" \notin todo'[t] =>
              \/ captured[t].route < routeRev \/ RouteMoving
              \/ ("route" \in kept'[t] <=> route)
        BY <2>1, <2>7, <4>1, AppliesDef
      <4>6. \A x \in todo'[t] : x \notin kept'[t]
        <5>1. \A x \in todo[t] : x \notin kept[t]
          BY Zenon, <4>1
        <5> SUFFICES ASSUME NEW x \in todo'[t] PROVE x \notin kept'[t]
          BY Zenon
        <5>2. x \in todo[t] /\ x # s
          BY Zenon, <2>5
        <5> QED
          BY Zenon, <2>5, <5>1, <5>2
      <4> QED
        BY Zenon, <3>2, <4>2, <4>3, <4>4, <4>5, <4>6
    <3> QED
      BY Zenon, <3>1, <3>2
  <2> QED
    BY Zenon, <2>3, <2>4, <2>8
<1>8. CASE PublishChecks(t)
  BY <1>8 DEF PublishChecks
<1>9. CASE StampRevision(t)
  BY <1>9 DEF StampRevision
<1>10. CASE StampSignature(t)
  BY <1>10 DEF StampSignature
<1>11. CASE StampRoute(t)
  BY <1>11 DEF StampRoute
<1>12. CASE TakeSnapshot(t)
  BY <1>12 DEF TakeSnapshot
<1>13. CASE Finish(t)
  BY SMTT(30), <1>13 DEF Finish
<1> QED
  BY ZenonT(30), <1>1, <1>2, <1>3, <1>4, <1>5, <1>6, <1>7, <1>8, <1>9, <1>10, <1>11,
     <1>12, <1>13 DEF RequestStep

\* Every step of the single assigning writer keeps the invariant.
LEMMA SyncWriterStep ==
  ASSUME SingleAssigner, SyncInv, NEW w \in Writers, WriterStep(w), TypeOK'
  PROVE  SyncInv'
<1> USE ConstantsAssumption
    DEF SingleAssigner, SyncInv, TypeOK, WriterInv, StampInv, LockInv,
        BuildInv, AskedRight, PublishedInv, Stamping, Built, FieldMoving, RouteMoving
<1>1. CASE AssignField(w)
  BY SMTT(60), <1>1 DEF AssignField
<1>2. CASE ReadRevision(w)
  BY SMTT(60), <1>2 DEF ReadRevision
<1>3. CASE WriteRevision(w)
  BY SMTT(60), <1>3 DEF WriteRevision
<1>4. CASE AssignRoute(w)
  BY SMTT(60), <1>4 DEF AssignRoute
<1>5. CASE ReadRouteRev(w)
  BY SMTT(60), <1>5 DEF ReadRouteRev
<1>6. CASE WriteRouteRev(w)
  BY <1>6 DEF WriteRouteRev
<1>7. ~MutateContainer(w) /\ ~BeginRouteInPlace(w) /\ ~MutateRoute(w)
  BY DEF MutateContainer, BeginRouteInPlace, MutateRoute
<1> QED
  BY ZenonT(30), <1>1, <1>2, <1>3, <1>4, <1>5, <1>6, <1>7 DEF WriterStep

\* The invariant of the threads holds in every reachable state.
LEMMA SyncInvariant ==
  ASSUME SingleAssigner PROVE Spec => []SyncInv
<1>1. Init => SyncInv
  <2> SUFFICES ASSUME Init PROVE SyncInv
    BY Zenon
  <2>1. TypeOK
    BY ConstantsAssumption DEF Init, TypeOK, Fresh, Sources, NoStamps
  <2> QED
    BY <2>1, ConstantsAssumption
       DEF Init, SyncInv, WriterInv, StampInv, LockInv, BuildInv,
           PublishedInv, Stamping, Built, Fresh, Applies, Sources, NoStamps
<1>2. SyncInv /\ [Next]_vars => SyncInv'
  <2> SUFFICES ASSUME SyncInv, [Next]_vars PROVE SyncInv'
    BY Zenon
  <2>1. TypeOK'
    BY Zenon, TypeStep DEF SyncInv
  <2>2. CASE UNCHANGED vars
    BY <2>2 DEF SyncInv, TypeOK, WriterInv, StampInv, LockInv, BuildInv,
       AskedRight, PublishedInv, FieldMoving, RouteMoving, vars
  <2> QED
    BY Zenon, <2>1, <2>2, SyncRequestStep, SyncWriterStep DEF Next
<1> QED
  BY <1>1, <1>2, PTL DEF Spec

\* With one writer that assigns whole values, threads never publish an
\* outdated list under stamps that hide it, however rebuilds interleave.
THEOREM SyncNeverMasksStaleness ==
  ASSUME SingleAssigner PROVE Spec => []NoMaskedStaleness
<1>1. SyncInv => NoMaskedStaleness
  <2> SUFFICES ASSUME SyncInv, WriterIdle, lock = Nobody, ~IsStale
               PROVE  checks = Fresh
    BY Zenon DEF NoMaskedStaleness
  <2>1. /\ "container" \in checks <=> Applies("container")
        /\ "field" \in checks <=> Applies("field")
        /\ "route" \in checks <=> Applies("route")
    BY AppliesDef DEF SyncInv, TypeOK, PublishedInv, WriterIdle, IsStale,
       FieldMoving, RouteMoving
  <2> QED
    BY ZenonT(30), <2>1 DEF Fresh, Sources, SyncInv, TypeOK
<1> QED
  BY <1>1, SyncInvariant, PTL

\* With one writer every assignment to SecurityConfig advances the revision.
THEOREM SyncRevisionAdvances ==
  ASSUME SingleAssigner PROVE Spec => RevisionAdvances
<1> DEFINE Advances == \A w \in Writers :
      wpc[w] = "writeRevision" /\ wpc'[w] = "idle" => revision' > revision
<1>1. SyncInv /\ [Next]_vars => [Advances]_vars
  <2> SUFFICES ASSUME SyncInv, Next, NEW w \in Writers,
                      wpc[w] = "writeRevision", wpc'[w] = "idle"
               PROVE  revision' > revision
    BY Zenon DEF vars
  <2>1. \A t \in Requests : ~RequestStep(t)
    BY Zenon DEF RequestStep, CompareRevision, CompareSignature, CompareRoute,
       CaptureRevision, CaptureSignature, CaptureRoute, AskClass,
       PublishChecks, StampRevision, StampSignature, StampRoute, TakeSnapshot,
       Finish
  <2>2. WriterStep(w)
    BY Zenon, <2>1 DEF Next, SingleAssigner
  <2>3. WriteRevision(w)
    BY Zenon, <2>2 DEF WriterStep, AssignField, ReadRevision, MutateContainer,
       AssignRoute, BeginRouteInPlace, ReadRouteRev, WriteRouteRev, MutateRoute
  <2>4. wtmp[w] = revision /\ revision \in Nat
    BY Zenon DEF SyncInv, WriterInv, TypeOK
  <2> QED
    BY <2>3, <2>4 DEF WriteRevision
<1> QED
  BY <1>1, SyncInvariant, PTL DEF Spec, RevisionAdvances
-----------------------------------------------------------------------------
(* Tasks: any number of writers, every kind of change.                      *)

Mid(t) == pc[t] \notin AwaitPoints

\* At most one task is between two awaits.
ExclusiveInv ==
  /\ \A t, u \in Requests : Mid(t) /\ Mid(u) => t = u
  /\ \A t \in Requests, w \in Writers : Mid(t) => wpc[w] = "idle"
  /\ \A v, w \in Writers : wpc[v] # "idle" /\ wpc[w] # "idle" => v = w

\* A writer works on the live counter; a tracked container changes only
\* under a counter that no published stamp has reached.
TaskWriterInv ==
  /\ built.revision <= revision
  /\ built.route <= routeRev
  /\ \A w \in Writers :
       /\ wpc[w] = "writeRevision" => wtmp[w] = revision
       /\ wpc[w] \in {"writeRouteRev", "writeRouteRevFirst"} => wtmp[w] = routeRev
       /\ wpc[w] = "mutateRoute" => built.route < routeRev

\* What a request in its rebuild has read is still so.
TaskRequestInv ==
  \A t \in Requests :
    /\ pc[t] \in {"compareSignature", "compareRoute"} => revision = built.revision
    /\ pc[t] = "compareRoute" => size = built.signature
    /\ pc[t] \in {"captureSignature", "captureRoute"} \cup Built =>
         captured[t].revision = revision
    /\ pc[t] \in {"captureRoute"} \cup Built => captured[t].signature = size
    /\ pc[t] \in Built => captured[t].route = routeRev
    /\ pc[t] = "snapshot" => ~IsStale

TaskAskedRight(t) ==
  /\ \A x \in todo[t] : x \notin kept[t]
  /\ "container" \notin todo[t] => ("container" \in kept[t] <=> size > 0)
  /\ "field" \notin todo[t] => ("field" \in kept[t] <=> field)
  /\ "route" \notin todo[t] => ("route" \in kept[t] <=> route)

TaskBuildInv == \A t \in Requests : pc[t] \in Built => TaskAskedRight(t)

TaskLockInv ==
  \A t \in Requests :
    /\ pc[t] \in Stamping <=> lock = t
    /\ pc[t] \in Stamping => todo[t] = {} /\ checks = kept[t]
    /\ pc[t] \in {"stampSignature", "stampRoute"} =>
         built.revision = captured[t].revision
    /\ pc[t] = "stampRoute" => built.signature = captured[t].signature

TaskPublishedInv ==
  lock = Nobody =>
    /\ "container" \in checks <=> built.signature > 0
    /\ built.revision < revision \/ FieldMoving \/ ("field" \in checks <=> field)
    /\ built.route < routeRev \/ RouteMoving \/ ("route" \in checks <=> route)

AsyncInv ==
  /\ TypeOK /\ ExclusiveInv /\ TaskWriterInv /\ TaskRequestInv /\ TaskBuildInv
  /\ TaskLockInv /\ TaskPublishedInv /\ NextRequestIsFresh

\* The live configuration fixes what a build returns.
LEMMA FreshDef ==
  ASSUME NEW S \in SUBSET Sources,
         "container" \in S <=> size > 0,
         "field" \in S <=> field,
         "route" \in S <=> route
  PROVE  S = Fresh
<1>1. \A x \in Sources : x \in S <=> Applies(x)
  BY Zenon, AppliesDef DEF Sources
<1> QED
  BY Zenon, <1>1 DEF Fresh

\* Published stamps that match the live ones vouch for the published list.
LEMMA AsyncUnmasked == AsyncInv => NoMaskedStaleness
<1> SUFFICES ASSUME AsyncInv, WriterIdle, lock = Nobody, ~IsStale
             PROVE  checks = Fresh
  BY Zenon DEF NoMaskedStaleness
<1>1. /\ checks \in SUBSET Sources
      /\ "container" \in checks <=> size > 0
      /\ "field" \in checks <=> field
      /\ "route" \in checks <=> route
  BY DEF AsyncInv, TypeOK, TaskPublishedInv, WriterIdle, IsStale, FieldMoving,
     RouteMoving
<1> QED
  BY Zenon, <1>1, FreshDef

\* Every step of a request keeps the invariant.
LEMMA AsyncRequestStep ==
  ASSUME ~Preemptive, AsyncInv, NEW t \in Requests, RequestStep(t), TypeOK'
  PROVE  AsyncInv'
<1>1. Fresh' = Fresh /\ UNCHANGED <<config, writer>>
  BY ZenonT(30) DEF RequestStep, CompareRevision, CompareSignature, CompareRoute,
     CaptureRevision, CaptureSignature, CaptureRoute, AskClass, PublishChecks,
     StampRevision, StampSignature, StampRoute, TakeSnapshot, Finish, Fresh,
     Applies
<1>15. /\ DOMAIN pc = Requests /\ DOMAIN calm = Requests
       /\ captured \in [Requests -> [revision : Nat, signature : 0..MaxSize, route : Nat]]
       /\ todo \in [Requests -> SUBSET Sources] /\ kept \in [Requests -> SUBSET Sources]
       /\ built \in [revision : Nat, signature : 0..MaxSize, route : Nat]
       /\ lock \in Requests \cup {Nobody} /\ checks \in SUBSET Sources
       /\ revision \in Nat /\ routeRev \in Nat /\ size \in 0..MaxSize
  BY Zenon DEF AsyncInv, TypeOK
<1> USE ConstantsAssumption, <1>15 DEF AsyncInv
<1>2. CASE CompareRevision(t)
  <2>1. ExclusiveInv' /\ TaskWriterInv' /\ TaskLockInv'
    BY SMTT(60), <1>1, <1>2
     DEF CompareRevision, ExclusiveInv, Mid, TaskWriterInv, TaskLockInv, Stamping,
         AwaitPoints, MayStep
  <2>2. TaskRequestInv' /\ TaskBuildInv'
    BY SMTT(60), <1>1, <1>2
     DEF CompareRevision, ExclusiveInv, Mid, TaskLockInv, TaskRequestInv,
         TaskBuildInv, TaskAskedRight, Built, Stamping, AwaitPoints, MayStep, IsStale
  <2>3. TaskPublishedInv' /\ NextRequestIsFresh'
    BY SMTT(60), <1>1, <1>2
     DEF CompareRevision, TaskRequestInv, TaskBuildInv, TaskAskedRight, TaskLockInv,
         TaskPublishedInv, Built, Stamping, FieldMoving, RouteMoving, NextRequestIsFresh,
         AwaitPoints, IsStale
  <2> QED BY Zenon, <2>1, <2>2, <2>3
<1>3. CASE CompareSignature(t)
  <2>1. ExclusiveInv' /\ TaskWriterInv' /\ TaskLockInv'
    BY SMTT(60), <1>1, <1>3
     DEF CompareSignature, ExclusiveInv, Mid, TaskWriterInv, TaskLockInv, Stamping,
         AwaitPoints, MayStep
  <2>2. TaskRequestInv' /\ TaskBuildInv'
    BY SMTT(60), <1>1, <1>3
     DEF CompareSignature, ExclusiveInv, Mid, TaskLockInv, TaskRequestInv,
         TaskBuildInv, TaskAskedRight, Built, Stamping, AwaitPoints, MayStep, IsStale
  <2>3. TaskPublishedInv' /\ NextRequestIsFresh'
    BY SMTT(60), <1>1, <1>3
     DEF CompareSignature, TaskRequestInv, TaskBuildInv, TaskAskedRight, TaskLockInv,
         TaskPublishedInv, Built, Stamping, FieldMoving, RouteMoving, NextRequestIsFresh,
         AwaitPoints, IsStale
  <2> QED BY Zenon, <2>1, <2>2, <2>3
<1>4. CASE CompareRoute(t)
  <2>1. ExclusiveInv' /\ TaskWriterInv' /\ TaskLockInv'
    BY SMTT(60), <1>1, <1>4
     DEF CompareRoute, ExclusiveInv, Mid, TaskWriterInv, TaskLockInv, Stamping,
         AwaitPoints, MayStep
  <2>2. TaskRequestInv' /\ TaskBuildInv'
    BY SMTT(60), <1>1, <1>4
     DEF CompareRoute, ExclusiveInv, Mid, TaskLockInv, TaskRequestInv,
         TaskBuildInv, TaskAskedRight, Built, Stamping, AwaitPoints, MayStep, IsStale
  <2>3. TaskPublishedInv' /\ NextRequestIsFresh'
    BY SMTT(60), <1>1, <1>4
     DEF CompareRoute, TaskRequestInv, TaskBuildInv, TaskAskedRight, TaskLockInv,
         TaskPublishedInv, Built, Stamping, FieldMoving, RouteMoving, NextRequestIsFresh,
         AwaitPoints, IsStale
  <2> QED BY Zenon, <2>1, <2>2, <2>3
<1>5. CASE CaptureRevision(t)
  <2>1. ExclusiveInv' /\ TaskWriterInv' /\ TaskLockInv'
    BY SMTT(60), <1>1, <1>5
     DEF CaptureRevision, ExclusiveInv, Mid, TaskWriterInv, TaskLockInv, Stamping,
         AwaitPoints, MayStep
  <2>2. TaskRequestInv' /\ TaskBuildInv'
    BY SMTT(60), <1>1, <1>5
     DEF CaptureRevision, ExclusiveInv, Mid, TaskLockInv, TaskRequestInv,
         TaskBuildInv, TaskAskedRight, Built, Stamping, AwaitPoints, MayStep, IsStale, Sources
  <2>3. TaskPublishedInv' /\ NextRequestIsFresh'
    BY SMTT(60), <1>1, <1>5
     DEF CaptureRevision, TaskRequestInv, TaskBuildInv, TaskAskedRight, TaskLockInv,
         TaskPublishedInv, Built, Stamping, FieldMoving, RouteMoving, NextRequestIsFresh,
         AwaitPoints, IsStale
  <2> QED BY Zenon, <2>1, <2>2, <2>3
<1>6. CASE CaptureSignature(t)
  <2>1. ExclusiveInv' /\ TaskWriterInv' /\ TaskLockInv'
    BY SMTT(60), <1>1, <1>6
     DEF CaptureSignature, ExclusiveInv, Mid, TaskWriterInv, TaskLockInv, Stamping,
         AwaitPoints, MayStep
  <2>2. TaskRequestInv' /\ TaskBuildInv'
    BY SMTT(60), <1>1, <1>6
     DEF CaptureSignature, ExclusiveInv, Mid, TaskLockInv, TaskRequestInv,
         TaskBuildInv, TaskAskedRight, Built, Stamping, AwaitPoints, MayStep, IsStale, Sources
  <2>3. TaskPublishedInv' /\ NextRequestIsFresh'
    BY SMTT(60), <1>1, <1>6
     DEF CaptureSignature, TaskRequestInv, TaskBuildInv, TaskAskedRight, TaskLockInv,
         TaskPublishedInv, Built, Stamping, FieldMoving, RouteMoving, NextRequestIsFresh,
         AwaitPoints, IsStale
  <2> QED BY Zenon, <2>1, <2>2, <2>3
<1>7. CASE CaptureRoute(t)
  <2>1. ExclusiveInv' /\ TaskWriterInv' /\ TaskLockInv'
    BY SMTT(60), <1>1, <1>7
     DEF CaptureRoute, ExclusiveInv, Mid, TaskWriterInv, TaskLockInv, Stamping,
         AwaitPoints, MayStep
  <2>2. TaskRequestInv' /\ TaskBuildInv'
    BY SMTT(60), <1>1, <1>7
     DEF CaptureRoute, ExclusiveInv, Mid, TaskLockInv, TaskRequestInv,
         TaskBuildInv, TaskAskedRight, Built, Stamping, AwaitPoints, MayStep, IsStale, Sources
  <2>3. TaskPublishedInv' /\ NextRequestIsFresh'
    BY SMTT(60), <1>1, <1>7
     DEF CaptureRoute, TaskRequestInv, TaskBuildInv, TaskAskedRight, TaskLockInv,
         TaskPublishedInv, Built, Stamping, FieldMoving, RouteMoving, NextRequestIsFresh,
         AwaitPoints, IsStale
  <2> QED BY Zenon, <2>1, <2>2, <2>3
<1>8. CASE AskClass(t)
  <2>1. PICK s \in todo[t] :
          /\ todo' = [todo EXCEPT ![t] = @ \ {s}]
          /\ kept' = [kept EXCEPT ![t] = IF Applies(s) THEN @ \cup {s} ELSE @]
    BY ZenonT(30), <1>8 DEF AskClass
  <2>2. UNCHANGED <<pipe, captured, calm>> /\ pc' = pc /\ pc[t] = "build"
    <3>1. UNCHANGED <<pipe, captured, calm>> /\ pc[t] = "build" /\ pc' = [pc EXCEPT ![t] = "build"]
      BY <1>8, Zenon DEF AskClass
    <3>2. pc = [u \in Requests |-> pc[u]]
      BY Zenon DEF TypeOK
    <3> QED BY Zenon, <3>1, <3>2
  <2>3. /\ todo'[t] = todo[t] \ {s}
        /\ kept'[t] = IF Applies(s) THEN kept[t] \cup {s} ELSE kept[t]
        /\ \A u \in Requests \ {t} : todo'[u] = todo[u] /\ kept'[u] = kept[u]
    BY Zenon, <2>1
  <2>4. /\ ExclusiveInv' /\ TaskWriterInv' /\ TaskRequestInv'
        /\ TaskPublishedInv'
    BY Zenon, <1>1, <2>2
     DEF ExclusiveInv, Mid, TaskWriterInv, TaskRequestInv, TaskPublishedInv, Built, Stamping,
         FieldMoving, RouteMoving, AwaitPoints, IsStale
  <2>5. TaskLockInv' /\ NextRequestIsFresh'
    BY ZenonT(60), <1>1, <2>2, <2>3 DEF TaskLockInv, Stamping, NextRequestIsFresh
  <2>6. TaskAskedRight(t)'
    <3>1. TaskAskedRight(t)
      BY Zenon, <2>2 DEF TaskBuildInv, Built
    <3>2. \A x \in todo'[t] : x \notin kept'[t]
      BY Zenon, <2>3, <3>1 DEF TaskAskedRight
    <3>3. "container" \notin todo'[t] => ("container" \in kept'[t] <=> size > 0)
      BY Zenon, <2>3, <3>1, AppliesDef DEF TaskAskedRight
    <3>4. "field" \notin todo'[t] => ("field" \in kept'[t] <=> field)
      BY Zenon, <2>3, <3>1, AppliesDef DEF TaskAskedRight
    <3>5. "route" \notin todo'[t] => ("route" \in kept'[t] <=> route)
      BY Zenon, <2>3, <3>1, AppliesDef DEF TaskAskedRight
    <3> QED
      BY Zenon, <1>1, <3>2, <3>3, <3>4, <3>5 DEF TaskAskedRight
  <2>7. TaskBuildInv'
    BY ZenonT(60), <1>1, <2>2, <2>3, <2>6
     DEF TaskBuildInv, TaskAskedRight, ExclusiveInv, Mid, Built, AwaitPoints
  <2> QED
    BY Zenon, <2>4, <2>5, <2>7
<1>9. CASE PublishChecks(t)
  <2>1. ExclusiveInv' /\ TaskWriterInv' /\ TaskLockInv'
    BY SMTT(60), <1>1, <1>9
     DEF PublishChecks, ExclusiveInv, Mid, TaskWriterInv, TaskLockInv, Stamping,
         AwaitPoints, MayStep
  <2>2. TaskRequestInv' /\ TaskBuildInv'
    BY SMTT(60), <1>1, <1>9
     DEF PublishChecks, ExclusiveInv, Mid, TaskLockInv, TaskRequestInv,
         TaskBuildInv, TaskAskedRight, Built, Stamping, AwaitPoints, MayStep, IsStale
  <2>3. TaskPublishedInv' /\ NextRequestIsFresh'
    BY Zenon, <1>1, <1>9
     DEF PublishChecks, TaskRequestInv, TaskBuildInv, TaskAskedRight, TaskLockInv,
         TaskPublishedInv, Built, Stamping, FieldMoving, RouteMoving, NextRequestIsFresh,
         AwaitPoints, IsStale
  <2> QED BY Zenon, <2>1, <2>2, <2>3
<1>10. CASE StampRevision(t)
  <2>1. ExclusiveInv' /\ TaskWriterInv' /\ TaskLockInv'
    BY SMTT(60), <1>1, <1>10
     DEF StampRevision, ExclusiveInv, Mid, TaskWriterInv, TaskLockInv, Stamping,
         AwaitPoints, MayStep, TaskRequestInv, Built
  <2>2. TaskRequestInv' /\ TaskBuildInv'
    BY SMTT(60), <1>1, <1>10
     DEF StampRevision, ExclusiveInv, Mid, TaskLockInv, TaskRequestInv,
         TaskBuildInv, TaskAskedRight, Built, Stamping, AwaitPoints, MayStep, IsStale
  <2>3. TaskPublishedInv' /\ NextRequestIsFresh'
    BY Zenon, <1>1, <1>10
     DEF StampRevision, TaskRequestInv, TaskBuildInv, TaskAskedRight, TaskLockInv,
         TaskPublishedInv, Built, Stamping, FieldMoving, RouteMoving, NextRequestIsFresh,
         AwaitPoints, IsStale
  <2> QED BY Zenon, <2>1, <2>2, <2>3
<1>11. CASE StampSignature(t)
  <2>1. ExclusiveInv' /\ TaskWriterInv' /\ TaskLockInv'
    BY SMTT(60), <1>1, <1>11
     DEF StampSignature, ExclusiveInv, Mid, TaskWriterInv, TaskLockInv, Stamping,
         AwaitPoints, MayStep, TaskRequestInv, Built
  <2>2. TaskRequestInv' /\ TaskBuildInv'
    BY SMTT(60), <1>1, <1>11
     DEF StampSignature, ExclusiveInv, Mid, TaskLockInv, TaskRequestInv,
         TaskBuildInv, TaskAskedRight, Built, Stamping, AwaitPoints, MayStep, IsStale
  <2>3. TaskPublishedInv' /\ NextRequestIsFresh'
    BY SMTT(60), <1>1, <1>11
     DEF StampSignature, TaskRequestInv, TaskBuildInv, TaskAskedRight, TaskLockInv,
         TaskPublishedInv, Built, Stamping, FieldMoving, RouteMoving, NextRequestIsFresh,
         AwaitPoints, IsStale
  <2> QED BY Zenon, <2>1, <2>2, <2>3
<1>12. CASE StampRoute(t)
  <2>1. ExclusiveInv' /\ TaskWriterInv' /\ TaskLockInv'
    BY SMTT(60), <1>1, <1>12
     DEF StampRoute, ExclusiveInv, Mid, TaskWriterInv, TaskLockInv, Stamping,
         AwaitPoints, MayStep, TaskRequestInv, Built
  <2>2. TaskRequestInv' /\ TaskBuildInv'
    BY SMTT(60), <1>1, <1>12
     DEF StampRoute, ExclusiveInv, Mid, TaskLockInv, TaskRequestInv,
         TaskBuildInv, TaskAskedRight, Built, Stamping, AwaitPoints, MayStep, IsStale
  <2>3. TaskPublishedInv' /\ NextRequestIsFresh'
    BY SMTT(60), <1>1, <1>12
     DEF StampRoute, TaskRequestInv, TaskBuildInv, TaskAskedRight, TaskLockInv,
         TaskPublishedInv, Built, Stamping, FieldMoving, RouteMoving, NextRequestIsFresh,
         AwaitPoints, IsStale
  <2> QED BY Zenon, <2>1, <2>2, <2>3
<1>13. CASE TakeSnapshot(t)
  <2>1. checks = Fresh
    <3>1. WriterIdle /\ lock = Nobody /\ ~IsStale
      <4>1. pc[t] = "snapshot"
        BY Zenon, <1>13 DEF TakeSnapshot
      <4>2. WriterIdle /\ ~IsStale
        BY Zenon, <4>1 DEF WriterIdle, ExclusiveInv, Mid, AwaitPoints, TaskRequestInv
      <4>3. \A u \in Requests : lock # u
        BY ZenonT(30), <4>1 DEF TaskLockInv, Stamping, ExclusiveInv, Mid, AwaitPoints
      <4> QED
        BY Zenon, <4>2, <4>3
    <3> QED
      BY Zenon, <3>1, AsyncUnmasked DEF NoMaskedStaleness
  <2>2. ExclusiveInv' /\ TaskWriterInv' /\ TaskLockInv'
    BY SMTT(60), <1>1, <1>13
     DEF TakeSnapshot, ExclusiveInv, Mid, TaskWriterInv, TaskLockInv, Stamping,
         AwaitPoints, MayStep
  <2>3. TaskRequestInv' /\ TaskBuildInv'
    BY SMTT(60), <1>1, <1>13
     DEF TakeSnapshot, ExclusiveInv, Mid, TaskLockInv, TaskRequestInv,
         TaskBuildInv, TaskAskedRight, Built, Stamping, AwaitPoints, MayStep, IsStale
  <2>4. TaskPublishedInv' /\ NextRequestIsFresh'
    BY SMTT(60), <1>1, <1>13, <2>1
     DEF TakeSnapshot, TaskRequestInv, TaskBuildInv, TaskAskedRight, TaskLockInv,
         TaskPublishedInv, Built, Stamping, FieldMoving, RouteMoving, NextRequestIsFresh,
         AwaitPoints, IsStale
  <2> QED BY Zenon, <2>2, <2>3, <2>4
<1>14. CASE Finish(t)
  <2>1. ExclusiveInv' /\ TaskWriterInv' /\ TaskLockInv'
    BY SMTT(60), <1>1, <1>14
     DEF Finish, ExclusiveInv, Mid, TaskWriterInv, TaskLockInv, Stamping,
         AwaitPoints, MayStep
  <2>2. TaskRequestInv' /\ TaskBuildInv'
    BY SMTT(60), <1>1, <1>14
     DEF Finish, ExclusiveInv, Mid, TaskLockInv, TaskRequestInv,
         TaskBuildInv, TaskAskedRight, Built, Stamping, AwaitPoints, MayStep, IsStale
  <2>3. TaskPublishedInv' /\ NextRequestIsFresh'
    BY SMTT(60), <1>1, <1>14
     DEF Finish, TaskRequestInv, TaskBuildInv, TaskAskedRight, TaskLockInv,
         TaskPublishedInv, Built, Stamping, FieldMoving, RouteMoving, NextRequestIsFresh,
         AwaitPoints, IsStale
  <2> QED BY Zenon, <2>1, <2>2, <2>3
<1> QED
  BY ZenonT(30), <1>2, <1>3, <1>4, <1>5, <1>6, <1>7, <1>8, <1>9, <1>10, <1>11, <1>12,
     <1>13, <1>14 DEF RequestStep

\* Every step of a writer keeps the invariant.
LEMMA AsyncWriterStep ==
  ASSUME ~Preemptive, AsyncInv, NEW w \in Writers, WriterStep(w), TypeOK'
  PROVE  AsyncInv'
<1>1. /\ \A t \in Requests : pc[t] \in AwaitPoints
      /\ \A v \in Writers : v # w => wpc[v] = "idle" /\ wpc'[v] = "idle"
      /\ UNCHANGED <<pipe, pc, local>>
      /\ calm' = [t \in Requests |-> FALSE]
  <2>1. /\ MayStep(w)
        /\ UNCHANGED <<pipe, pc, local>>
        /\ calm' = [t \in Requests |-> FALSE]
    BY Zenon DEF WriterStep, AssignField, ReadRevision, WriteRevision, MutateContainer,
       AssignRoute, BeginRouteInPlace, ReadRouteRev, WriteRouteRev, MutateRoute
  <2>2. \A v \in Writers : v # w => wpc'[v] = wpc[v]
    <3>1. wpc \in [Writers -> {"idle", "readRevision", "writeRevision",
            "readRouteRev", "writeRouteRev", "readRouteRevFirst",
            "writeRouteRevFirst", "mutateRoute"}]
      BY Zenon DEF AsyncInv, TypeOK
    <3>2. \E to : wpc' = [wpc EXCEPT ![w] = to]
      BY Zenon DEF WriterStep, AssignField, ReadRevision, WriteRevision,
         MutateContainer, AssignRoute, BeginRouteInPlace, ReadRouteRev,
         WriteRouteRev, MutateRoute
    <3> QED
      BY Zenon, <3>1, <3>2
  <2>3. w \notin Requests
    BY Zenon, ConstantsAssumption
  <2> QED
    BY Zenon, <2>1, <2>2, <2>3 DEF MayStep
<1>2. ExclusiveInv' /\ TaskRequestInv' /\ TaskBuildInv' /\ TaskLockInv'
  BY ZenonT(30), <1>1 DEF AsyncInv, ExclusiveInv, Mid, TaskRequestInv, TaskBuildInv,
     TaskLockInv, Stamping, Built, AwaitPoints
<1>3. NextRequestIsFresh'
  BY ZenonT(30), <1>1 DEF NextRequestIsFresh
<1>4. TaskWriterInv' /\ TaskPublishedInv'
  <2>10. /\ TaskWriterInv /\ TaskPublishedInv /\ wpc = [v \in Writers |-> wpc[v]]
         /\ wtmp \in [Writers -> Nat] /\ revision \in Nat /\ routeRev \in Nat /\ size \in Nat
         /\ built.revision \in Nat /\ built.route \in Nat /\ built.signature \in Nat
    BY ConstantsAssumption DEF AsyncInv, TypeOK
  <2> USE <2>10 DEF TaskWriterInv, TaskPublishedInv, FieldMoving, RouteMoving
  <2>1. CASE AssignField(w)
    BY Zenon, <1>1, <2>1 DEF AssignField
  <2>2. CASE ReadRevision(w)
    BY Zenon, <1>1, <2>2 DEF ReadRevision
  <2>3. CASE WriteRevision(w)
    BY SMTT(60), <1>1, <2>3 DEF WriteRevision
  <2>4. CASE MutateContainer(w)
    BY Zenon, <1>1, <2>4 DEF MutateContainer
  <2>5. CASE AssignRoute(w)
    BY Zenon, <1>1, <2>5 DEF AssignRoute
  <2>6. CASE BeginRouteInPlace(w)
    BY Zenon, <1>1, <2>6 DEF BeginRouteInPlace
  <2>7. CASE ReadRouteRev(w)
    BY Zenon, <1>1, <2>7 DEF ReadRouteRev
  <2>8. CASE WriteRouteRev(w)
    <3>1. routeRev' = routeRev + 1
      BY Zenon, <2>8 DEF WriteRouteRev
    <3> QED
      BY SMTT(60), <1>1, <2>8, <3>1 DEF WriteRouteRev
  <2>9. CASE MutateRoute(w)
    BY Zenon, <1>1, <2>9 DEF MutateRoute
  <2> QED
    BY ZenonT(30), <2>1, <2>2, <2>3, <2>4, <2>5, <2>6, <2>7, <2>8, <2>9 DEF WriterStep
<1> QED
  BY Zenon, <1>2, <1>3, <1>4 DEF AsyncInv

\* In the async tree no outdated list is ever masked, and a request that no
\* configuration change overlaps always runs the checks in force.
THEOREM AsyncAlwaysFresh ==
  ASSUME ~Preemptive PROVE Spec => [](NoMaskedStaleness /\ NextRequestIsFresh)
<1>1. Init => AsyncInv
  <2> SUFFICES ASSUME Init PROVE AsyncInv
    BY Zenon
  <2>1. TypeOK
    BY ConstantsAssumption DEF Init, TypeOK, Fresh, Sources, NoStamps
  <2> QED
    BY <2>1, ConstantsAssumption
       DEF Init, AsyncInv, ExclusiveInv, Mid, TaskWriterInv, TaskRequestInv,
           TaskBuildInv, TaskLockInv, TaskPublishedInv, Stamping, Built,
           NextRequestIsFresh, AwaitPoints, Fresh, Applies, Sources
<1>2. AsyncInv /\ [Next]_vars => AsyncInv'
  <2> SUFFICES ASSUME AsyncInv, [Next]_vars PROVE AsyncInv'
    BY Zenon
  <2>1. TypeOK'
    BY Zenon, TypeStep DEF AsyncInv
  <2>2. CASE UNCHANGED vars
    <3>1. Fresh' = Fresh
      BY Zenon, <2>2 DEF Fresh, Applies, vars
    <3>2. /\ ExclusiveInv' /\ TaskWriterInv' /\ TaskRequestInv'
          /\ NextRequestIsFresh'
      BY Zenon, <2>2, <3>1 DEF AsyncInv, ExclusiveInv, Mid, TaskWriterInv,
         TaskRequestInv, NextRequestIsFresh, IsStale, vars
    <3>3. TaskBuildInv' /\ TaskLockInv' /\ TaskPublishedInv'
      BY Zenon, <2>2 DEF AsyncInv, TaskBuildInv, TaskAskedRight, TaskLockInv,
         TaskPublishedInv, FieldMoving, RouteMoving, vars
    <3> QED
      BY Zenon, <2>1, <3>2, <3>3 DEF AsyncInv
  <2> QED
    BY Zenon, <2>1, <2>2, AsyncRequestStep, AsyncWriterStep DEF Next
<1>3. AsyncInv => NoMaskedStaleness /\ NextRequestIsFresh
  BY Zenon, AsyncUnmasked DEF AsyncInv
<1> QED
  BY <1>1, <1>2, <1>3, PTL DEF Spec
=============================================================================
