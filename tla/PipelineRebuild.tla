--------------------------- MODULE PipelineRebuild ---------------------------
(***************************************************************************)
(* How SecurityCheckPipeline keeps its list of checks in step with a       *)
(* configuration that changes while requests run.                          *)
(*                                                                         *)
(* A request first runs _rebuild_if_stale: it compares three stamps with   *)
(* the live configuration, and when one differs captures the live stamps,  *)
(* builds a new list by asking every check class whether it applies, and   *)
(* publishes list and stamps under a lock. Then it iterates self.checks.   *)
(*                                                                         *)
(* Every action is one read or write of shared state, which is what the    *)
(* threads of the generated guard_core/sync tree interleave. In the async  *)
(* tree nothing in the rebuild awaits: with Preemptive = FALSE a process   *)
(* steps only while every other one is at a point where it awaits.         *)
(*                                                                         *)
(* A check class is represented by the kind of state its applies_to reads: *)
(* an assigned SecurityConfig field, a watched container of SecurityConfig *)
(* (mutated in place), or a field of a RouteConfig.                        *)
(***************************************************************************)
EXTENDS Integers, FiniteSets

CONSTANTS Requests,     \* threads or tasks that run execute()
          Writers,      \* threads or tasks that change the configuration
          Mutations,    \* the kinds of change the writers make
          Preemptive,   \* TRUE: sync tree (threads), FALSE: async tree
          MaxRevision,  \* bound on each revision counter
          MaxSize,      \* bound on the size of the watched container
          MaxInPlace    \* bound on the number of in-place mutations

Kinds == {"assign", "inplace", "routeAssign", "routeInPlace"}
Nobody == "nobody"
Sources == {"field", "container", "route"}
NoStamps == [revision |-> 0, signature |-> 0, route |-> 0]

ASSUME ConstantsAssumption ==
  /\ Mutations \subseteq Kinds
  /\ Preemptive \in BOOLEAN
  /\ MaxRevision \in Nat
  /\ MaxSize \in Nat
  /\ MaxInPlace \in Nat
  /\ Nobody \notin Requests
  /\ Requests \cap Writers = {}

VARIABLES
  field,      \* a SecurityConfig field some applies_to reads
  revision,   \* SecurityConfig._revision
  size,       \* len() of a watched container of SecurityConfig
  route,      \* truth value of a RouteConfig field some applies_to reads
  routeRev,   \* RouteConfigRevision.value
  checks,     \* SecurityCheckPipeline.checks, as the classes it holds
  built,      \* _built_revision, _built_signature, _built_route_config_revision
  lock,       \* holder of _rebuild_lock, or Nobody
  pc,         \* where each request is in _rebuild_if_stale / execute
  captured,   \* the stamps each request captured before building
  todo,       \* the classes each building request has still to ask
  kept,       \* the classes each building request keeps, then its snapshot
  wpc,        \* where each writer is in the change it makes
  wtmp,       \* the counter value each writer has read
  inPlace,    \* number of in-place mutations made
  calm        \* history: requests no configuration change has overlapped

config == <<field, revision, size, route, routeRev>>
pipe == <<checks, built, lock>>
local == <<captured, todo, kept>>
writer == <<wpc, wtmp, inPlace>>
vars == <<config, pipe, pc, local, writer, calm>>

Applies(s) ==
  CASE s = "field" -> field
    [] s = "container" -> size > 0
    [] s = "route" -> route

\* What _build_checks returns when nothing changes while it runs.
Fresh == {s \in Sources : Applies(s)}

WriterIdle == \A w \in Writers : wpc[w] = "idle"
AwaitPoints == {"idle", "run"}

\* The scheduler: threads interleave anywhere, tasks only where they await.
MayStep(p) ==
  \/ Preemptive
  \/ /\ \A q \in Requests \ {p} : pc[q] \in AwaitPoints
     /\ \A w \in Writers \ {p} : wpc[w] = "idle"

Goto(t, from, to) == pc[t] = from /\ MayStep(t) /\ pc' = [pc EXCEPT ![t] = to]

Init ==
  /\ field \in BOOLEAN /\ size \in 0..MaxSize /\ route \in BOOLEAN
  /\ revision = 0 /\ routeRev = 0
  /\ checks = Fresh
  /\ built = [revision |-> revision, signature |-> size, route |-> routeRev]
  /\ lock = Nobody
  /\ pc = [t \in Requests |-> "idle"]
  /\ captured = [t \in Requests |-> NoStamps]
  /\ todo = [t \in Requests |-> {}]
  /\ kept = [t \in Requests |-> {}]
  /\ wpc = [w \in Writers |-> "idle"]
  /\ wtmp = [w \in Writers |-> 0]
  /\ inPlace = 0
  /\ calm = [t \in Requests |-> FALSE]
-----------------------------------------------------------------------------
(* _is_stale: three comparisons, each with an early return. *)

CompareRevision(t) ==
  /\ Goto(t, "idle", IF revision # built.revision THEN "captureRevision"
                                                  ELSE "compareSignature")
  /\ calm' = [calm EXCEPT ![t] = WriterIdle]
  /\ UNCHANGED <<config, pipe, local, writer>>

\* Variant: the size signature is not compared.
CompareNoSignature(t) ==
  /\ Goto(t, "compareSignature", "compareRoute")
  /\ UNCHANGED <<config, pipe, local, writer, calm>>

CompareSignature(t) ==
  /\ Goto(t, "compareSignature", IF size # built.signature THEN "captureRevision"
                                                           ELSE "compareRoute")
  /\ UNCHANGED <<config, pipe, local, writer, calm>>

\* Variant: the route revision is not compared.
CompareNoRoute(t) ==
  /\ Goto(t, "compareRoute", "snapshot")
  /\ UNCHANGED <<config, pipe, local, writer, calm>>

CompareRoute(t) ==
  /\ Goto(t, "compareRoute", IF routeRev # built.route THEN "captureRevision"
                                                       ELSE "snapshot")
  /\ UNCHANGED <<config, pipe, local, writer, calm>>

(* _rebuild_if_stale: the stamps are read before the list is built. *)

CaptureRevision(t) ==
  /\ Goto(t, "captureRevision", "captureSignature")
  /\ captured' = [captured EXCEPT ![t].revision = revision]
  /\ UNCHANGED <<config, pipe, todo, kept, writer, calm>>

CaptureSignature(t) ==
  /\ Goto(t, "captureSignature", "captureRoute")
  /\ captured' = [captured EXCEPT ![t].signature = size]
  /\ UNCHANGED <<config, pipe, todo, kept, writer, calm>>

CaptureRoute(t) ==
  /\ Goto(t, "captureRoute", "build")
  /\ captured' = [captured EXCEPT ![t].route = routeRev]
  /\ todo' = [todo EXCEPT ![t] = Sources]
  /\ kept' = [kept EXCEPT ![t] = {}]
  /\ UNCHANGED <<config, pipe, writer, calm>>

\* _build_checks asks the classes one after the other. Classes of each kind
\* occur throughout DEFAULT_CHECK_CLASSES, so the kinds are read in any order.
AskClass(t) ==
  /\ Goto(t, "build", "build")
  /\ \E s \in todo[t] :
       /\ todo' = [todo EXCEPT ![t] = @ \ {s}]
       /\ kept' = [kept EXCEPT ![t] = IF Applies(s) THEN @ \cup {s} ELSE @]
  /\ UNCHANGED <<config, pipe, captured, writer, calm>>

PublishChecks(t) ==
  /\ Goto(t, "build", "stampRevision")
  /\ todo[t] = {}
  /\ lock = Nobody
  /\ lock' = t
  /\ checks' = kept[t]
  /\ UNCHANGED <<config, built, local, writer, calm>>

\* Variant: the stamp is read from the live configuration after the build.
StampLiveRevision(t) ==
  /\ Goto(t, "stampRevision", "stampSignature")
  /\ built' = [built EXCEPT !.revision = revision]
  /\ UNCHANGED <<config, checks, lock, local, writer, calm>>

StampRevision(t) ==
  /\ Goto(t, "stampRevision", "stampSignature")
  /\ built' = [built EXCEPT !.revision = captured[t].revision]
  /\ UNCHANGED <<config, checks, lock, local, writer, calm>>

StampSignature(t) ==
  /\ Goto(t, "stampSignature", "stampRoute")
  /\ built' = [built EXCEPT !.signature = captured[t].signature]
  /\ UNCHANGED <<config, checks, lock, local, writer, calm>>

StampRoute(t) ==
  /\ Goto(t, "stampRoute", "snapshot")
  /\ built' = [built EXCEPT !.route = captured[t].route]
  /\ lock' = Nobody
  /\ UNCHANGED <<config, checks, local, writer, calm>>

(* execute: the for loop takes the reference self.checks once. *)

TakeSnapshot(t) ==
  /\ Goto(t, "snapshot", "run")
  /\ kept' = [kept EXCEPT ![t] = checks]
  /\ captured' = [captured EXCEPT ![t] = NoStamps]
  /\ UNCHANGED <<config, pipe, todo, writer, calm>>

Finish(t) ==
  /\ Goto(t, "run", "idle")
  /\ kept' = [kept EXCEPT ![t] = {}]
  /\ calm' = [calm EXCEPT ![t] = FALSE]
  /\ UNCHANGED <<config, pipe, captured, todo, writer>>
-----------------------------------------------------------------------------
(* The configuration changes. A change that moves on clears calm. *)

Disturb == calm' = [t \in Requests |-> FALSE]

WGoto(w, from, to) ==
  /\ wpc[w] = from /\ MayStep(w) /\ wpc' = [wpc EXCEPT ![w] = to]
  /\ Disturb

\* SecurityConfig.__setattr__ stores the value, then bumps the revision.
AssignField(w) ==
  /\ "assign" \in Mutations
  /\ WGoto(w, "idle", "readRevision")
  /\ revision < MaxRevision
  /\ \E v \in BOOLEAN : field' = v
  /\ UNCHANGED <<revision, size, route, routeRev, pipe, pc, local, wtmp, inPlace>>

ReadRevision(w) ==
  /\ WGoto(w, "readRevision", "writeRevision")
  /\ wtmp' = [wtmp EXCEPT ![w] = revision]
  /\ UNCHANGED <<config, pipe, pc, local, inPlace>>

WriteRevision(w) ==
  /\ WGoto(w, "writeRevision", "idle")
  /\ revision' = wtmp[w] + 1
  /\ wtmp' = [wtmp EXCEPT ![w] = 0]
  /\ UNCHANGED <<field, size, route, routeRev, pipe, pc, local, inPlace>>

\* list/set methods on a watched container: no __setattr__, no revision.
MutateContainer(w) ==
  /\ "inplace" \in Mutations
  /\ WGoto(w, "idle", "idle")
  /\ inPlace < MaxInPlace
  /\ inPlace' = inPlace + 1
  /\ \E n \in 0..MaxSize : size' = n
  /\ UNCHANGED <<field, revision, route, routeRev, pipe, pc, local, wtmp>>

\* RouteConfig.__setattr__ stores the value, then bumps the shared counter.
AssignRoute(w) ==
  /\ "routeAssign" \in Mutations
  /\ WGoto(w, "idle", "readRouteRev")
  /\ routeRev < MaxRevision
  /\ \E v \in BOOLEAN : route' = v
  /\ UNCHANGED <<field, revision, size, routeRev, pipe, pc, local, wtmp, inPlace>>

\* A mutator of a tracked container bumps the counter, then mutates.
BeginRouteInPlace(w) ==
  /\ "routeInPlace" \in Mutations
  /\ WGoto(w, "idle", "readRouteRevFirst")
  /\ routeRev < MaxRevision
  /\ UNCHANGED <<config, pipe, pc, local, wtmp, inPlace>>

\* RouteConfigRevision.bump: self.value += 1 is a read, then a write.
ReadRouteRev(w) ==
  /\ \/ WGoto(w, "readRouteRev", "writeRouteRev")
     \/ WGoto(w, "readRouteRevFirst", "writeRouteRevFirst")
  /\ wtmp' = [wtmp EXCEPT ![w] = routeRev]
  /\ UNCHANGED <<config, pipe, pc, local, inPlace>>

WriteRouteRev(w) ==
  /\ \/ WGoto(w, "writeRouteRev", "idle")
     \/ WGoto(w, "writeRouteRevFirst", "mutateRoute")
  /\ routeRev' = wtmp[w] + 1
  /\ wtmp' = [wtmp EXCEPT ![w] = 0]
  /\ UNCHANGED <<field, revision, size, route, pipe, pc, local, inPlace>>

MutateRoute(w) ==
  /\ WGoto(w, "mutateRoute", "idle")
  /\ \E v \in BOOLEAN : route' = v
  /\ UNCHANGED <<field, revision, size, routeRev, pipe, pc, local, wtmp, inPlace>>
-----------------------------------------------------------------------------
RequestStep(t) ==
  \/ CompareRevision(t) \/ CompareSignature(t) \/ CompareRoute(t)
  \/ CaptureRevision(t) \/ CaptureSignature(t) \/ CaptureRoute(t)
  \/ AskClass(t) \/ PublishChecks(t)
  \/ StampRevision(t) \/ StampSignature(t) \/ StampRoute(t)
  \/ TakeSnapshot(t) \/ Finish(t)

WriterStep(w) ==
  \/ AssignField(w) \/ ReadRevision(w) \/ WriteRevision(w)
  \/ MutateContainer(w)
  \/ AssignRoute(w) \/ BeginRouteInPlace(w)
  \/ ReadRouteRev(w) \/ WriteRouteRev(w) \/ MutateRoute(w)

Next ==
  \/ \E t \in Requests : RequestStep(t)
  \/ \E w \in Writers : WriterStep(w)

Spec == Init /\ [][Next]_vars

\* Requests keep arriving and every thread or task is eventually scheduled. A
\* writer in the middle of a change finishes it; it need not begin another.
Fairness ==
  /\ \A t \in Requests : WF_vars(RequestStep(t))
  /\ \A w \in Writers : WF_vars(wpc[w] # "idle" /\ WriterStep(w))

FairSpec == Spec /\ Fairness
-----------------------------------------------------------------------------
TypeOK ==
  /\ field \in BOOLEAN /\ route \in BOOLEAN
  /\ revision \in Nat /\ routeRev \in Nat
  /\ size \in 0..MaxSize
  /\ checks \in SUBSET Sources
  /\ built \in [revision : Nat, signature : 0..MaxSize, route : Nat]
  /\ lock \in Requests \cup {Nobody}
  /\ pc \in [Requests -> {"idle", "compareSignature", "compareRoute",
       "captureRevision", "captureSignature", "captureRoute", "build",
       "stampRevision", "stampSignature", "stampRoute", "snapshot", "run"}]
  /\ captured \in
       [Requests -> [revision : Nat, signature : 0..MaxSize, route : Nat]]
  /\ todo \in [Requests -> SUBSET Sources]
  /\ kept \in [Requests -> SUBSET Sources]
  /\ wpc \in [Writers -> {"idle", "readRevision", "writeRevision",
       "readRouteRev", "writeRouteRev", "readRouteRevFirst",
       "writeRouteRevFirst", "mutateRoute"}]
  /\ wtmp \in [Writers -> Nat]
  /\ inPlace \in 0..MaxInPlace
  /\ calm \in [Requests -> BOOLEAN]

IsStale ==
  \/ revision # built.revision
  \/ size # built.signature
  \/ routeRev # built.route

\* A check list built from an outdated configuration is never stamped so that
\* _is_stale takes it for a current one: when no change and no publication is
\* in progress, either the stamps differ from the live ones or the published
\* list is the one a build from the live configuration gives.
NoMaskedStaleness ==
  (WriterIdle /\ lock = Nobody /\ ~IsStale) => checks = Fresh

\* A change takes effect on the next request: a request that no configuration
\* change overlapped, from its staleness test to the end of its checks, runs
\* the checks that the live configuration calls for.
NextRequestIsFresh ==
  \A t \in Requests : pc[t] = "run" /\ calm[t] => kept[t] = Fresh

\* Every assignment to SecurityConfig leaves a higher revision than the one in
\* force when it bumps it, so that no earlier stamp can match it.
RevisionAdvances ==
  [][\A w \in Writers :
       wpc[w] = "writeRevision" /\ wpc'[w] = "idle" => revision' > revision]_vars

\* Once the configuration stops changing, the pipeline ends up with the checks
\* it calls for, whatever the rebuilds that were under way publish meanwhile.
EventuallyFresh == <>[](checks = Fresh)
=============================================================================
