---------------------------- MODULE CloudRanges ----------------------------
(***************************************************************************)
(* CloudManager: the provider ranges each worker blocks by, the store they *)
(* are cached in (in-memory, or Redis shared by the workers), the refresh  *)
(* at startup and the background refresh a request schedules.              *)
(*                                                                         *)
(* A worker runs its startup ("boot"), background refreshes and requests   *)
(* as tasks or, in guard_core/sync, as threads. A refresh is split at      *)
(* every step another task or thread can observe; a task is interrupted    *)
(* only where it awaits (ClMay). The ranges of a provider are represented  *)
(* by the time they were fetched, 0 standing for the empty set, the        *)
(* regions of its networks by the fetch they belong to. The clock counts   *)
(* half seconds, since the refresh stamp is truncated to seconds.          *)
(***************************************************************************)
EXTENDS Integers, FiniteSets

CONSTANTS ClWorkers,      \* processes of the deployment
          ClProviders,
          ClRequests,     \* request handlers of a worker
          ClDeployments,  \* see ClDeployment
          ClInterval,     \* cloud_ip_refresh_interval, in half seconds
          ClMaxTime,      \* bound on the clock
          ClMaxStarts     \* bound on the background refreshes of a worker

ASSUME ClAssumption == ClInterval \in Nat \ {0} /\ ClMaxTime \in Nat /\ ClMaxStarts \in Nat

\* What a deployment fixes: tasks or threads; whether Redis is there; lazy_init;
\* whether the adapter's refresh_cloud_ip_ranges also updates the stamp; whether
\* workers are killed and restarted; the workers, providers and requests in use;
\* and the bounds on the background refreshes of a worker and on time.
ClDeployment == [threads: BOOLEAN, redis: BOOLEAN, lazy: BOOLEAN, stamps: BOOLEAN,
                 restarts: BOOLEAN, workers: SUBSET ClWorkers,
                 providers: SUBSET ClProviders, requests: SUBSET ClRequests,
                 starts: 0..ClMaxStarts, until: 0..ClMaxTime]
ASSUME ClDeploymentsAssumption == ClDeployments \subseteq ClDeployment

\* Two background tasks, so that a second one could be started.
ClTasks == {"boot", "first", "second"}
ClBackground == {"first", "second"}
ASSUME ClNamesAssumption == ClRequests \cap ClTasks = {}

VARIABLES
  clDeployment,
  clNow,        \* the clock, in half seconds
  clKind,       \* isinstance(_store): "memory" or "redis"
  clMemory,     \* InMemoryCloudIpStore of each worker: fetch time, expiry
  clRedis,      \* RedisCloudIpStore: the same, shared
  clRanges,     \* ip_ranges: fetch time of what the worker blocks by, or 0
  clRegions,    \* network_regions: fetch time of the regions, or 0
  clFlight,     \* _refresh_in_flight
  clLast,       \* last_cloud_ip_refresh
  clPc,         \* where each task is
  clTodo,       \* the providers it has still to refresh
  clGot,        \* what it holds for the current provider
  clReqPc,      \* where each request is in CloudIpRefreshCheck
  clPrevious,   \* its previous_refresh
  clStarted,    \* history: when the last background refresh was started
  clStamped,    \* history: the latest start or adapter's stamp
  clStarts      \* number of background refreshes started

clStores == <<clKind, clMemory, clRedis>>
clView == <<clRanges, clRegions>>
clGate == <<clFlight, clLast, clStarted, clStamped, clStarts>>
clTask == <<clPc, clTodo, clGot>>
clReq == <<clReqPc, clPrevious>>
clVars == <<clDeployment, clNow, clStores, clView, clGate, clTask, clReq>>

\* Longer ago than any interval: the stamp before the first refresh.
ClNever == -ClInterval - 2
ClNothing == [fetched |-> 0, expires |-> 0]

\* int(time.time()), in half seconds.
ClSeconds == clNow - (clNow % 2)

Workers == clDeployment.workers
Runs(w) == {w} \X ClTasks
ClHandlers(w) == {w} \X clDeployment.requests

\* Where the task k of worker w awaits: HTTP, and the Redis store.
ClAwaiting(k) ==
  clPc[k] \in {"begin", "idle", "fetch"} \/ (clPc[k] \in {"get", "set"} /\ clKind[k[1]] = "redis")

\* The task or request k of w may take its next step.
ClMay(w, k) ==
  \/ clDeployment.threads
  \/ /\ \A j \in Runs(w) \ {k} : ClAwaiting(j)
     /\ \A r \in ClHandlers(w) \ {k} : clReqPc[r] = "idle"

ClAt(k, pc) == clPc[k] = pc /\ ClMay(k[1], k)
ClGoto(k, pc) == clPc' = [clPc EXCEPT ![k] = pc]

ClInit ==
  /\ clDeployment \in ClDeployments
  /\ clNow = 0
  /\ clKind = [w \in Workers |-> "memory"]
  /\ clMemory = [k \in Workers \X clDeployment.providers |-> ClNothing]
  /\ clRedis = [p \in clDeployment.providers |-> ClNothing]
  /\ clRanges = [k \in Workers \X clDeployment.providers |-> 0]
  /\ clRegions = clRanges
  /\ clFlight = [w \in Workers |-> FALSE]
  /\ clLast = [w \in Workers |-> ClNever]
  /\ clPc = [k \in Workers \X ClTasks |-> IF k[2] = "boot" THEN "begin" ELSE "idle"]
  /\ clTodo = [k \in Workers \X ClTasks |-> {}]
  /\ clGot = [k \in Workers \X ClTasks |-> 0]
  /\ clReqPc = [k \in Workers \X clDeployment.requests |-> "idle"]
  /\ clPrevious = [k \in Workers \X clDeployment.requests |-> ClNever]
  /\ clStarted = clLast
  /\ clStamped = clLast
  /\ clStarts = [w \in Workers |-> 0]
-----------------------------------------------------------------------------
(* The stores *)

\* The cached ranges of p, or 0: an entry has expired at its expiry time.
Live(entry) == IF entry.expires > clNow THEN entry.fetched ELSE 0

StoreGet(w, p) ==
  Live(IF clKind[w] = "redis" THEN clRedis[p] ELSE clMemory[<<w, p>>])

StoreSet(w, p, fetched) ==
  LET entry == [fetched |-> fetched, expires |-> clNow + ClInterval]
  IN  IF clKind[w] = "redis"
        THEN /\ clRedis' = [clRedis EXCEPT ![p] = entry] /\ UNCHANGED <<clKind, clMemory>>
        ELSE /\ clMemory' = [clMemory EXCEPT ![<<w, p>>] = entry]
             /\ UNCHANGED <<clKind, clRedis>>
-----------------------------------------------------------------------------
(* A refresh: refresh_async through the store, or refresh without Redis *)

\* The startup of a worker, or a task schedule_refresh has created, begins.
\* initialize_redis puts the Redis store in place of the in-memory one. Without
\* Redis, startup fetches directly, and only unless lazy_init.
Begin(k) ==
  /\ ClAt(k, "begin")
  /\ LET boot == k[2] = "boot"
         direct == boot /\ ~clDeployment.redis
     IN  /\ clKind' = [clKind EXCEPT ![k[1]] = IF boot /\ clDeployment.redis THEN "redis" ELSE @]
         /\ clTodo' = [clTodo EXCEPT ![k] = clDeployment.providers]
         /\ ClGoto(k, IF direct THEN IF clDeployment.lazy THEN "idle" ELSE "fetch" ELSE "get")
  /\ UNCHANGED <<clDeployment, clNow, clMemory, clRedis, clView, clGate, clGot, clReq>>

Direct(k) == k[2] = "boot" /\ ~clDeployment.redis

\* _run_refresh ends, whatever happened: the adapter may have moved the stamp
\* on, and the gate is reopened.
End(k) ==
  IF k[2] = "boot" THEN UNCHANGED clGate
  ELSE /\ clFlight' = [clFlight EXCEPT ![k[1]] = FALSE]
       /\ IF clDeployment.stamps
            THEN /\ clLast' = [clLast EXCEPT ![k[1]] = ClSeconds]
                 /\ clStamped' = [clStamped EXCEPT ![k[1]] = ClSeconds]
            ELSE UNCHANGED <<clLast, clStamped>>
       /\ UNCHANGED <<clStarted, clStarts>>

\* Variant: a refresh whose last provider failed leaves the gate shut.
NextProviderShut(k, p, failed) ==
  /\ clTodo' = [clTodo EXCEPT ![k] = @ \ {p}]
  /\ clGot' = [clGot EXCEPT ![k] = 0]
  /\ IF clTodo[k] = {p} THEN /\ ClGoto(k, "idle")
                             /\ IF failed THEN UNCHANGED clGate ELSE End(k)
                        ELSE /\ ClGoto(k, IF Direct(k) THEN "fetch" ELSE "get")
                             /\ UNCHANGED clGate

\* The loop goes on to the next provider, after a failure too.
NextProvider(k, p, failed) ==
  /\ clTodo' = [clTodo EXCEPT ![k] = @ \ {p}]
  /\ clGot' = [clGot EXCEPT ![k] = 0]
  /\ IF clTodo[k] = {p} THEN ClGoto(k, "idle") /\ End(k)
                        ELSE /\ ClGoto(k, IF Direct(k) THEN "fetch" ELSE "get")
                             /\ UNCHANGED clGate

\* The provider a task is at.
Current(k) == CHOOSE p \in clTodo[k] : TRUE

\* A cached copy is used and nothing fetched; the Redis store may fail.
Get(k) ==
  /\ ClAt(k, "get")
  /\ LET cached == StoreGet(k[1], Current(k))
     IN  \/ /\ clGot' = [clGot EXCEPT ![k] = cached]
            /\ ClGoto(k, IF cached = 0 THEN "fetch" ELSE "ranges")
            /\ UNCHANGED <<clTodo, clGate>>
         \/ /\ clKind[k[1]] = "redis"
            /\ NextProvider(k, Current(k), TRUE)
  /\ UNCHANGED <<clDeployment, clNow, clStores, clView, clReq>>

\* Variant: an empty answer is taken for the ranges.
FetchEmptying(k) ==
  /\ ClAt(k, "fetch")
  /\ \E fetched \in {0, clNow + 1} :
       /\ clGot' = [clGot EXCEPT ![k] = fetched]
       /\ ClGoto(k, IF Direct(k) THEN "ranges" ELSE "set")
  /\ UNCHANGED <<clDeployment, clNow, clStores, clView, clGate, clTodo, clReq>>

\* The provider answers, or the fetch failed: the fetchers catch every exception
\* and return the empty set, upon which everything is left as it is.
Fetch(k) ==
  /\ ClAt(k, "fetch")
  /\ \/ /\ clGot' = [clGot EXCEPT ![k] = clNow + 1]
        /\ ClGoto(k, IF Direct(k) THEN "ranges" ELSE "set")
        /\ UNCHANGED <<clTodo, clGate>>
     \/ NextProvider(k, Current(k), TRUE)
  /\ UNCHANGED <<clDeployment, clNow, clStores, clView, clReq>>

\* The new ranges go to the store before the worker uses them itself; if the
\* Redis store fails, it does not.
Set(k) ==
  /\ ClAt(k, "set")
  /\ \/ /\ StoreSet(k[1], Current(k), clGot[k])
        /\ ClGoto(k, "ranges")
        /\ UNCHANGED <<clTodo, clGot, clGate>>
     \/ /\ clKind[k[1]] = "redis"
        /\ NextProvider(k, Current(k), TRUE)
        /\ UNCHANGED clStores
  /\ UNCHANGED <<clDeployment, clNow, clView, clReq>>

AssignRanges(k) ==
  /\ ClAt(k, "ranges")
  /\ clRanges' = [clRanges EXCEPT ![<<k[1], Current(k)>>] = clGot[k]]
  /\ ClGoto(k, "regions")
  /\ UNCHANGED <<clDeployment, clNow, clStores, clRegions, clGate, clTodo, clGot, clReq>>

AssignRegions(k) ==
  /\ ClAt(k, "regions")
  /\ clRegions' = [clRegions EXCEPT ![<<k[1], Current(k)>>] = clGot[k]]
  /\ NextProvider(k, Current(k), FALSE)
  /\ UNCHANGED <<clDeployment, clNow, clStores, clRanges, clReq>>
-----------------------------------------------------------------------------
(* CloudIpRefreshCheck and schedule_refresh *)

ClReqAt(k, pc) == clReqPc[k] = pc /\ ClMay(k[1], k)
ClReqGoto(k, pc) == clReqPc' = [clReqPc EXCEPT ![k] = pc]

\* A request finds the stamp older than the interval. Without lazy_init no
\* request comes before startup has ended.
Due(k) ==
  /\ ClReqAt(k, "idle") /\ clStarts[k[1]] < clDeployment.starts
  /\ clPc[<<k[1], "boot">>] = "idle" \/ clDeployment.lazy
  /\ clNow - clLast[k[1]] > ClInterval
  /\ ClReqGoto(k, "previous")
  /\ UNCHANGED <<clDeployment, clNow, clStores, clView, clGate, clTask, clPrevious>>

Previous(k) ==
  /\ ClReqAt(k, "previous")
  /\ clPrevious' = [clPrevious EXCEPT ![k] = clLast[k[1]]]
  /\ ClReqGoto(k, "bump")
  /\ UNCHANGED <<clDeployment, clNow, clStores, clView, clGate, clTask>>

\* Variant: the stamp is left to the refresh.
BumpNot(k) ==
  /\ ClReqAt(k, "bump")
  /\ ClReqGoto(k, "schedule")
  /\ UNCHANGED <<clDeployment, clNow, clStores, clView, clGate, clTask, clPrevious>>

Bump(k) ==
  /\ ClReqAt(k, "bump")
  /\ clLast' = [clLast EXCEPT ![k[1]] = ClSeconds]
  /\ ClReqGoto(k, "schedule")
  /\ UNCHANGED <<clDeployment, clNow, clStores, clView, clFlight, clStarted, clStamped,
                 clStarts, clTask, clPrevious>>

\* The task t is created.
Start(k, t) ==
  /\ clPc[<<k[1], t>>] = "idle"
  /\ ClGoto(<<k[1], t>>, "begin")
  /\ clFlight' = [clFlight EXCEPT ![k[1]] = TRUE]
  /\ clStarted' = [clStarted EXCEPT ![k[1]] = clNow]
  /\ clStamped' = [clStamped EXCEPT ![k[1]] = clNow]
  /\ clStarts' = [clStarts EXCEPT ![k[1]] = @ + 1]
  /\ ClReqGoto(k, "idle")
  /\ UNCHANGED clLast

NextSlot(w) == CHOOSE t \in ClBackground : clPc[<<w, t>>] = "idle"

\* Variant: no gate.
ScheduleUngated(k) ==
  /\ ClReqAt(k, "schedule") /\ clStarts[k[1]] < clDeployment.starts
  /\ \E t \in ClBackground : Start(k, t)
  /\ UNCHANGED <<clDeployment, clNow, clStores, clView, clTodo, clGot, clPrevious>>

\* Under the lock: nothing while a refresh is in flight, and nothing if no
\* thread can be started (RuntimeError).
Schedule(k) ==
  /\ ClReqAt(k, "schedule")
  /\ \/ /\ ~clFlight[k[1]] /\ clStarts[k[1]] < clDeployment.starts
        /\ Start(k, NextSlot(k[1]))
     \/ /\ ClReqGoto(k, "restore")
        /\ clFlight[k[1]] \/ clDeployment.threads
        /\ UNCHANGED <<clGate, clPc>>
  /\ UNCHANGED <<clDeployment, clNow, clStores, clView, clTodo, clGot, clPrevious>>

\* Variant: the stamp stays bumped.
RestoreNot(k) ==
  /\ ClReqAt(k, "restore")
  /\ ClReqGoto(k, "idle")
  /\ UNCHANGED <<clDeployment, clNow, clStores, clView, clGate, clTask, clPrevious>>

Restore(k) ==
  /\ ClReqAt(k, "restore")
  /\ clLast' = [clLast EXCEPT ![k[1]] = clPrevious[k]]
  /\ ClReqGoto(k, "idle")
  /\ UNCHANGED <<clDeployment, clNow, clStores, clView, clFlight, clStarted, clStamped,
                 clStarts, clTask, clPrevious>>
-----------------------------------------------------------------------------
\* Time passes; a check of the async tree takes none.
ClTick ==
  /\ clNow < clDeployment.until
  /\ clDeployment.threads \/ \A k \in DOMAIN clReqPc : clReqPc[k] = "idle"
  /\ clNow' = clNow + 1
  /\ UNCHANGED <<clDeployment, clStores, clView, clGate, clTask, clReq>>

\* The worker is killed and started again: only the Redis store survives.
ClRestart(w) ==
  /\ clDeployment.restarts
  /\ clRanges' = [k \in DOMAIN clRanges |-> IF k[1] = w THEN 0 ELSE clRanges[k]]
  /\ clRegions' = [k \in DOMAIN clRegions |-> IF k[1] = w THEN 0 ELSE clRegions[k]]
  /\ clKind' = [clKind EXCEPT ![w] = "memory"]
  /\ clMemory' = [k \in DOMAIN clMemory |-> IF k[1] = w THEN ClNothing ELSE clMemory[k]]
  /\ clFlight' = [clFlight EXCEPT ![w] = FALSE]
  /\ clLast' = [clLast EXCEPT ![w] = ClNever]
  /\ clStarted' = [clStarted EXCEPT ![w] = ClNever]
  /\ clStamped' = [clStamped EXCEPT ![w] = ClNever]
  /\ clPc' = [k \in DOMAIN clPc |-> IF k \notin Runs(w) THEN clPc[k]
                                    ELSE IF k[2] = "boot" THEN "begin" ELSE "idle"]
  /\ clTodo' = [k \in DOMAIN clTodo |-> IF k \in Runs(w) THEN {} ELSE clTodo[k]]
  /\ clGot' = [k \in DOMAIN clGot |-> IF k \in Runs(w) THEN 0 ELSE clGot[k]]
  /\ clReqPc' = [k \in DOMAIN clReqPc |-> IF k[1] = w THEN "idle" ELSE clReqPc[k]]
  /\ clPrevious' = [k \in DOMAIN clPrevious |-> IF k[1] = w THEN ClNever ELSE clPrevious[k]]
  /\ UNCHANGED <<clDeployment, clNow, clRedis, clStarts>>

ClRefresh(k) ==
  Begin(k) \/ Get(k) \/ Fetch(k) \/ Set(k) \/ AssignRanges(k) \/ AssignRegions(k)

ClRequest(k) ==
  Previous(k) \/ Bump(k) \/ Schedule(k) \/ Restore(k)

ClNext ==
  \/ ClTick
  \/ \E w \in Workers :
       \/ ClRestart(w)
       \/ \E k \in Runs(w) : ClRefresh(k)
       \/ \E k \in ClHandlers(w) : Due(k) \/ ClRequest(k)

ClSpec == ClInit /\ [][ClNext]_clVars
-----------------------------------------------------------------------------
(* Properties *)

Refreshing(w) == {t \in ClBackground : clPc[<<w, t>>] # "idle"}

\* "fires the refresh as a single-flight background task": whatever requests
\* overlap, in tasks or threads, a worker has one background refresh at a time.
SingleFlight == \A w \in Workers : Cardinality(Refreshing(w)) <= 1

\* In the async tree requests do not stampede: a worker starts its background
\* refreshes an interval apart, up to the second the stamp is truncated by.
SpacedStarts ==
  [][\A w \in Workers :
       ~clDeployment.threads /\ clStarts'[w] > clStarts[w]
         => clNow - clStarted[w] > ClInterval - 1]_clVars

\* In the async tree a request that could not schedule a refresh postpones
\* nothing: the stamp is never later than the last start (or adapter's stamp).
FailedScheduleCostsNothing ==
  ~clDeployment.threads =>
    \A w \in Workers :
      (\A k \in ClHandlers(w) : clReqPc[k] = "idle") => clLast[w] <= clStamped[w]

\* The stamp that paces the refreshes is honest in both directions: it neither
\* lets a refresh start early nor counts one that did not start.
RefreshesOnSchedule == SpacedStarts /\ []FailedScheduleCostsNothing

\* A worker that has ranges keeps some until it dies: a failed fetch, an
\* expired store or a failing Redis never empties them.
RangesKept ==
  [][\A k \in DOMAIN clRanges :
       clRanges[k] # 0 /\ clRanges'[k] = 0 => clPc'[<<k[1], "boot">>] = "begin"]_clVars

\* The gate is shut only while a background refresh is under way: however that
\* ends, the next request that is due can start another.
GateReopened == \A w \in Workers : clFlight[w] => Refreshing(w) # {}

\* The gate of schedule_refresh and the background refresh belong together.
GateFollowsRefresh == SingleFlight /\ GateReopened
=============================================================================
