----------------------------- MODULE RegexPool -----------------------------
(***************************************************************************)
(* The shared pool of threads that runs custom patterns under a timeout    *)
(* (src/guard_core/detection_engine/compiler.py), as the threads that scan *)
(* requests use it: safe_finditer of a custom pattern runs in a thread of  *)
(* its own (asyncio.to_thread), so the scanners interleave everywhere.     *)
(*                                                                         *)
(* A scan obtains the pool, submits a job, waits for it with a timeout and *)
(* reports how it went.  A slow job is one that does not end within the    *)
(* timeout: it keeps its worker after its scan has given up, perhaps for   *)
(* ever.  As many consecutive timeouts as the pool has workers replace the *)
(* pool.  Pools are numbered in the order they are created; 0 is None.     *)
(***************************************************************************)
EXTENDS Integers, FiniteSets

CONSTANTS RxScans,    \* the threads that scan
          RxWorkers,  \* _SHARED_EXECUTOR_MAX_WORKERS
          RxMaxSlow   \* bound: the slow jobs submitted

ASSUME RxAssumption == /\ RxWorkers \in Nat \ {0}
                       /\ RxMaxSlow \in Nat

VARIABLES executor,    \* _shared_executor
          created,     \* the pools created so far are 1..created
          shut,        \* the pools that have been shut down
          timeouts,    \* _consecutive_timeouts
          orphans,     \* per pool, the workers kept by jobs nobody waits for
          rxAt, pool, job, slow,   \* of each scan
          slowUsed     \* counts the slow jobs (bound)

rxVars == <<executor, created, shut, timeouts, orphans, rxAt, pool, job, slow,
            slowUsed>>

RxMaxPools == 1 + RxMaxSlow + Cardinality(RxScans)

RxInit == /\ executor = 0 /\ created = 0 /\ shut = {} /\ timeouts = 0
          /\ orphans = [p \in 1..RxMaxPools |-> 0]
          /\ rxAt = [s \in RxScans |-> "idle"]
          /\ pool = [s \in RxScans |-> 0]
          /\ job = [s \in RxScans |-> "none"]
          /\ slow = [s \in RxScans |-> FALSE]
          /\ slowUsed = 0

RxGoto(s, label) == rxAt' = [rxAt EXCEPT ![s] = label]

----------------------------------------------------------------------------
(* shared_regex_executor: the unlocked check, the creation under the lock  *)
(* after a second check.  The global it returns is never None again, so    *)
(* the read of it is one with the step before.                             *)

SharedRegexExecutor(s) ==
    /\ rxAt[s] = "idle"
    /\ IF executor = 0
       THEN RxGoto(s, "lock") /\ UNCHANGED pool
       ELSE RxGoto(s, "submit") /\ pool' = [pool EXCEPT ![s] = executor]
    /\ UNCHANGED <<executor, created, shut, timeouts, orphans, job, slow,
                   slowUsed>>

\* Variant: the first check is trusted and not repeated under the lock.
CreateUnchecked(s) ==
    /\ rxAt[s] = "lock"
    /\ created' = created + 1 /\ executor' = created + 1
    /\ pool' = [pool EXCEPT ![s] = executor']
    /\ RxGoto(s, "submit")
    /\ UNCHANGED <<shut, timeouts, orphans, job, slow, slowUsed>>

CreateExecutor(s) ==
    /\ rxAt[s] = "lock"
    /\ IF executor = 0
       THEN created' = created + 1 /\ executor' = created + 1
       ELSE UNCHANGED <<created, executor>>
    /\ pool' = [pool EXCEPT ![s] = executor']
    /\ RxGoto(s, "submit")
    /\ UNCHANGED <<shut, timeouts, orphans, job, slow, slowUsed>>

----------------------------------------------------------------------------
(* The executor of the standard library: submit refuses after shutdown, a  *)
(* job waits in the queue for a worker, shutdown(wait=False) lets queued   *)
(* and running jobs go on.                                                 *)

\* submit raises RuntimeError outside safe_finditer's try: the scan ends here.
Submit(s) ==
    /\ rxAt[s] = "submit"
    /\ IF pool[s] \in shut
       THEN /\ RxGoto(s, "idle")
            /\ pool' = [pool EXCEPT ![s] = 0]
            /\ UNCHANGED <<job, slow, slowUsed>>
       ELSE /\ RxGoto(s, "wait")
            /\ job' = [job EXCEPT ![s] = "queued"]
            /\ \E b \in IF slowUsed < RxMaxSlow THEN BOOLEAN ELSE {FALSE} :
                   /\ slow' = [slow EXCEPT ![s] = b]
                   /\ slowUsed' = IF b THEN slowUsed + 1 ELSE slowUsed
            /\ UNCHANGED pool
    /\ UNCHANGED <<executor, created, shut, timeouts, orphans>>

OnPool(p) == {s \in RxScans : pool[s] = p /\ job[s] = "running"}
Busy(p) == orphans[p] + Cardinality(OnPool(p))
Stuck(p) == orphans[p] + Cardinality({s \in OnPool(p) : slow[s]})

RunJob(s) ==
    /\ job[s] = "queued" /\ Busy(pool[s]) < RxWorkers
    /\ job' = [job EXCEPT ![s] = "running"]
    /\ UNCHANGED <<executor, created, shut, timeouts, orphans, rxAt, pool, slow,
                   slowUsed>>

\* A job nobody waits for ends after all and gives its worker back.
FinishLate(p) ==
    /\ orphans[p] > 0
    /\ orphans' = [orphans EXCEPT ![p] = @ - 1]
    /\ UNCHANGED <<executor, created, shut, timeouts, rxAt, pool, job, slow,
                   slowUsed>>

----------------------------------------------------------------------------
(* safe_finditer: the result, or the timeout of a job that is slow or that *)
(* waits behind slow ones; future.cancel takes back a queued job only.     *)

Result(s) ==
    /\ rxAt[s] = "wait" /\ job[s] = "running" /\ ~slow[s]
    /\ job' = [job EXCEPT ![s] = "none"]
    /\ RxGoto(s, "success")
    /\ UNCHANGED <<executor, created, shut, timeouts, orphans, pool, slow,
                   slowUsed>>

\* Variant: the time counts from when the job gets a worker.
TimedOutRunning(s) ==
    /\ rxAt[s] = "wait" /\ job[s] = "running" /\ slow[s]
    /\ job' = [job EXCEPT ![s] = "none"]
    /\ slow' = [slow EXCEPT ![s] = FALSE]
    /\ orphans' = [orphans EXCEPT ![pool[s]] = @ + 1]
    /\ RxGoto(s, "timeout")
    /\ UNCHANGED <<executor, created, shut, timeouts, pool, slowUsed>>

TimedOut(s) ==
    /\ rxAt[s] = "wait"
    /\ \/ job[s] = "running" /\ slow[s]
       \/ job[s] = "queued" /\ Stuck(pool[s]) >= RxWorkers
    /\ job' = [job EXCEPT ![s] = "none"]
    /\ slow' = [slow EXCEPT ![s] = FALSE]
    /\ orphans' = IF job[s] = "running"
                  THEN [orphans EXCEPT ![pool[s]] = @ + 1] ELSE orphans
    /\ RxGoto(s, "timeout")
    /\ UNCHANGED <<executor, created, shut, timeouts, pool, slowUsed>>

----------------------------------------------------------------------------
(* report_scan_success looks at the counter before it takes the lock.      *)

ReportScanSuccess(s) ==
    /\ rxAt[s] = "success"
    /\ pool' = [pool EXCEPT ![s] = IF timeouts = 0 THEN 0 ELSE @]
    /\ RxGoto(s, IF timeouts = 0 THEN "idle" ELSE "reset")
    /\ UNCHANGED <<executor, created, shut, timeouts, orphans, job, slow,
                   slowUsed>>

ResetTimeouts(s) ==
    /\ rxAt[s] = "reset"
    /\ timeouts' = 0
    /\ pool' = [pool EXCEPT ![s] = 0]
    /\ RxGoto(s, "idle")
    /\ UNCHANGED <<executor, created, shut, orphans, job, slow, slowUsed>>

\* Variant: the pool is shut down before the new one takes its place.
ReportScanTimeoutShutFirst(s) ==
    /\ rxAt[s] = "timeout"
    /\ IF timeouts + 1 < RxWorkers
       THEN /\ timeouts' = timeouts + 1
            /\ pool' = [pool EXCEPT ![s] = 0]
            /\ RxGoto(s, "idle")
            /\ UNCHANGED <<executor, created, shut>>
       ELSE IF executor \notin shut
       THEN /\ shut' = shut \cup {executor}
            /\ UNCHANGED <<executor, created, timeouts, pool, rxAt>>
       ELSE /\ timeouts' = 0
            /\ pool' = [pool EXCEPT ![s] = executor]
            /\ created' = created + 1 /\ executor' = created + 1
            /\ RxGoto(s, "shutdown")
            /\ UNCHANGED shut
    /\ UNCHANGED <<orphans, job, slow, slowUsed>>

\* Variant: a timeout on a pool with no worker left starts the count anew.
ReportScanTimeoutOwnPool(s) ==
    /\ rxAt[s] = "timeout"
    /\ IF timeouts + 1 < RxWorkers
       THEN /\ timeouts' = IF Stuck(executor) >= RxWorkers THEN 0 ELSE timeouts + 1
            /\ pool' = [pool EXCEPT ![s] = 0]
            /\ RxGoto(s, "idle")
            /\ UNCHANGED <<executor, created>>
       ELSE /\ timeouts' = 0
            /\ pool' = [pool EXCEPT ![s] = executor]
            /\ created' = created + 1 /\ executor' = created + 1
            /\ RxGoto(s, "shutdown")
    /\ UNCHANGED <<shut, orphans, job, slow, slowUsed>>

\* report_scan_timeout under _timeout_lock and _executor_lock; pool[s] then
\* holds stale_executor.
ReportScanTimeout(s) ==
    /\ rxAt[s] = "timeout"
    /\ IF timeouts + 1 < RxWorkers
       THEN /\ timeouts' = timeouts + 1
            /\ pool' = [pool EXCEPT ![s] = 0]
            /\ RxGoto(s, "idle")
            /\ UNCHANGED <<executor, created>>
       ELSE /\ timeouts' = 0
            /\ pool' = [pool EXCEPT ![s] = executor]
            /\ created' = created + 1 /\ executor' = created + 1
            /\ RxGoto(s, "shutdown")
    /\ UNCHANGED <<shut, orphans, job, slow, slowUsed>>

ShutDownStale(s) ==
    /\ rxAt[s] = "shutdown"
    /\ shut' = shut \cup {pool[s]}
    /\ pool' = [pool EXCEPT ![s] = 0]
    /\ RxGoto(s, "idle")
    /\ UNCHANGED <<executor, created, timeouts, orphans, job, slow, slowUsed>>

----------------------------------------------------------------------------

RxStep(s) ==
    \/ SharedRegexExecutor(s) \/ CreateExecutor(s) \/ Submit(s)
    \/ Result(s) \/ TimedOut(s) \/ ReportScanSuccess(s) \/ ResetTimeouts(s)
    \/ ReportScanTimeout(s) \/ ShutDownStale(s)

RxNext == \/ \E s \in RxScans : RxStep(s) \/ RunJob(s)
          \/ \E p \in 1..created : FinishLate(p)

\* Threads that can run do run, the queue of a pool is first in first out, and
\* requests keep coming (SharedRegexExecutor).  A job nobody waits for need
\* never end.
RxFairness == \A s \in RxScans : WF_rxVars(RxStep(s)) /\ SF_rxVars(RunJob(s))

RxSpec == RxInit /\ [][RxNext]_rxVars /\ RxFairness

----------------------------------------------------------------------------

\* Every pool ever created is the current one, has been shut down, or is about
\* to be shut down by the scan that replaced it: neither the first use by
\* several threads nor overlapping replacements lose a pool with its threads.
NoPoolLost ==
    \A p \in 1..created : \/ p = executor
                          \/ p \in shut
                          \/ \E s \in RxScans : rxAt[s] = "shutdown" /\ pool[s] = p

\* shared_regex_executor never hands out a pool that is already shut down: a
\* scan can meet "cannot schedule new futures" only when the replacement falls
\* between its own two steps.
NoDeadPoolReturned ==
    [][\A s \in RxScans : rxAt[s] # "submit" /\ rxAt'[s] = "submit"
                              => pool'[s] \notin shut]_rxVars

\* A pool is handed out, then replaced, then shut down, in this order.
PoolLifecycle == []NoPoolLost /\ NoDeadPoolReturned

\* The current pool does not stay wedged: while requests keep coming, a pool all
\* of whose workers are held by slow jobs is replaced, or a worker comes back,
\* also if those jobs never end.
WedgeEnds == []<>(executor = 0 \/ Stuck(executor) < RxWorkers)

\* Every scan ends, whatever the patterns of the other scans do.
ScansEnd == \A s \in RxScans : rxAt[s] # "idle" ~> rxAt[s] = "idle"

\* Slow patterns hold up nobody for good, neither the pool nor another scan.
SlowPatternsHoldNobody == WedgeEnds /\ ScansEnd
============================================================================
