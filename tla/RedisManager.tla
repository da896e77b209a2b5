---------------------------- MODULE RedisManager ----------------------------
(***************************************************************************)
(* RedisManager: the one Redis client all handlers of a process share, its *)
(* creation, replacement and closing while operations use it.              *)
(*                                                                         *)
(* A process is a task (or, in guard_core/sync, a thread) inside one call: *)
(* safe_operation, initialize or close. A call is split where it awaits:   *)
(* the connection lock, PING, aclose, the agent's send_event, the Redis    *)
(* command. Threads interleave at every step; tasks only at these awaits   *)
(* (RmAwaits). The agent is taken to be attached: without one the events'  *)
(* awaits disappear, which only removes interleavings.                     *)
(***************************************************************************)
EXTENDS Integers, FiniteSets

CONSTANTS RmProcs,     \* concurrent callers
          RmClients,   \* clients Redis.from_url may create
          RmModes,     \* "tasks" (async tree), "threads" (sync tree)
          RmMaxCalls   \* bound on the number of calls made

ASSUME RmAssumption ==
  /\ RmModes \subseteq {"tasks", "threads"}
  /\ RmMaxCalls \in Nat

RmNone == "none"
ASSUME RmNoneAssumption == RmNone \notin RmProcs /\ RmNone \notin RmClients

VARIABLES
  rmMode,    \* tasks or threads; chosen once
  rmConfig,  \* enable_redis, and whether redis_url is set
  rmClient,  \* RedisManager._redis, or RmNone
  rmClosed,  \* RedisManager._closed
  rmLock,    \* holder of _connection_lock, or RmNone
  rmLife,    \* each client: unborn, trial (not yet pinged), serving, leaving
             \* (given up, aclose under way) or retired (aclose has returned)
  rmPc,      \* where each caller is
  rmCall,    \* the call it is in: op (safe_operation), init or close
  rmSeen,    \* the configuration its initialize captured
  rmHeld,    \* the client in its local variables, or RmNone
  rmCalls    \* number of calls made

rmVars == <<rmMode, rmConfig, rmClient, rmClosed, rmLock, rmLife, rmPc, rmCall,
            rmSeen, rmHeld, rmCalls>>
rmFixed == <<rmMode, rmConfig, rmCalls>>
rmCaller == <<rmCall, rmSeen>>

RmConfigs == [enabled: BOOLEAN, url: BOOLEAN]
RmStart == [enabled |-> TRUE, url |-> TRUE]

\* Where a call awaits, so that another task may run.
RmAwaits == {"idle", "lock", "discarding", "ping", "established", "failed",
             "dropping", "using", "raise", "closing"}
RmSteps == {"start", "closed?", "client?", "initialize", "acquire", "create",
            "yield", "discard?", "flag", "swap", "unset"}

\* p may take its next step: in the async tree no other task is between two
\* awaits.
RmMay(p) ==
  rmMode = "tasks" => \A q \in RmProcs \ {p} : rmPc[q] \in RmAwaits

At(p, pc) == rmPc[p] = pc /\ RmMay(p)

\* p goes to pc, holding client.
RmGoto(p, pc, client) ==
  /\ rmPc' = [rmPc EXCEPT ![p] = pc]
  /\ rmHeld' = [rmHeld EXCEPT ![p] = client]

RmInit ==
  /\ rmMode \in RmModes
  /\ rmConfig = RmStart
  /\ rmClient = RmNone
  /\ rmClosed = FALSE
  /\ rmLock = RmNone
  /\ rmLife = [c \in RmClients |-> "unborn"]
  /\ rmPc = [p \in RmProcs |-> "idle"]
  /\ rmCall = [p \in RmProcs |-> "op"]
  /\ rmSeen = [p \in RmProcs |-> RmStart]
  /\ rmHeld = [p \in RmProcs |-> RmNone]
  /\ rmCalls = 0

\* RedisManager(config): the singleton takes the new configuration and is open.
Construct(p, config) ==
  /\ At(p, "idle") /\ rmCalls < RmMaxCalls
  /\ rmCalls' = rmCalls + 1
  /\ rmConfig' = config
  /\ rmClosed' = FALSE
  /\ UNCHANGED <<rmMode, rmClient, rmLock, rmLife, rmPc, rmCall, rmSeen, rmHeld>>

\* A caller enters safe_operation (through get_key, set_key, incr, ...),
\* initialize or close.
Enter(p, call) ==
  /\ At(p, "idle") /\ rmCalls < RmMaxCalls
  /\ rmCalls' = rmCalls + 1
  /\ rmCall' = [rmCall EXCEPT ![p] = call]
  /\ RmGoto(p, CASE call = "op" -> "start" [] call = "init" -> "initialize"
               [] call = "close" -> "discard?", RmNone)
  /\ UNCHANGED <<rmMode, rmConfig, rmClient, rmClosed, rmLock, rmLife, rmSeen>>
-----------------------------------------------------------------------------
(* safe_operation and get_connection *)

\* With enable_redis off every operation returns None.
Operate(p) ==
  /\ At(p, "start")
  /\ RmGoto(p, IF rmConfig.enabled THEN "closed?" ELSE "idle", RmNone)
  /\ UNCHANGED <<rmFixed, rmCaller, rmClient, rmClosed, rmLock, rmLife>>

\* Variant: the closed flag is not consulted.
CheckClosedNot(p) ==
  /\ At(p, "closed?")
  /\ RmGoto(p, "client?", RmNone)
  /\ UNCHANGED <<rmFixed, rmCaller, rmClient, rmClosed, rmLock, rmLife>>

CheckClosed(p) ==
  /\ At(p, "closed?")
  /\ RmGoto(p, IF rmClosed THEN "raise" ELSE "client?", RmNone)
  /\ UNCHANGED <<rmFixed, rmCaller, rmClient, rmClosed, rmLock, rmLife>>

CheckClient(p) ==
  /\ At(p, "client?")
  /\ RmGoto(p, IF rmClient = RmNone THEN "initialize" ELSE "yield", RmNone)
  /\ UNCHANGED <<rmFixed, rmCaller, rmClient, rmClosed, rmLock, rmLife>>

\* The client is read again after initialize; None raises.
Yield(p) ==
  /\ At(p, "yield")
  /\ RmGoto(p, IF rmClient = RmNone THEN "raise" ELSE "using", rmClient)
  /\ UNCHANGED <<rmFixed, rmCaller, rmClient, rmClosed, rmLock, rmLife>>

\* The command is answered, or raises what safe_operation turns into
\* GuardRedisError after an event.
Command(p) ==
  /\ At(p, "using")
  /\ \E pc \in {"idle", "raise"} : RmGoto(p, pc, RmNone)
  /\ UNCHANGED <<rmFixed, rmCaller, rmClient, rmClosed, rmLock, rmLife>>

Raise(p) ==
  /\ At(p, "raise")
  /\ RmGoto(p, "idle", RmNone)
  /\ UNCHANGED <<rmFixed, rmCaller, rmClient, rmClosed, rmLock, rmLife>>
-----------------------------------------------------------------------------
(* initialize *)

\* initialize returns, or raises GuardRedisError, to its caller.
Leave(p, raising) ==
  RmGoto(p, CASE rmCall[p] = "init" -> "idle" [] raising -> "raise"
            [] OTHER -> "yield", RmNone)

\* The configuration is captured once. Enabled, initialize reopens the manager
\* before it asks for the lock, for which it awaits only if that is not free.
Initialize(p) ==
  /\ At(p, "initialize")
  /\ rmSeen' = [rmSeen EXCEPT ![p] = rmConfig]
  /\ RmGoto(p, IF rmLock = RmNone /\ \A q \in RmProcs : rmPc[q] # "lock"
               THEN "acquire" ELSE "lock", RmNone)
  /\ rmClosed' = (rmClosed /\ ~rmConfig.enabled)
  /\ UNCHANGED <<rmMode, rmConfig, rmClient, rmLock, rmLife, rmCall, rmCalls>>

\* _discard_client: the client, if there is one, is taken away, to be closed.
\* A thread reads it and clears the attribute in two steps.
DiscardClient(p, none, awaiting, swapping) ==
  \/ /\ rmMode = "tasks" \/ rmClient = RmNone
     /\ RmGoto(p, IF rmClient = RmNone THEN none ELSE awaiting, rmClient)
     /\ rmClient' = RmNone
     /\ rmLife' = [c \in RmClients |-> IF c = rmClient THEN "leaving" ELSE rmLife[c]]
  \/ /\ rmMode = "threads" /\ rmClient # RmNone
     /\ RmGoto(p, swapping, rmClient)
     /\ UNCHANGED <<rmClient, rmLife>>

\* The second step of a thread: whatever client is there by now is cleared.
SwapClient(p) ==
  /\ At(p, "swap") \/ At(p, "unset")
  /\ rmClient' = RmNone
  /\ rmLife' = [c \in RmClients |->
                 IF c = rmHeld[p] /\ rmLife[c] = "serving" THEN "leaving" ELSE rmLife[c]]
  /\ RmGoto(p, IF rmPc[p] = "swap" THEN "discarding" ELSE "closing", rmHeld[p])
  /\ UNCHANGED <<rmFixed, rmCaller, rmClosed, rmLock>>

\* Variant: the lock does not exclude.
AcquireAlways(p) ==
  /\ At(p, "acquire") \/ At(p, "lock")
  /\ rmLock' = p
  /\ DiscardClient(p, "create", "discarding", "swap")
  /\ UNCHANGED <<rmFixed, rmCaller, rmClosed>>

\* The lock, then _discard_client.
Acquire(p) ==
  /\ At(p, "acquire") \/ At(p, "lock")
  /\ rmLock = RmNone
  /\ rmLock' = p
  /\ DiscardClient(p, "create", "discarding", "swap")
  /\ UNCHANGED <<rmFixed, rmCaller, rmClosed>>

\* p's aclose returns; its failure is only logged (_safe_aclose).
Closed(p) ==
  rmLife' = [rmLife EXCEPT ![rmHeld[p]] = "retired"]

Discarded(p) ==
  /\ At(p, "discarding")
  /\ Closed(p)
  /\ RmGoto(p, "create", RmNone)
  /\ UNCHANGED <<rmFixed, rmCaller, rmClient, rmClosed, rmLock>>

\* Redis.from_url, unless Redis is disabled or there is no URL.
Create(p) ==
  /\ At(p, "create")
  /\ \/ /\ ~(rmSeen[p].enabled /\ rmSeen[p].url)
        /\ rmLock' = RmNone
        /\ Leave(p, FALSE)
        /\ UNCHANGED rmLife
     \/ /\ rmSeen[p].enabled /\ rmSeen[p].url
        /\ LET fresh == {d \in RmClients : rmLife[d] = "unborn"}
               c == CHOOSE d \in fresh : TRUE
           IN  /\ fresh # {}
               /\ rmLife' = [rmLife EXCEPT ![c] = "trial"]
               /\ RmGoto(p, "ping", c)
        /\ UNCHANGED rmLock
  /\ UNCHANGED <<rmFixed, rmCaller, rmClient, rmClosed>>

\* PING succeeds and the client is published, or raises.
Ping(p) ==
  /\ At(p, "ping")
  /\ \/ /\ rmClient' = rmHeld[p]
        /\ rmLife' = [rmLife EXCEPT ![rmHeld[p]] = "serving"]
        /\ RmGoto(p, "established", RmNone)
     \/ /\ RmGoto(p, "failed", rmHeld[p])
        /\ UNCHANGED <<rmClient, rmLife>>
  /\ UNCHANGED <<rmFixed, rmCaller, rmClosed, rmLock>>

\* The event is sent under the lock.
Established(p) ==
  /\ At(p, "established")
  /\ rmLock' = RmNone
  /\ Leave(p, FALSE)
  /\ UNCHANGED <<rmFixed, rmCaller, rmClient, rmClosed, rmLife>>

\* The event is sent, still under the lock, before the new client is closed.
Failed(p) ==
  /\ At(p, "failed")
  /\ rmLife' = [rmLife EXCEPT ![rmHeld[p]] = "leaving"]
  /\ RmGoto(p, "dropping", rmHeld[p])
  /\ UNCHANGED <<rmFixed, rmCaller, rmClient, rmClosed, rmLock>>

\* Variant: the failure keeps the lock.
DroppedKeepsLock(p) ==
  /\ At(p, "dropping")
  /\ Closed(p)
  /\ rmClient' = RmNone
  /\ Leave(p, TRUE)
  /\ UNCHANGED <<rmFixed, rmCaller, rmClosed, rmLock>>

\* _redis is reset and GuardRedisError raised.
Dropped(p) ==
  /\ At(p, "dropping")
  /\ Closed(p)
  /\ rmClient' = RmNone
  /\ rmLock' = RmNone
  /\ Leave(p, TRUE)
  /\ UNCHANGED <<rmFixed, rmCaller, rmClosed>>
-----------------------------------------------------------------------------
(* close *)

\* _discard_client without the lock.
CloseDiscard(p) ==
  /\ At(p, "discard?")
  /\ DiscardClient(p, "flag", "closing", "unset")
  /\ UNCHANGED <<rmFixed, rmCaller, rmClosed, rmLock>>

\* aclose and the event.
CloseAwait(p) ==
  /\ At(p, "closing")
  /\ Closed(p)
  /\ RmGoto(p, "flag", RmNone)
  /\ UNCHANGED <<rmFixed, rmCaller, rmClient, rmClosed, rmLock>>

CloseFlag(p) ==
  /\ At(p, "flag")
  /\ rmClosed' = TRUE
  /\ RmGoto(p, "idle", RmNone)
  /\ UNCHANGED <<rmFixed, rmCaller, rmClient, rmLock, rmLife>>
-----------------------------------------------------------------------------
RmStep(p) ==
  \/ Operate(p) \/ CheckClosed(p) \/ CheckClient(p) \/ Yield(p) \/ Command(p)
  \/ Raise(p)
  \/ Initialize(p) \/ Acquire(p) \/ SwapClient(p) \/ Discarded(p) \/ Create(p) \/ Ping(p)
  \/ Established(p) \/ Failed(p) \/ Dropped(p)
  \/ CloseDiscard(p) \/ CloseAwait(p) \/ CloseFlag(p)

RmNext ==
  \E p \in RmProcs :
    \/ \E config \in RmConfigs : Construct(p, config)
    \/ \E call \in {"op", "init", "close"} : Enter(p, call)
    \/ RmStep(p)

RmSpec == RmInit /\ [][RmNext]_rmVars
-----------------------------------------------------------------------------
(* Properties *)

\* A client that has been created and not yet closed is the manager's, or in the
\* hands of the one call that is going to publish or close it.
AllKept ==
  \A c \in RmClients :
    /\ rmLife[c] = "serving" => rmClient = c
    /\ rmLife[c] = "trial" => \E p \in RmProcs :
         rmLock = p /\ rmHeld[p] = c /\ rmPc[p] \in {"ping", "failed"}
    /\ rmLife[c] = "leaving" => \E p \in RmProcs :
         rmHeld[p] = c /\ rmPc[p] \in {"discarding", "dropping", "closing"}

\* The manager's client is never one that has been given up, and in the async
\* tree no client is lost, whatever initialize, close and operations overlap.
\* (In threads close() may clear a client other than the one it read.)
NoLostClient ==
  /\ rmClient # RmNone => rmLife[rmClient] = "serving"
  /\ rmMode = "tasks" => AllKept

\* In the async tree the clients' history is the abstract one: no new client is
\* created while another is on trial or serving.
Lifecycle == INSTANCE ClientLifecycle WITH
  Clients <- RmClients,
  life <- [c \in RmClients |->
            IF rmMode = "threads" THEN "unborn"
            ELSE IF rmLife[c] = "leaving" THEN "retired" ELSE rmLife[c]]

OneClientAtATime == Lifecycle!Spec

\* In the async tree close() is undone only on request: by RedisManager(config)
\* or by a call of initialize(), never by an operation that was under way.
ReopenedOnlyOnRequest ==
  [][rmMode = "tasks" /\ rmClosed /\ ~rmClosed' =>
       \/ rmPc' = rmPc
       \/ \E p \in RmProcs : rmCall[p] = "init" /\ rmPc[p] = "initialize"]_rmVars

\* No standstill: while some call is under way one of them can go on, so nobody
\* waits for a connection lock that a call has kept, also if PING, the agent or
\* aclose failed on the way. (Redis answers or times out.)
NoStandstill ==
  (\E p \in RmProcs : rmPc[p] # "idle") => \E p \in RmProcs : ENABLED RmStep(p)
=============================================================================
