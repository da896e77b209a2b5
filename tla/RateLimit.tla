----------------------------- MODULE RateLimit -----------------------------
(***************************************************************************)
(* RateLimitCheck over RateLimitManager: a request passes the tiers that   *)
(* apply to it (endpoint, route, geo, global) in order, and each tier      *)
(* counts the request in a sliding window before comparing it with its     *)
(* limit.  The count is kept in a Redis sorted set shared by all           *)
(* processes, or in the process's own deques when there is no Redis or     *)
(* Redis fails and redis_fail_open is set.                                 *)
(*                                                                         *)
(* Counters are the counting ends: the RateLimitManager of a process, or   *)
(* the store of check_rate_limit_by_ip, which never holds a script SHA.    *)
(* Time is counted in ticks much coarser than the clock's resolution: two  *)
(* readings in one tick differ unless Coarse says that they may coincide.  *)
(***************************************************************************)
EXTENDS Integers, FiniteSets, Sequences

CONSTANTS
    None,
    MaxReqs,     \* bound on the requests of a behaviour
    Clients, Counters,
    Deployments, \* configurations and environments, one of which a behaviour has
    MaxLatency,  \* ticks between reading the clock and being counted
    MaxKeys,     \* _MAX_TRACKED_RATE_LIMIT_KEYS
    MaxTime

ASSUME ConstantsAssumption ==
    /\ MaxReqs \in Nat /\ MaxLatency \in Nat /\ MaxKeys \in Nat \ {0} /\ MaxTime \in Nat
    /\ None \notin Clients \cup Counters \cup {"redis", "allow", "block", "error"}
    /\ "redis" \notin Counters

\* A request passes at least the global tier, and windows are not empty.
ASSUME DeploymentsAssumption ==
    \A d \in Deployments :
        /\ d.clients \subseteq Clients /\ d.counters \subseteq Counters
        /\ DOMAIN d.tiers = 1..Len(d.tiers) /\ Len(d.tiers) \in Nat \ {0}
        /\ \A i \in 1..Len(d.tiers) : d.tiers[i].limit \in Nat /\ d.tiers[i].window \in Nat \ {0}

VARIABLES
    dep,         \* the deployment; chosen once
    now,
    req,         \* each request: where it is, and its history
    zset, ttl,   \* the sorted set of each key and when the key expires
    scripts,     \* the script is in Redis's script cache
    mem,         \* request_timestamps: <<[key, stamps], ...>>, oldest key first
    evicted      \* history: keys a counter has dropped to make room

vars == <<dep, now, req, zset, ttl, scripts, mem, evicted>>

\* What a deployment fixes.
Tiers == dep.tiers         \* <<[bucket, limit, window], ...>> that apply to a request
UseRedis == dep.redis      \* enable_redis, and a manager that was initialised
FailOpen == dep.failOpen   \* redis_fail_open
HasSha == dep.sha          \* counters whose script_load succeeded at start-up
Faults == dep.faults       \* subset of {"redis", "flush"}
Coarse == dep.coarse       \* two clock readings may be the same float

TierIndex == 1..Len(Tiers)
Reqs == 1..MaxReqs          \* requests, numbered as they arrive
Keys == Clients \X {Tiers[i].bucket : i \in TierIndex}
Backends == Counters \cup {"redis"}

Fresh == [pc |-> "new", client |-> None, counter |-> None, tier |-> 0,
          ts |-> [i \in TierIndex |-> 0], via |-> [i \in TierIndex |-> None],
          verdict |-> None]

Init ==
    /\ dep \in Deployments
    /\ now = 1
    /\ req = [r \in Reqs |-> Fresh]
    /\ zset = [k \in Keys |-> {}] /\ ttl = [k \in Keys |-> 0]
    /\ scripts = (HasSha # {})
    /\ mem = [c \in Counters |-> <<>>]
    /\ evicted = [c \in Counters |-> {}]

Tier(r) == Tiers[req[r].tier]
Stamp(r) == req[r].ts[req[r].tier]

(***************************************************************************)
(* The tiers of one request.  Each reads the clock for itself.             *)
(***************************************************************************)
Entered(q, i) ==
    [q EXCEPT !.tier = i, !.ts[i] = now,
              !.pc = IF UseRedis THEN "redis" ELSE "memory"]

Arrive(r) ==
    /\ req[r].pc = "new"
    /\ r <= dep.load /\ (r > 1 => req[r - 1].pc # "new")
    /\ \E k \in dep.clients, c \in dep.counters :
        req' = [req EXCEPT ![r] = Entered([@ EXCEPT !.client = k, !.counter = c], 1)]
    /\ UNCHANGED <<dep, now, zset, ttl, scripts, mem, evicted>>

\* Every tier under its limit lets the request go on to the next.
Decided(r, backend, exceeded) ==
    LET q == [req[r] EXCEPT !.via[req[r].tier] = backend]
    IN  IF exceeded THEN [q EXCEPT !.pc = "done", !.verdict = "block"]
        ELSE IF q.tier = Len(Tiers) THEN [q EXCEPT !.pc = "done", !.verdict = "allow"]
        ELSE Entered(q, q.tier + 1)

BucketOf(r) == <<req[r].client, Tier(r).bucket>>

(***************************************************************************)
(* The Redis window: the Lua script, or the same commands in a pipeline.   *)
(***************************************************************************)
Member(r) == IF Coarse THEN <<Stamp(r)>> ELSE <<Stamp(r), r, req[r].tier>>

Live(k) == IF now < ttl[k] THEN zset[k] ELSE {}

\* Variant of InWindow: a hit exactly one window old still counts.
InWindowInclusive(stamp, at, window) == stamp + window >= at

InWindow(stamp, at, window) == stamp + window > at

Window(r) ==
    {m \in Live(BucketOf(r)) \cup {Member(r)} : InWindow(m[1], Stamp(r), Tier(r).window)}

\* Variant of KeyLifetime: half of the window.
KeyLifetimeShort(window) == window \div 2

KeyLifetime(window) == window * 2

RecordHit(r) ==
    /\ zset' = [zset EXCEPT ![BucketOf(r)] = Window(r)]
    /\ ttl' = [ttl EXCEPT ![BucketOf(r)] = now + KeyLifetime(Tier(r).window)]

ExceedsRedis(count, limit) == count > limit

CountInRedis(r) ==
    /\ RecordHit(r)
    /\ req' = [req EXCEPT ![r] =
                Decided(r, "redis", ExceedsRedis(Cardinality(Window(r)), Tier(r).limit))]

EvalSha(r) ==
    /\ req[r].pc = "redis" /\ req[r].counter \in HasSha
    /\ IF scripts
       THEN CountInRedis(r)
       ELSE /\ req' = [req EXCEPT ![r].pc = "load"]
            /\ UNCHANGED <<zset, ttl>>
    /\ UNCHANGED <<dep, now, scripts, mem, evicted>>

Pipeline(r) ==
    /\ req[r].pc = "redis" /\ req[r].counter \notin HasSha
    /\ CountInRedis(r)
    /\ UNCHANGED <<dep, now, scripts, mem, evicted>>

ScriptLoad(r) ==
    /\ req[r].pc = "load"
    /\ scripts' = TRUE
    /\ req' = [req EXCEPT ![r].pc = "retry"]
    /\ UNCHANGED <<dep, now, zset, ttl, mem, evicted>>

RetryEvalSha(r) ==
    /\ req[r].pc = "retry" /\ scripts
    /\ CountInRedis(r)
    /\ UNCHANGED <<dep, now, scripts, mem, evicted>>

\* The connection fails before the hit is recorded or after it, or a second
\* NOSCRIPT ends the retry.
RedisFails(r) ==
    /\ \/ /\ req[r].pc \in {"redis", "load", "retry"} /\ "redis" \in Faults
          /\ UNCHANGED <<zset, ttl>>
       \/ /\ req[r].pc \in {"redis", "retry"} /\ "redis" \in Faults
          /\ RecordHit(r)
       \/ /\ req[r].pc = "retry" /\ ~scripts
          /\ UNCHANGED <<zset, ttl>>
    /\ req' = [req EXCEPT ![r] = IF FailOpen THEN [@ EXCEPT !.pc = "memory"]
                                 ELSE [@ EXCEPT !.pc = "done", !.verdict = "error"]]
    /\ UNCHANGED <<dep, now, scripts, mem, evicted>>

(***************************************************************************)
(* The in-memory window, one atomic step: the key's deque is popped or, in *)
(* a full store, takes the place of the least recently used one; it is     *)
(* pruned from the left, counted, and put back last with the new stamp.    *)
(***************************************************************************)
Holds(store, k) == \E i \in DOMAIN store : store[i].key = k
Slot(store, k) == CHOOSE i \in DOMAIN store : store[i].key = k

Stamps(store, k) == IF Holds(store, k) THEN store[Slot(store, k)].stamps ELSE <<>>

MakesRoom(store, k) == ~Holds(store, k) /\ Len(store) >= MaxKeys

TakeOut(store, n) == SubSeq(store, 1, n - 1) \o SubSeq(store, n + 1, Len(store))

Without(store, k) ==
    IF Holds(store, k) THEN TakeOut(store, Slot(store, k))
    ELSE IF MakesRoom(store, k) THEN Tail(store) ELSE store

Oldest(keep) == CHOOSE i \in keep : \A j \in keep : i <= j

Pruned(stamps, at, window) ==
    LET keep == {i \in DOMAIN stamps : InWindow(stamps[i], at, window)}
    IN  IF keep = {} THEN <<>> ELSE SubSeq(stamps, Oldest(keep), Len(stamps))

ExceedsMemory(count, limit) == count >= limit

CountInMemory(r) ==
    /\ req[r].pc = "memory"
    /\ LET c == req[r].counter
           k == BucketOf(r)
           earlier == Pruned(Stamps(mem[c], k), Stamp(r), Tier(r).window)
       IN  /\ mem' = [mem EXCEPT ![c] = Append(Without(@, k),
                        [key |-> k, stamps |-> Append(earlier, Stamp(r))])]
           /\ evicted' = [evicted EXCEPT ![c] =
                            IF MakesRoom(mem[c], k) THEN @ \cup {Head(mem[c]).key} ELSE @]
           /\ req' = [req EXCEPT ![r] =
                        Decided(r, c, ExceedsMemory(Len(earlier), Tier(r).limit))]
    /\ UNCHANGED <<dep, now, zset, ttl, scripts>>

\* SCRIPT FLUSH, or a Redis restart that keeps the data.
Flush ==
    /\ "flush" \in Faults /\ scripts
    /\ scripts' = FALSE
    /\ UNCHANGED <<dep, now, req, zset, ttl, mem, evicted>>

InFlight(r) == req[r].pc \notin {"new", "done"}

Tick ==
    /\ now < MaxTime
    /\ \A r \in Reqs : InFlight(r) => now - Stamp(r) < MaxLatency
    /\ now' = now + 1
    /\ UNCHANGED <<dep, req, zset, ttl, scripts, mem, evicted>>

Step(r) ==
    \/ EvalSha(r) \/ Pipeline(r) \/ ScriptLoad(r) \/ RetryEvalSha(r)
    \/ RedisFails(r) \/ CountInMemory(r)

Next == (\E r \in Reqs : Arrive(r) \/ Step(r)) \/ Flush \/ Tick

Spec == Init /\ [][Next]_vars

(***************************************************************************)
(* Properties.                                                             *)
(***************************************************************************)

\* Requests of one client that reached tier i, by where they were counted.
Counted(k, i, b) ==
    {r \in Reqs : req[r].client = k /\ req[r].via[i] = b}

\* The point of the limiter: of the requests a backend counted for a tier, no
\* window of the tier's length holds more admitted ones than the limit.  Redis
\* enforces it across processes; when Redis fails each process still does for
\* what it counted itself, as long as the key was not dropped to make room.
LimitEnforced ==
    \A k \in Clients, i \in TierIndex, b \in Backends :
        (b \in Counters => <<k, Tiers[i].bucket>> \notin evicted[b])
        => \A at \in 1..MaxTime :
            Cardinality({r \in Counted(k, i, b) :
                            /\ req[r].verdict = "allow"
                            /\ req[r].ts[i] \in (at - Tiers[i].window + 1)..at})
                <= Tiers[i].limit

\* Nobody is refused without cause: a request is blocked only if the client
\* made at least as many other requests as the limit within the window.
BlockedOnlyOverLimit ==
    \A r \in Reqs : req[r].verdict = "block" =>
        Cardinality({q \in Reqs \ {r} :
                        /\ req[q].client = req[r].client
                        /\ req[q].ts[req[r].tier] # 0
                        /\ req[q].ts[req[r].tier] > Stamp(r) - Tier(r).window})
            >= Tier(r).limit
=============================================================================
