------------------------------ MODULE Behavior ------------------------------
(***************************************************************************)
(* Behavioural rules: BehaviorTracker                                      *)
(* (src/guard_core/handlers/behavior_handler.py and                        *)
(* _behavior_action_dispatch.py) driven by BehavioralProcessor             *)
(* (src/guard_core/core/behavioral/processor.py).                          *)
(*                                                                         *)
(* A request is counted for each usage rule of its route, then answered,   *)
(* then its response is counted for each return-pattern rule of the route  *)
(* and of the configuration.  Hits are kept in memory, under a lock and    *)
(* bounded by eviction, or in Redis.  The clock is read before the hit:    *)
(* other requests run in between where an await (a Redis command, the body *)
(* of the response) or a thread switch lets them.                          *)
(***************************************************************************)
EXTENDS Integers, FiniteSets, SequencesExt

CONSTANTS BvRequests,     \* numbers
          BvClients, BvEndpoints,
          BvDeployments,  \* records [threads, redis, failures, route, global,
                          \*          clients, endpoints, requests]; route and
                          \* global are sequences of rules, records
                          \* [kind, pattern, threshold, window, correlate]
          BvMaxEndpoints, \* _MAX_TRACKED_ENDPOINTS
          BvMaxClients,   \* _MAX_TRACKED_CLIENTS_PER_ENDPOINT
          BvMaxTime       \* bound: the clock

BvRulesOf(d) == ToSet(d.route) \cup ToSet(d.global)

ASSUME BvAssumption ==
    /\ BvMaxEndpoints \in Nat \ {0} /\ BvMaxClients \in Nat \ {0}
    /\ \A d \in BvDeployments : \A rule \in BvRulesOf(d) :
           /\ rule.kind \in {"usage", "return"}
           /\ rule.threshold \in Nat \ {0} /\ rule.window \in Nat \ {0}

VARIABLES bvDeployed, bvNow,
          buckets,      \* counted key -> sequence of [client, hits, until]
          keyOrder,     \* kind -> its keys in memory, least recently used first
          suspicious,   \* clients with a positive suspicious_request_counts entry
          bvAt, client, endpoint, phase, turn, stamp, matched,
          correlated,   \* these, of each request
          verdict,      \* history: the last hit of each request
          bvCalls       \* history: every call and matching response, each once

bvRequest == <<client, endpoint>>
bvVars == <<bvDeployed, bvNow, buckets, keyOrder, suspicious, bvAt, bvRequest,
            phase, turn, stamp, matched, correlated, verdict, bvCalls>>

BvInit == /\ bvDeployed \in BvDeployments /\ bvNow = 0
          /\ buckets = <<>> /\ suspicious = {} /\ bvCalls = {}
          /\ keyOrder = [k \in {"usage", "return"} |-> <<>>]
          /\ bvAt = [r \in BvRequests |-> "idle"]
          /\ client = [r \in BvRequests |-> CHOOSE c \in BvClients : TRUE]
          /\ endpoint = [r \in BvRequests |-> CHOOSE e \in BvEndpoints : TRUE]
          /\ phase = [r \in BvRequests |-> "usage"]
          /\ turn = [r \in BvRequests |-> 1]
          /\ stamp = [r \in BvRequests |-> 0]
          /\ matched = [r \in BvRequests |-> {}]
          /\ correlated = [r \in BvRequests |-> FALSE]
          /\ verdict = [r \in BvRequests |-> <<>>]

Rules(r) == IF phase[r] = "global" THEN bvDeployed.global ELSE bvDeployed.route
RuleOf(r) == Rules(r)[turn[r]]

\* The key a hit is counted under: the usage and frequency rules of an endpoint
\* share one, return-pattern rules have one per pattern.
CountedAs(r, rule) == <<rule.kind, endpoint[r], rule.pattern>>

----------------------------------------------------------------------------
(* The store: _lru_pop_or_create on the keys and on the clients of a key,  *)
(* or a sorted set per key and client that expires after the window of the *)
(* rule that hit it last; then the hits before the window are dropped.     *)

BvWithout(entries, c) == SelectSeq(entries, LAMBDA e : e.client # c)

BvBucketOf(key) == IF key \in DOMAIN buckets THEN buckets[key] ELSE <<>>

BvHits(key, c) ==
    LET own == SelectSeq(BvBucketOf(key), LAMBDA e :
                   e.client = c /\ (bvDeployed.redis => bvNow < e.until))
    IN  IF own = <<>> THEN <<>> ELSE own[1].hits

LruAppend(entries, entry) ==
    LET others == BvWithout(entries, entry.client)
    IN  Append(IF others = entries /\ Len(others) >= BvMaxClients
               THEN Tail(others) ELSE others, entry)

LruKeys(order, key) ==
    LET others == Remove(order, key)
    IN  Append(IF others = order /\ Len(others) >= BvMaxEndpoints
               THEN Tail(others) ELSE others, key)

\* Variant: hits that have left the window are still counted.
HitsAfterUnpruned(key, c, rule, at) == Append(BvHits(key, c), at)

\* Variant: hits of the very start of the window are dropped.
HitsAfterStrict(key, c, rule, at) ==
    Append(SelectSeq(BvHits(key, c), LAMBDA t : t > at - rule.window), at)

HitsAfter(key, c, rule, at) ==
    Append(SelectSeq(BvHits(key, c), LAMBDA t : t >= at - rule.window), at)

CountHit(r, rule, at) ==
    LET key == CountedAs(r, rule)
        entry == [client |-> client[r], hits |-> HitsAfter(key, client[r], rule, at),
                  until |-> bvNow + rule.window]
        order == [keyOrder EXCEPT ![rule.kind] = LruKeys(@, key)]
        evicted == ToSet(keyOrder[rule.kind]) \ ToSet(order[rule.kind])
    IN  IF bvDeployed.redis
        THEN /\ buckets' = [k \in DOMAIN buckets \cup {key} |->
                    IF k = key THEN Append(BvWithout(BvBucketOf(key), client[r]), entry)
                    ELSE buckets[k]]
             /\ UNCHANGED keyOrder
        ELSE /\ buckets' = [k \in (DOMAIN buckets \ evicted) \cup {key} |->
                    IF k = key THEN LruAppend(BvBucketOf(key), entry) ELSE buckets[k]]
             /\ keyOrder' = order

\* max(1, rule.threshold // 2) for a suspicious client, in the global phase.
Threshold(r, rule) ==
    IF phase[r] = "global" /\ rule.correlate /\ correlated[r]
    THEN Max({1, rule.threshold \div 2}) ELSE rule.threshold

\* The call or the response, once, however many rules count it.
Happened(r, rule, at) ==
    IF \E h \in bvCalls : h.request = r /\ h.key = CountedAs(r, rule) THEN bvCalls
    ELSE bvCalls \cup {[request |-> r, key |-> CountedAs(r, rule),
                      client |-> client[r], at |-> at]}

Judge(r, rule, at) ==
    /\ bvCalls' = Happened(r, rule, at)
    /\ verdict' = [verdict EXCEPT ![r] =
           [rule |-> rule, key |-> CountedAs(r, rule), threshold |-> Threshold(r, rule),
            exceeded |-> Len(HitsAfter(CountedAs(r, rule), client[r], rule, at))
                             > Threshold(r, rule),
            really |-> Cardinality({h \in bvCalls' : /\ h.key = CountedAs(r, rule)
                                                   /\ h.client = client[r]
                                                   /\ h.at >= at - rule.window})]]

----------------------------------------------------------------------------
(* The processor.  No code evaluates a usage rule of the configuration.    *)

Evaluated(r, p, ms, rule) ==
    IF p = "usage" THEN rule.kind = "usage"
    ELSE rule.kind = "return" /\ rule.pattern \in ms

\* Go on with the first rule of phase p from the i-th that is evaluated; a rule
\* of another kind is skipped, a response that does not match is not counted.
Resume(r, p, i, ms) ==
    LET rules == IF p = "global" THEN bvDeployed.global ELSE bvDeployed.route
        due == {j \in i..Len(rules) : Evaluated(r, p, ms, rules[j])}
    IN  /\ phase' = [phase EXCEPT ![r] = p]
        /\ turn' = [turn EXCEPT ![r] = IF due = {} THEN 1 ELSE Min(due)]
        /\ bvAt' = [bvAt EXCEPT ![r] = IF due = {} THEN "over" ELSE "rule"]

\* Requests are numbered in the order they arrive in.
Request(r, c, e) ==
    /\ bvAt[r] = "idle" /\ r \in bvDeployed.requests
    /\ \A q \in bvDeployed.requests : q < r => bvAt[q] # "idle"
    /\ client' = [client EXCEPT ![r] = c]
    /\ endpoint' = [endpoint EXCEPT ![r] = e]
    /\ Resume(r, "usage", 1, {})
    /\ UNCHANGED <<bvDeployed, bvNow, buckets, keyOrder, suspicious, stamp, matched,
                   correlated, verdict, bvCalls>>

\* The endpoint answers, and process_return_rules starts.
Respond(r, ms) ==
    /\ bvAt[r] = "over" /\ phase[r] = "usage"
    /\ matched' = [matched EXCEPT ![r] = ms]
    /\ Resume(r, "return", 1, ms)
    /\ UNCHANGED <<bvDeployed, bvNow, buckets, keyOrder, suspicious, bvRequest, stamp,
                   correlated, verdict, bvCalls>>

\* process_global_return_rules starts by collecting the client's categories.
CollectCorrelated(r) ==
    /\ bvAt[r] = "over" /\ phase[r] = "return"
    /\ correlated' = [correlated EXCEPT ![r] = client[r] \in suspicious]
    /\ Resume(r, "global", 1, matched[r])
    /\ UNCHANGED <<bvDeployed, bvNow, buckets, keyOrder, suspicious, bvRequest, stamp,
                   matched, verdict, bvCalls>>

Track(r, at) ==
    /\ CountHit(r, RuleOf(r), at)
    /\ Judge(r, RuleOf(r), at)
    /\ IF verdict'[r].exceeded
       THEN bvAt' = [bvAt EXCEPT ![r] = "act"] /\ UNCHANGED <<phase, turn>>
       ELSE Resume(r, phase[r], turn[r] + 1, matched[r])
    /\ UNCHANGED <<bvDeployed, bvNow, suspicious, bvRequest, stamp, matched, correlated>>

\* Nothing comes between the clock and the hit of a usage rule counted in
\* memory by a task.
BvAtOnce(r) == phase[r] = "usage" /\ ~bvDeployed.redis /\ ~bvDeployed.threads

TrackEndpointUsage(r) == bvAt[r] = "rule" /\ BvAtOnce(r) /\ Track(r, bvNow)

ReadTime(r) ==
    /\ bvAt[r] = "rule" /\ ~BvAtOnce(r)
    /\ stamp' = [stamp EXCEPT ![r] = bvNow]
    /\ bvAt' = [bvAt EXCEPT ![r] = "hit"]
    /\ UNCHANGED <<bvDeployed, bvNow, buckets, keyOrder, suspicious, bvRequest, phase,
                   turn, matched, correlated, verdict, bvCalls>>

\* The lock is held, or record_sliding_window_hit runs as one transaction.
RecordSlidingWindowHit(r) == bvAt[r] = "hit" /\ Track(r, stamp[r])

\* A Redis error escapes from the processor: the rules left are not evaluated.
HitFails(r) ==
    /\ bvAt[r] = "hit" /\ bvDeployed.redis /\ bvDeployed.failures
    /\ bvAt' = [bvAt EXCEPT ![r] = "failed"]
    /\ UNCHANGED <<bvDeployed, bvNow, buckets, keyOrder, suspicious, bvRequest, phase,
                   turn, stamp, matched, correlated, verdict, bvCalls>>

\* The violation event and apply_action; what a ban does is in IpBan.
ApplyAction(r) ==
    /\ bvAt[r] = "act"
    /\ Resume(r, phase[r], turn[r] + 1, matched[r])
    /\ UNCHANGED <<bvDeployed, bvNow, buckets, keyOrder, suspicious, bvRequest, stamp,
                   matched, correlated, verdict, bvCalls>>

\* A request of the client matched a detection pattern (RequestChecks).
Suspect(c) ==
    /\ \E rule \in BvRulesOf(bvDeployed) : rule.correlate
    /\ c \notin suspicious
    /\ suspicious' = suspicious \cup {c}
    /\ UNCHANGED <<bvDeployed, bvNow, buckets, keyOrder, bvAt, bvRequest, phase, turn,
                   stamp, matched, correlated, verdict, bvCalls>>

BvTick == /\ bvNow < BvMaxTime /\ bvNow' = bvNow + 1
          /\ UNCHANGED <<bvDeployed, buckets, keyOrder, suspicious, bvAt, bvRequest,
                         phase, turn, stamp, matched, correlated, verdict, bvCalls>>

BvPatterns == {rule.pattern : rule \in {u \in BvRulesOf(bvDeployed) : u.kind = "return"}}

BvNext ==
    \/ \E r \in BvRequests :
           \/ \E c \in bvDeployed.clients, e \in bvDeployed.endpoints : Request(r, c, e)
           \/ \E ms \in SUBSET BvPatterns : Respond(r, ms)
           \/ CollectCorrelated(r) \/ TrackEndpointUsage(r) \/ ReadTime(r)
           \/ RecordSlidingWindowHit(r) \/ HitFails(r) \/ ApplyAction(r)
    \/ \E c \in bvDeployed.clients : Suspect(c)
    \/ BvTick

BvSpec == BvInit /\ [][BvNext]_bvVars

----------------------------------------------------------------------------

\* No two rules of the deployment count under one key.
BvOneRulePerKey ==
    LET all == bvDeployed.route \o bvDeployed.global
    IN  \A i, j \in DOMAIN all :
            all[i].kind = all[j].kind /\ all[i].pattern = all[j].pattern => i = j

\* Where no two rules share a key, a rule triggers only if the client really
\* made more calls, or got more matching responses, within the window than the
\* threshold it was judged by: evictions, Redis expiry, late hits and requests
\* that overlap lose calls and never invent them.
TriggersAreEarned ==
    BvOneRulePerKey =>
        \A r \in BvRequests : verdict[r] # <<>> =>
            (verdict[r].exceeded => verdict[r].really > verdict[r].threshold)

\* Tasks that count usage in memory, below the bounds and with no two rules
\* sharing a key, miss no trigger.
TriggersAreComplete ==
    ( /\ BvOneRulePerKey /\ ~bvDeployed.redis /\ ~bvDeployed.threads
      /\ Cardinality(bvDeployed.endpoints) <= BvMaxEndpoints
      /\ Cardinality(bvDeployed.clients) <= BvMaxClients )
    => \A r \in BvRequests : verdict[r] # <<>> =>
           (verdict[r].key[1] = "usage" /\ verdict[r].really > verdict[r].threshold
                => verdict[r].exceeded)

\* A behaviour rule triggers exactly when it should.
TriggersAreExact == TriggersAreEarned /\ TriggersAreComplete
============================================================================
