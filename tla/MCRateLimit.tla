---------------------------- MODULE MCRateLimit ----------------------------
(* Instances of RateLimit for TLC. *)
EXTENDS RateLimit

CONSTANTS c1, c2, k1, k2

TierOf(bucket, limit, window) == [bucket |-> bucket, limit |-> limit, window |-> window]

\* The global tier alone; limits and windows small enough to be crossed.
GlobalTier == <<TierOf("global", 2, 2)>>

\* A limited endpoint and the global limit: different keys.
EndpointAndGlobal == <<TierOf("path", 1, 1), TierOf("global", 2, 2)>>

\* A route limit and a geo limit: both are counted under the request's path.
RouteAndGeoAlike == <<TierOf("path", 3, 2), TierOf("path", 3, 2)>>

\* One client, two processes (one without the script) over Redis with the
\* fallback; the same with two tiers and no fallback; memory alone, with two
\* clients, too few keys for them, and equal clock readings.
Fallback == [tiers |-> GlobalTier, redis |-> TRUE, failOpen |-> TRUE, sha |-> {c1},
             faults |-> {"redis", "flush"}, coarse |-> FALSE, clients |-> {k1},
             counters |-> {c1, c2}, load |-> 4]
TwoTiers == [Fallback EXCEPT !.tiers = EndpointAndGlobal, !.failOpen = FALSE,
                             !.sha = {c1, c2}, !.load = 3]
InMemory == [Fallback EXCEPT !.tiers = EndpointAndGlobal, !.redis = FALSE, !.sha = {},
                             !.faults = {}, !.coarse = TRUE, !.clients = {k1, k2},
                             !.counters = {c1}]
AllDeployments == {Fallback, TwoTiers, InMemory}

\* The route and the geo tier of one request, counted under one key.
SharedKey == {[Fallback EXCEPT !.tiers = RouteAndGeoAlike, !.failOpen = FALSE,
                               !.faults = {}, !.counters = {c1}]}
=============================================================================
