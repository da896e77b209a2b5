------------------------------ MODULE MCRefresh ------------------------------
(* What a worker keeps and renews between requests, for TLC: the list of checks *)
(* on the event loop, the Redis client, the cloud ranges, the country database  *)
(* and the spelling of the stored bans.  They share no state here: a behaviour  *)
(* is one of the module that part names.                                        *)
EXTENDS PipelineRebuild, RedisManager, CloudRanges, GeoIp,
        BanKeyMigration

VARIABLE part

-----------------------------------------------------------------------------
(* CloudRanges: alone, with the adapter's stamps, with Redis and restarts, *)
(* with lazy_init; threads; two providers; two workers on one Redis.       *)

Local == [threads |-> FALSE, redis |-> FALSE, lazy |-> FALSE, stamps |-> FALSE,
          restarts |-> FALSE, workers |-> {"w1"}, providers |-> {"aws"},
          requests |-> {"r1"}, starts |-> 2, until |-> 6]
OnRedis == [Local EXCEPT !.redis = TRUE]
Ranges ==
    {Local, [Local EXCEPT !.stamps = TRUE], [OnRedis EXCEPT !.restarts = TRUE],
     [OnRedis EXCEPT !.lazy = TRUE, !.until = 5],
     [Local EXCEPT !.threads = TRUE, !.lazy = TRUE, !.requests = {"r1", "r2"}, !.until = 1],
     [Local EXCEPT !.threads = TRUE, !.requests = {"r1", "r2"}, !.until = 1],
     [OnRedis EXCEPT !.providers = {"aws", "gcp"}, !.starts = 1, !.lazy = TRUE, !.until = 1],
     [OnRedis EXCEPT !.workers = {"w1", "w2"}, !.starts = 1, !.until = 2]}

-----------------------------------------------------------------------------
(* GeoIp: two tasks and Redis; bad downloads; deaths; two worker threads.  *)

Callers == {<<"w1", 1>>, <<"w1", 2>>, <<"w2", 1>>}
Shared == [threads |-> FALSE, redis |-> TRUE, badDownloads |-> FALSE, deaths |-> FALSE,
           callers |-> {<<"w1", 1>>, <<"w1", 2>>}]
Databases ==
    {Shared, [Shared EXCEPT !.redis = FALSE, !.badDownloads = TRUE],
     [Shared EXCEPT !.deaths = TRUE, !.callers = {<<"w1", 1>>}],
     [Shared EXCEPT !.threads = TRUE, !.redis = FALSE,
                    !.callers = {<<"w1", 1>>, <<"w2", 1>>}]}

-----------------------------------------------------------------------------
RefreshInit ==
    /\ part \in {"rebuild", "redis", "cloud", "geo", "migration"}
    /\ Init /\ (part # "rebuild" => ~field /\ ~route /\ size = 0)
    /\ RmInit /\ (part # "redis" => rmMode = "tasks")
    /\ ClInit /\ (part # "cloud" => clDeployment = Local)
    /\ GiInit /\ (part # "geo" => giDeployment = Shared)
    \* The old spellings are interchangeable: one ends before the other, or is not there.
    /\ MkInit /\ IF part = "migration" THEN mkKey["old1"].until < mkKey["old2"].until
                 ELSE mkKey = [k \in MkKeys |-> MkNone]

RefreshVars == <<vars, rmVars, clVars, giVars, mkVars, part>>

RefreshNext ==
    /\ part' = part
    /\ IF part = "rebuild" THEN Next ELSE UNCHANGED vars
    /\ IF part = "redis" THEN RmNext ELSE UNCHANGED rmVars
    /\ IF part = "cloud" THEN ClNext ELSE UNCHANGED clVars
    /\ IF part = "geo" THEN GiNext ELSE UNCHANGED giVars
    /\ IF part = "migration" THEN MkNext ELSE UNCHANGED mkVars

RefreshSpec == RefreshInit /\ [][RefreshNext]_RefreshVars
=============================================================================
