-------------------------- MODULE MCRequestChecks --------------------------
(* Instances of RequestChecks for TLC. *)
EXTENDS RequestChecks

CONSTANTS k1, k2

\* Two detection categories, one with a threshold of its own.
Thresholds == [k \in {"sqli"} |-> 2]

PlainRoute == [NoRoute EXCEPT !.present = TRUE]
BypassRoute(names) == [PlainRoute EXCEPT !.bypass = names]

\* Active, fail-secure, with thresholds that two or three requests reach.
Active == [passive |-> FALSE, failSecure |-> TRUE, redisFailOpen |-> FALSE, threads |-> FALSE,
           errors |-> FALSE, strict |-> FALSE, emergency |-> FALSE, https |-> FALSE,
           custom |-> FALSE, detection |-> TRUE, banning |-> TRUE, rateBan |-> TRUE,
           flat |-> 3, perCategory |-> Thresholds,
           whitelist |-> {}, blacklist |-> {}, exempt |-> {}, home |-> {}, cloud |-> {},
           trusted |-> {}, countries |-> "any",
           clients |-> {k1}, routes |-> {NoRoute}, threats |-> {{}, {"sqli"}, {"xss"}},
           excluded |-> {FALSE}, load |-> 3]

\* Bans: excluded paths and routes that bypass the ban.
Bans == [Active EXCEPT !.excluded = BOOLEAN, !.threats = {{"sqli"}},
                       !.routes = {NoRoute, BypassRoute({"ip_ban"})}]

\* Threads, with two clients, and room for one only.
Threads == [Active EXCEPT !.threads = TRUE, !.threats = {{"sqli"}, {"xss"}}, !.rateBan = FALSE]
Crowded == [Active EXCEPT !.threads = TRUE, !.clients = {k1, k2}, !.threats = {{"sqli"}},
                          !.rateBan = FALSE]

\* The lists: a whitelist against the routes' own lists; the other lists; an
\* address nobody can determine.
Lists == [Active EXCEPT !.whitelist = {k1}, !.clients = {k1, k2}, !.excluded = BOOLEAN,
              !.threats = {{}, {"sqli"}}, !.exempt = {k1}, !.load = 2,
              !.routes = {NoRoute, [PlainRoute EXCEPT !.blacklist = {k1}],
                          [PlainRoute EXCEPT !.whitelist = {k2}],
                          [PlainRoute EXCEPT !.detect = FALSE], BypassRoute({"ip"}),
                          BypassRoute({"penetration", "clouds", "rate_limit"})}]
Countries == [Active EXCEPT !.home = {k1}, !.countries = "only_home", !.cloud = {k2},
                  !.blacklist = {k2}, !.exempt = {k1}, !.clients = {k1, k2, Unknown},
                  !.failSecure = FALSE, !.threats = {{}, {"xss"}}, !.trusted = {k1}, !.flat = 1,
                  !.routes = {NoRoute, [PlainRoute EXCEPT !.countries = "not_home"],
                              [PlainRoute EXCEPT !.countries = "only_home"],
                              BypassRoute({"ip"})}, !.load = 2]

\* Passive mode and errors, under both error policies.
Passive(secure, open) ==
    [Active EXCEPT !.passive = TRUE, !.failSecure = secure, !.redisFailOpen = open,
                   !.errors = TRUE, !.strict = TRUE, !.emergency = TRUE, !.https = TRUE,
                   !.custom = TRUE, !.clients = {k1, k2, Unknown}, !.blacklist = {k2}, !.cloud = {k1},
                   !.threats = {{}, {"sqli"}}, !.flat = 1, !.excluded = BOOLEAN,
                   !.routes = {NoRoute, PlainRoute, BypassRoute({"all"})}, !.load = 1]
Erring(secure, open) == [Passive(secure, open) EXCEPT !.passive = FALSE]

\* A whitelisted address of a blocked provider, whose lookup may fail.
ListedInCloud == [Erring(TRUE, FALSE) EXCEPT !.whitelist = {k1}]

AllDeployments ==
    {Active, Bans, Threads, Crowded, Lists, Countries, ListedInCloud}
    \cup {Passive(s, o) : s, o \in BOOLEAN} \cup {Erring(s, o) : s, o \in BOOLEAN}
    \cup {[Passive(TRUE, FALSE) EXCEPT !.errors = FALSE, !.load = 2, !.threats = {{"sqli"}},
                                       !.routes = {PlainRoute}, !.clients = {k1}]}

\* Threads, with a flat threshold out of reach.
ThreadsOnly == {[Threads EXCEPT !.flat = 4]}
=============================================================================
