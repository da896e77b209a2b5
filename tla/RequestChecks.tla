--------------------------- MODULE RequestChecks ---------------------------
(***************************************************************************)
(* What becomes of a request: the bypass handler, the seventeen checks of  *)
(* the default pipeline in their order, and the evidence they gather.      *)
(* Requests of several clients run together and share the suspicious       *)
(* counts and the bans; a check that reaches a threshold bans its client.  *)
(*                                                                         *)
(* A check that looks at nothing but its request and its configuration     *)
(* passes or flags the request by choice.  Such checks (Local) commute     *)
(* with every step of another request, so a request runs through them      *)
(* without interruption.  Under Threads the counts are changed under a     *)
(* lock and read without it; on the event loop no step falls in between.   *)
(* The ban store is the one of IpBan, seen from one process.               *)
(***************************************************************************)
EXTENDS Integers, Sequences, FiniteSets, FiniteSetsExt, Functions

CONSTANTS
    None,
    Unknown,      \* UNKNOWN_CLIENT_IDENTITY
    Clients,      \* addresses a client may have
    Categories,   \* of detection, with "rate_limit"
    Deployments,  \* configurations, one of which a behaviour has
    MaxReqs,      \* bound on the requests of a behaviour
    MaxTracked    \* _MAX_TRACKED_SUSPICIOUS_IPS

VARIABLES
    dep,          \* the deployment; chosen once
    req,          \* each request: where it is, and its request.state
    counts,       \* suspicious_request_counts: <<[ip, n], ...>>, oldest first
    lock,         \* _suspicious_counts_lock: None, or who holds it
    banned,       \* clients is_ip_banned reports
    called,       \* history: clients ban_ip was called for
    forgot        \* history: clients whose counts were evicted

vars == <<dep, req, counts, lock, banned, called, forgot>>

Reqs == 1..MaxReqs
(***************************************************************************)
(* The pipeline's order, and the checks an excluded path still runs.       *)
(***************************************************************************)
Checks == <<"route_config", "emergency_mode", "https_enforcement", "request_logging",
            "request_size_content", "required_headers", "authentication", "referrer",
            "custom_validators", "time_window", "cloud_ip_refresh", "ip_security",
            "cloud_provider", "user_agent", "rate_limit", "suspicious_activity",
            "custom_request">>

EnforcedOnExcludedPaths == {"route_config", "ip_security", "rate_limit"}

\* Positions beside the checks: the second half of ip_security, and the
\* counting of a violation (count, put, judge).
Positions == Range(Checks) \cup {"new", "ip_lists", "count", "put", "judge", "admitted", "refused"}

ASSUME NoneAssumption ==
    None \notin Positions /\ None \notin Reqs /\ \A d \in Deployments : None \notin d.clients

\* UNKNOWN_CLIENT_IDENTITY is no address; thresholds are positive (ge=1), and
\* set for known categories only (_validate_threat_ban_config_value).
ASSUME ConfigAssumption ==
    \A d \in Deployments :
        /\ Unknown \notin d.whitelist
        /\ DOMAIN d.perCategory \subseteq Categories
        /\ \A k \in DOMAIN d.perCategory : d.perCategory[k] \in Nat \ {0}

ASSUME TrackedAssumption == MaxTracked \in Nat \ {0}

\* The check after c, or None.  On an excluded path the others are skipped.
NextCheck(c, scoped) ==
    LET here == CHOOSE i \in DOMAIN Checks : Checks[i] = c
        later == {j \in DOMAIN Checks :
                     j > here /\ (scoped => Checks[j] \in EnforcedOnExcludedPaths)}
    IN  IF later = {} THEN None ELSE Checks[Min(later)]

(***************************************************************************)
(* Requests.  client, route and threat (the categories detection finds in  *)
(* it) are the request's own; scoped, ip, white and exempt are what checks *)
(* leave in request.state; check is the check being run, cats and hand     *)
(* what it counts and the entry it has taken out for that.  by, evidence,  *)
(* raised and held are history: what refused the request, the categories   *)
(* of each count it caused, whether a check of it raised, and whether its  *)
(* client has been banned ever since it arrived.                           *)
(***************************************************************************)
NoRoute == [present |-> FALSE, bypass |-> {}, whitelist |-> {}, blacklist |-> {},
            countries |-> "any", detect |-> TRUE]

Fresh == [at |-> "new", client |-> None, route |-> NoRoute, threat |-> {},
          scoped |-> FALSE, ip |-> None, white |-> FALSE, exempt |-> FALSE,
          check |-> None, cats |-> {}, hand |-> <<>>, by |-> None, evidence |-> <<>>,
          raised |-> FALSE, held |-> FALSE]

Init ==
    /\ dep \in Deployments
    /\ req = [r \in Reqs |-> Fresh]
    /\ counts = <<>> /\ lock = None
    /\ banned = {} /\ called = {} /\ forgot = {}

\* A request that goes on, is refused, or meets an error in its check: the
\* error refuses it in fail-secure mode and skips the check otherwise.  An
\* error of Redis skips the check whenever redis_fail_open is set.
Passed(q) ==
    LET c == NextCheck(q.check, q.scoped)
    IN  IF c = None THEN [q EXCEPT !.at = "admitted", !.check = None]
                    ELSE [q EXCEPT !.at = c, !.check = c]

Refused(q) == [q EXCEPT !.at = "refused", !.by = q.check]

HandleCheckError(q, ofRedis) ==
    LET e == [q EXCEPT !.raised = TRUE]
    IN  IF dep.failSecure /\ ~(ofRedis /\ dep.redisFailOpen)
        THEN [e EXCEPT !.at = "refused", !.by = "error"] ELSE Passed(e)

ShouldBypassCheck(q, name) == q.route.present /\ {name, "all"} \cap q.route.bypass # {}

\* One step of request r, to one of the states in qs.
Becomes(r, qs) == \E q \in qs : req' = [req EXCEPT ![r] = q]

Shared == <<counts, lock, banned, called, forgot>>

(***************************************************************************)
(* Arrival: BypassHandler, then the pipeline.  An excluded path is scoped, *)
(* a client without an address is refused in fail-secure mode, and a route *)
(* that bypasses all checks is served at once unless the mode is passive.  *)
(***************************************************************************)
HandlePassthrough(q, excluded) ==
    IF excluded THEN [q EXCEPT !.scoped = TRUE]
    ELSE IF q.client = Unknown /\ dep.failSecure
    THEN [q EXCEPT !.at = "refused", !.by = "unresolvable_client_address"]
    ELSE q

HandleSecurityBypass(q) ==
    IF ShouldBypassCheck(q, "all") /\ ~dep.passive THEN [q EXCEPT !.at = "admitted"]
    ELSE [q EXCEPT !.at = "route_config", !.check = "route_config"]

Arrive(r) ==
    /\ req[r].at = "new"
    /\ r <= dep.load /\ (r > 1 => req[r - 1].at # "new")
    /\ \E c \in dep.clients, rt \in dep.routes, t \in dep.threats, excluded \in dep.excluded :
        LET q == HandlePassthrough([Fresh EXCEPT !.client = c, !.route = rt, !.threat = t,
                                                 !.held = c \in banned], excluded)
        IN  req' = [req EXCEPT ![r] = IF q.at = "new" THEN HandleSecurityBypass(q) ELSE q]
    /\ UNCHANGED <<dep, Shared>>

(***************************************************************************)
(* The checks that read only their request: what each may answer.          *)
(***************************************************************************)
Errors(q) == IF dep.errors THEN {HandleCheckError(q, ofRedis) : ofRedis \in BOOLEAN} ELSE {}

\* Variant of Flagged: the response is returned in passive mode as well.
FlaggedActively(q, may) == {Passed(q)} \cup (IF may THEN {Refused(q)} ELSE {}) \cup Errors(q)

\* A check that may find a violation refuses the request, except in passive mode.
Flagged(q, may) ==
    {Passed(q)} \cup (IF may /\ ~dep.passive THEN {Refused(q)} ELSE {}) \cup Errors(q)

\* route_config is stored before the address is, so an error loses only the address.
RouteConfigCheck(q) ==
    Flagged([q EXCEPT !.ip = q.client], dep.strict) \cup Errors(q)

EmergencyModeCheck(q) == Flagged(q, dep.emergency)
HttpsEnforcementCheck(q) == Flagged(q, q.route.present \/ dep.https)
RequestLoggingCheck(q) == {Passed(q)}
RequestSizeContentCheck(q) == Flagged(q, q.route.present)
RequiredHeadersCheck(q) == Flagged(q, q.route.present)
AuthenticationCheck(q) == Flagged(q, q.route.present)
ReferrerCheck(q) == Flagged(q, q.route.present)
CustomValidatorsCheck(q) == Flagged(q, q.route.present)
TimeWindowCheck(q) == Flagged(q, q.route.present)
CustomRequestCheck(q) == Flagged(q, dep.custom)

\* Schedules a refresh of the cloud ranges when one is due; no request waits
\* for it or is refused by it.
CloudIpRefreshCheck(q) == {Passed(q)} \cup Errors(q)

CloudProviderCheck(q) ==
    Flagged(q, ~(q.white \/ q.exempt) /\ q.ip # None /\ ~ShouldBypassCheck(q, "clouds"))

Local == Range(Checks) \ {"ip_security", "user_agent", "rate_limit", "suspicious_activity"}

LocalCheck(r) ==
    LET q == req[r]
    IN  /\ \/ q.at = "route_config" /\ Becomes(r, RouteConfigCheck(q))
           \/ q.at = "emergency_mode" /\ Becomes(r, EmergencyModeCheck(q))
           \/ q.at = "https_enforcement" /\ Becomes(r, HttpsEnforcementCheck(q))
           \/ q.at = "request_logging" /\ Becomes(r, RequestLoggingCheck(q))
           \/ q.at = "request_size_content" /\ Becomes(r, RequestSizeContentCheck(q))
           \/ q.at = "required_headers" /\ Becomes(r, RequiredHeadersCheck(q))
           \/ q.at = "authentication" /\ Becomes(r, AuthenticationCheck(q))
           \/ q.at = "referrer" /\ Becomes(r, ReferrerCheck(q))
           \/ q.at = "custom_validators" /\ Becomes(r, CustomValidatorsCheck(q))
           \/ q.at = "time_window" /\ Becomes(r, TimeWindowCheck(q))
           \/ q.at = "cloud_ip_refresh" /\ Becomes(r, CloudIpRefreshCheck(q))
           \/ q.at = "cloud_provider" /\ Becomes(r, CloudProviderCheck(q))
           \/ q.at = "custom_request" /\ Becomes(r, CustomRequestCheck(q))
        /\ UNCHANGED <<dep, Shared>>

(***************************************************************************)
(* Access by address.  A country rule admits only, or all but, the clients *)
(* of dep.home; dep.cloud are the addresses of blocked cloud providers.    *)
(***************************************************************************)
CountryAccess(ip, countries) ==
    CASE countries = "any" -> "silent"
      [] countries = "only_home" -> IF ip \in dep.home THEN "allow" ELSE "deny"
      [] countries = "not_home" -> IF ip \in dep.home THEN "deny" ELSE "silent"

CheckRouteIpAccess(ip, route) ==
    IF ip = Unknown THEN route.whitelist = {} /\ route.countries # "only_home"
    ELSE /\ IF route.whitelist # {} THEN ip \in route.whitelist ELSE ip \notin route.blacklist
         /\ CountryAccess(ip, route.countries) # "deny"

\* The possible answers: an error while the country or the provider is looked
\* up allows the address.
CheckIpAccess(ip, skipLists, skipCountries) ==
    IF ip = Unknown
    THEN {(skipLists \/ dep.whitelist = {}) /\ (skipCountries \/ dep.countries # "only_home")}
    ELSE LET listed == \/ skipLists
                       \/ IF dep.whitelist # {} THEN ip \in dep.whitelist ELSE ip \notin dep.blacklist
             located == \/ skipCountries \/ (~skipLists /\ ip \in dep.whitelist)
                        \/ CountryAccess(ip, dep.countries) # "deny"
         IN  {listed /\ located /\ ip \notin dep.cloud} \cup (IF dep.errors THEN {listed} ELSE {})

RouteOverridesIpLists(route) == route.whitelist # {}
RouteCountryWhitelistMatched(ip, route) == CountryAccess(ip, route.countries) = "allow"
ResolveIsWhitelisted(allowed, skipLists) == allowed /\ dep.whitelist # {} /\ ~skipLists
ResolveIsExempt(ip, allowed, skipLists) == allowed /\ ~skipLists /\ ip \in dep.exempt

\* The verdict of the global lists, and the flags that follow from it.
ResolveGlobalIpAccess(q, route) ==
    LET skip == RouteOverridesIpLists(route)
    IN  {[allowed |-> a,
          white |-> ResolveIsWhitelisted(a, skip),
          exempt |-> ResolveIsExempt(q.ip, a, skip)] :
            a \in CheckIpAccess(q.ip, skip, RouteCountryWhitelistMatched(q.ip, route))}

(***************************************************************************)
(* ip_security: the ban is looked up first, then the lists of the route    *)
(* and of the configuration.  user_agent, rate_limit, suspicious_activity. *)
(***************************************************************************)
\* Variant of CheckBannedIp: an excluded path skips the ban.
CheckBannedIpUnscoped(q) ==
    IF q.ip = None THEN Passed(q)
    ELSE IF q.ip \in banned /\ ~q.scoped /\ ~ShouldBypassCheck(q, "ip_ban") /\ ~dep.passive
    THEN [Refused(q) EXCEPT !.by = "ip_ban"]
    ELSE [q EXCEPT !.at = "ip_lists"]

CheckBannedIp(q) ==
    IF q.ip = None THEN Passed(q)
    ELSE IF q.ip \in banned /\ ~ShouldBypassCheck(q, "ip_ban") /\ ~dep.passive
    THEN [Refused(q) EXCEPT !.by = "ip_ban"]
    ELSE [q EXCEPT !.at = "ip_lists"]

\* The categories detection reports for the request on its route.
Detected(q) ==
    IF (IF q.route.present THEN q.route.detect ELSE dep.detection)
       /\ ~ShouldBypassCheck(q, "penetration")
    THEN q.threat ELSE {}

Counting(q, cats) == [q EXCEPT !.at = "count", !.cats = cats]

\* A refusal over identity is evidence only when detection finds a threat too.
EscalateIdentityViolation(q) ==
    IF q.white \/ Detected(q) = {} THEN Refused(q) ELSE Counting(q, Detected(q))

CheckGlobalIpRestrictions(q, route, escalate) ==
    {LET f == [q EXCEPT !.white = g.white, !.exempt = g.exempt]
     IN  IF g.allowed \/ dep.passive THEN Passed(f)
         ELSE IF escalate THEN EscalateIdentityViolation(f) ELSE Refused(f) :
        g \in ResolveGlobalIpAccess(q, route)}

CheckRouteIpRestrictions(q) ==
    q.route.present /\ ~CheckRouteIpAccess(q.ip, q.route) /\ ~dep.passive

\* Variants of IpSecurityLists: the flags are stored before the route's lists
\* are consulted; a refusal on an excluded path is escalated.
IpSecurityListsFlagged(q) ==
    IF q.scoped THEN CheckGlobalIpRestrictions(q, NoRoute, FALSE)
    ELSE IF ShouldBypassCheck(q, "ip") THEN {Passed(q)}
    ELSE IF CheckRouteIpRestrictions(q)
    THEN {EscalateIdentityViolation([q EXCEPT !.white = g.white]) :
            g \in ResolveGlobalIpAccess(q, q.route)}
    ELSE CheckGlobalIpRestrictions(q, q.route, TRUE)

IpSecurityListsEscalating(q) ==
    IF q.scoped THEN CheckGlobalIpRestrictions(q, NoRoute, TRUE)
    ELSE IF ShouldBypassCheck(q, "ip") THEN {Passed(q)}
    ELSE IF CheckRouteIpRestrictions(q)
    THEN {EscalateIdentityViolation(q)}
    ELSE CheckGlobalIpRestrictions(q, q.route, TRUE)

IpSecurityLists(q) ==
    IF q.scoped THEN CheckGlobalIpRestrictions(q, NoRoute, FALSE)
    ELSE IF ShouldBypassCheck(q, "ip") THEN {Passed(q)}
    ELSE IF CheckRouteIpRestrictions(q)
    THEN {EscalateIdentityViolation(q)}
    ELSE CheckGlobalIpRestrictions(q, q.route, TRUE)

UserAgentCheck(q) ==
    {Passed(q)} \cup Errors(q)
    \cup IF q.white \/ q.exempt \/ dep.passive THEN {}
         ELSE {IF q.ip = None THEN Refused(q) ELSE EscalateIdentityViolation(q)}

\* The tiers themselves are RateLimit's; here one may be exceeded.
RateLimitCheck(q) ==
    {Passed(q)} \cup Errors(q)
    \cup IF q.white \/ q.exempt \/ q.ip = None \/ ShouldBypassCheck(q, "rate_limit") \/ dep.passive
         THEN {}
         ELSE {IF dep.rateBan THEN Counting(q, {"rate_limit"}) ELSE Refused(q)}

\* Variant: exempt addresses are taken for whitelisted ones.
SuspiciousActivityCheckExempting(q) ==
    Errors(q) \cup {IF q.white \/ q.exempt \/ q.ip = None \/ Detected(q) = {} THEN Passed(q)
                    ELSE Counting(q, Detected(q))}

SuspiciousActivityCheck(q) ==
    Errors(q) \cup {IF q.white \/ q.ip = None \/ Detected(q) = {} THEN Passed(q)
                    ELSE Counting(q, Detected(q))}

SharedCheck(r) ==
    LET q == req[r]
    IN  /\ \/ q.at = "ip_security" /\ Becomes(r, {CheckBannedIp(q)} \cup Errors(q))
           \/ q.at = "ip_lists" /\ Becomes(r, IpSecurityLists(q) \cup Errors(q))
           \/ q.at = "user_agent" /\ Becomes(r, UserAgentCheck(q))
           \/ q.at = "rate_limit" /\ Becomes(r, RateLimitCheck(q))
           \/ q.at = "suspicious_activity" /\ Becomes(r, SuspiciousActivityCheck(q))
        /\ UNCHANGED <<dep, Shared>>

(***************************************************************************)
(* Counting: the client's entry is taken out of the map, incremented and   *)
(* put back as the newest; a new client may evict the oldest entry.        *)
(***************************************************************************)
Places(ip) == {i \in DOMAIN counts : counts[i].ip = ip}
Place(ip) == CHOOSE i \in Places(ip) : TRUE

EntryOf(ip) == IF Places(ip) = {} THEN <<>> ELSE <<counts[Place(ip)]>>
Others(ip) ==
    IF Places(ip) = {} THEN counts
    ELSE SubSeq(counts, 1, Place(ip) - 1) \o SubSeq(counts, Place(ip) + 1, Len(counts))

Evicts(entry, rest) == entry = <<>> /\ Len(rest) >= MaxTracked

Incremented(entry, cats) ==
    [k \in Categories |-> (IF entry = <<>> THEN 0 ELSE entry[1].n[k])
                          + (IF k \in cats THEN 1 ELSE 0)]

Stored(ip, entry, rest, cats) ==
    Append(IF Evicts(entry, rest) THEN Tail(rest) ELSE rest,
           [ip |-> ip, n |-> Incremented(entry, cats)])

Forgotten(entry, rest) ==
    forgot \cup (IF Evicts(entry, rest) THEN {Head(rest).ip} ELSE {})

Total(n) == MapThenSumSet(LAMBDA k : n[k], Categories)

\* Variants of ThresholdReached: the flat threshold, or a category's own, must
\* be passed, not reached.
FlatThresholdPassed(n, cats) ==
    dep.banning /\ (Total(n) > dep.flat
                    \/ \E k \in cats \cap DOMAIN dep.perCategory : n[k] >= dep.perCategory[k])

CategoryThresholdPassed(n, cats) ==
    dep.banning /\ (Total(n) >= dep.flat
                    \/ \E k \in cats \cap DOMAIN dep.perCategory : n[k] > dep.perCategory[k])

\* A category of this request at its own threshold, or all of them at the flat one.
ThresholdReached(n, cats) ==
    dep.banning /\ (Total(n) >= dep.flat
                    \/ \E k \in cats \cap DOMAIN dep.perCategory : n[k] >= dep.perCategory[k])

\* What the check answers once its client's counts, here entry, are judged.
\* ban_ip declines a trusted proxy and raises for an address that is none; it
\* copes with Redis errors itself.  escalate_identity_violation swallows what
\* is raised.
Judge(r, q, entry) ==
    LET reached == /\ ~dep.passive /\ entry # <<>>
                   /\ ThresholdReached(entry[1].n, q.cats)
        raises == reached /\ q.ip = Unknown
        swallows == q.check \in {"ip_security", "user_agent"}
    IN  /\ Becomes(r, {CASE dep.passive -> Passed(q)
                         [] raises /\ ~swallows -> HandleCheckError(q, FALSE)
                         [] OTHER -> Refused(q)})
        /\ called' = IF reached THEN called \cup {q.ip} ELSE called
        /\ banned' = IF reached /\ q.ip \notin dep.trusted \cup {Unknown}
                       THEN banned \cup {q.ip} ELSE banned

Recorded(q) == [q EXCEPT !.evidence = Append(@, q.cats)]

\* On the event loop nothing runs between the increment and the ban.
CountAndJudge(r) ==
    LET q == req[r]
        new == Stored(q.ip, EntryOf(q.ip), Others(q.ip), q.cats)
    IN  /\ q.at = "count" /\ ~dep.threads
        /\ counts' = new
        /\ forgot' = Forgotten(EntryOf(q.ip), Others(q.ip))
        /\ Judge(r, Recorded(q), <<new[Len(new)]>>)
        /\ UNCHANGED <<dep, lock>>

\* In a thread the lock covers the increment only.
TakeOut(r) ==
    LET q == req[r]
    IN  /\ q.at = "count" /\ dep.threads /\ lock = None
        /\ lock' = r
        /\ req' = [req EXCEPT ![r] = [q EXCEPT !.at = "put", !.hand = EntryOf(q.ip)]]
        /\ counts' = Others(q.ip)
        /\ UNCHANGED <<dep, banned, called, forgot>>

PutBack(r) ==
    LET q == req[r]
    IN  /\ q.at = "put"
        /\ counts' = Stored(q.ip, q.hand, counts, q.cats)
        /\ forgot' = Forgotten(q.hand, counts)
        /\ lock' = None
        /\ req' = [req EXCEPT ![r] = [Recorded(q) EXCEPT !.at = "judge", !.hand = <<>>]]
        /\ UNCHANGED <<dep, banned, called>>

JudgeUnlocked(r) ==
    /\ req[r].at = "judge"
    /\ Judge(r, req[r], EntryOf(req[r].ip))
    /\ UNCHANGED <<dep, counts, lock, forgot>>

Step(r) ==
    \/ Arrive(r) \/ LocalCheck(r) \/ SharedCheck(r)
    \/ CountAndJudge(r) \/ TakeOut(r) \/ PutBack(r) \/ JudgeUnlocked(r)

Uninterrupted(r) == \A o \in Reqs \ {r} : req[o].at \notin Local

\* A ban runs out.
Expire(c) ==
    /\ c \in banned
    /\ banned' = banned \ {c}
    /\ req' = [r \in Reqs |-> IF req[r].client = c THEN [req[r] EXCEPT !.held = FALSE] ELSE req[r]]
    /\ UNCHANGED <<dep, counts, lock, called, forgot>>

Next ==
    \/ \E r \in Reqs : Uninterrupted(r) /\ Step(r)
    \/ (\A r \in Reqs : req[r].at \notin Local) /\ \E c \in Clients : Expire(c)

Spec == Init /\ [][Next]_vars

(***************************************************************************)
(* Properties.                                                             *)
(***************************************************************************)
\* An error may let a request through only where the configuration says so.
FailedOpen(q) == q.raised /\ (~dep.failSecure \/ dep.redisFailOpen)

\* The global lists speak for the request: no route list replaces them and the
\* route does not turn them off.
GlobalListsApply(q) ==
    q.scoped \/ (~RouteOverridesIpLists(q.route) /\ ~ShouldBypassCheck(q, "ip"))

\* The global whitelist exempts the client: it is listed, and not an address of
\* a blocked provider.
GloballyWhitelisted(q) == q.client \in dep.whitelist \ dep.cloud /\ GlobalListsApply(q)

\* It is taken to: listed, and the lookup of its provider may have failed.
TakenForWhitelisted(q) ==
    /\ q.client \in dep.whitelist /\ (q.client \in dep.cloud => dep.errors)
    /\ GlobalListsApply(q)

\* Requests in active mode whose client was banned before they arrived, and
\* stayed so, are not served: whatever path they ask for, and whichever check
\* of whichever request banned the client.  (IpSecurityCheck._check_banned_ip;
\* routes that bypass ip_ban, and checks that fail open, excepted.)
BanHolds ==
    \A r \in Reqs :
        LET q == req[r]
        IN  q.at = "admitted" /\ q.held /\ ~dep.passive =>
                {"ip_ban", "all"} \cap q.route.bypass # {} \/ FailedOpen(q)

\* In passive mode nobody is banned, and nothing but a fail-secure error, or
\* an address that cannot be determined, refuses a request: seventeen checks
\* and the escalation each honour config.passive_mode for themselves.
PassiveNeverEnforces ==
    dep.passive =>
        /\ called = {} /\ banned = {}
        /\ \A r \in Reqs : req[r].at = "refused" =>
            dep.failSecure /\ req[r].by \in {"error", "unresolvable_client_address"}

\* In active mode a request in which detection finds a threat is not served,
\* unless its path, its route or the global whitelist exempts it: the flags
\* that ip_security leaves for suspicious_activity exempt nobody else.
ThreatNotServed ==
    \A r \in Reqs :
        LET q == req[r]
        IN  q.at = "admitted" /\ ~dep.passive /\ q.threat # {} =>
                \/ q.scoped \/ TakenForWhitelisted(q) \/ FailedOpen(q)
                \/ {"all", "penetration"} \cap q.route.bypass # {}
                \/ ~(IF q.route.present THEN q.route.detect ELSE dep.detection)

\* A refused request in which detection finds a threat is counted against its
\* client, exactly once, whether the address, the user agent or the threat was
\* what refused it (escalate_identity_violation, suspicious_activity); a
\* globally whitelisted client refused by a route's own list is no exception.
\* (A ban call that raises and fails open lets a later check count again.)
RefusedThreatIsCounted ==
    \A r \in Reqs :
        LET q == req[r]
        IN  /\ Len(q.evidence) <= 1 \/ FailedOpen(q)
            /\ /\ q.at = "refused" /\ q.by \in {"ip_security", "user_agent", "suspicious_activity"}
               /\ Detected(q) # {} /\ ~q.scoped /\ ~q.raised
               => q.evidence = <<Detected(q)>>

\* An excluded path gathers no evidence but its rate-limit violations, and a
\* globally whitelisted client is neither counted nor refused by the checks
\* that look for abuse, except where a route's own lists refuse it.
EvidenceIsScoped ==
    \A r \in Reqs :
        LET q == req[r]
        IN  /\ q.scoped => q.evidence \in {<<>>, <<{"rate_limit"}>>}
            /\ GloballyWhitelisted(q) /\ ~q.raised =>
                /\ q.by \notin {"cloud_provider", "user_agent", "rate_limit", "suspicious_activity"}
                /\ q.evidence # <<>> => q.at \in {"put", "judge"} \/ q.by = "ip_security"

\* Evidence is gathered exactly where it should be.
EvidenceIsExact == RefusedThreatIsCounted /\ EvidenceIsScoped

Unjudged(ip) == \E r \in Reqs : req[r].at = "judge" /\ req[r].ip = ip

\* Active counts that have reached the flat threshold have led to a ban call,
\* in threads as well: the last to put an entry back judges all of it.
\* (_resolve_and_apply_threshold_ban after _increment_suspicious_counts.)
FlatThresholdBans ==
    dep.banning /\ ~dep.passive =>
        \A i \in DOMAIN counts :
            LET e == counts[i]
            IN  Total(e.n) >= dep.flat => e.ip \in called \cup forgot \/ Unjudged(e.ip)

\* An address whose count for a category has reached the category's threshold
\* has been banned.  (docs/api/ban-config.md, how the policy is applied.)
CategoryBans ==
    dep.banning /\ ~dep.passive =>
        \A i \in DOMAIN counts :
            LET e == counts[i]
            IN  (\E k \in DOMAIN dep.perCategory : e.n[k] >= dep.perCategory[k]) =>
                    e.ip \in called \cup forgot \/ Unjudged(e.ip)

\* On the event loop, so have the counts of a category at its own threshold.
CategoryThresholdBans == ~dep.threads => CategoryBans

\* Counts that have reached a threshold have led to a ban.
ThresholdsBan == FlatThresholdBans /\ CategoryThresholdBans
=============================================================================
