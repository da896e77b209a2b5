------------------------ MODULE RequestChecksProofs ------------------------
(***************************************************************************)
(* For every configuration, and any number of clients and requests: a      *)
(* banned client is not served in active mode, passive mode enforces       *)
(* nothing, a threat is not served and is counted as it should be, and     *)
(* counts that reach a threshold lead to a ban.                            *)
(***************************************************************************)
EXTENDS RequestChecks, SequenceTheorems, WellFoundedInduction, TLAPS

\* The least of a set of positions is one of them.
LEMMA LeastIsMember ==
  ASSUME NEW S, S \subseteq Nat, S # {}
  PROVE  Min(S) \in S /\ \A y \in S : Min(S) <= y
<1> DEFINE less == {ss \in Nat \X Nat : ss[1] < ss[2]}
<1>1. IsWellFoundedOn(less, Nat)
  BY NatLessThanWellFounded, Zenon DEF OpToRel
<1>2. PICK x \in S : \A y \in S : ~(<<y, x>> \in less)
  <2> HIDE DEF less
  <2> QED BY <1>1, WFMin, Zenon
<1>3. \A y \in S : y \in Nat /\ x \in Nat /\ ~(y < x)
  BY <1>2, Zenon
<1>4. \A y \in S : x <= y
  BY <1>3
<1> QED BY <1>4, Zenon DEF Min

Fields == {"at", "client", "route", "threat", "scoped", "ip", "white", "exempt", "check",
           "cats", "hand", "by", "evidence", "raised", "held"}

IsReq(q) == q = [f \in Fields |-> q[f]]

\* The checks before the ban is looked up.
Early == {"route_config", "emergency_mode", "https_enforcement", "request_logging",
          "request_size_content", "required_headers", "authentication", "referrer",
          "custom_validators", "time_window", "cloud_ip_refresh"}

\* A request that the ban of its client has to stop.
Bound(q) ==
    /\ q.held /\ ~dep.passive /\ ~FailedOpen(q)
    /\ {"ip_ban", "all"} \cap q.route.bypass = {}

\* It is still on its way to ip_security, with the address the ban is for.
Stopped(q) ==
    \/ q.at = "refused"
    \/ /\ q.at \in Early \cup {"ip_security"} /\ q.check = q.at
       /\ q.at = "route_config" \/ q.ip = q.client

Excused(q) ==
    q.at = "refused" => dep.failSecure /\ q.by \in {"error", "unresolvable_client_address"}

Good(q) ==
    /\ IsReq(q)
    /\ q.held => q.client \in banned /\ q.client # None
    /\ Bound(q) => Stopped(q)
    /\ dep.passive => Excused(q)

Inv ==
    /\ dep \in Deployments
    /\ req = [r \in Reqs |-> req[r]]
    /\ \A r \in Reqs : Good(req[r])
    /\ dep.passive => called = {} /\ banned = {}

-----------------------------------------------------------------------------
(* The order of the checks.                                                *)

\* No check is called by the name of an answer, and none of the checks before
\* ip_security passes over it, on an excluded path or not.
LEMMA NextCheckFacts ==
  ASSUME NEW c, NEW s
  PROVE  /\ NextCheck(c, s) # None => NextCheck(c, s) \notin {"refused", "put", "judge"}
         /\ c \in Early => /\ NextCheck(c, s) \in Early \cup {"ip_security"}
                           /\ NextCheck(c, s) \notin {"route_config", None}
<1> DEFINE here == CHOOSE i \in DOMAIN Checks : Checks[i] = c
           later == {j \in DOMAIN Checks : j > here /\ (s => Checks[j] \in EnforcedOnExcludedPaths)}
<1>1. /\ DOMAIN Checks = 1..17
      /\ \A i \in 1..17 : Checks[i] \notin {"refused", "put", "judge"}
      /\ \A i \in 1..12 : Checks[i] \in Early \cup {"ip_security"}
      /\ \A i \in 2..12 : Checks[i] # "route_config"
      /\ Checks[12] = "ip_security"
      /\ \A e \in Early : \E i \in 1..11 : Checks[i] = e
      /\ \A i \in 12..17 : Checks[i] \notin Early
  BY DEF Checks, Early
<1>2. NextCheck(c, s) = IF later = {} THEN None ELSE Checks[Min(later)]
  BY Zenon DEF NextCheck
<1>3. later \subseteq 1..17 /\ later \subseteq Nat
  BY <1>1
<1>4. c \in Early => here \in 1..11 /\ 12 \in later
  BY <1>1 DEF EnforcedOnExcludedPaths
<1>5. \A j \in later : j > here
  BY Zenon
<1>6. None \notin Early \cup {"ip_security"}
  BY NoneAssumption DEF Positions, Early, Checks, Range
<1> HIDE DEF later, here
<1>7. ASSUME later # {} PROVE Min(later) \in later /\ \A y \in later : Min(later) <= y
  BY <1>3, <1>7, LeastIsMember, Zenon
<1>8. ASSUME later # {} PROVE NextCheck(c, s) \notin {"refused", "put", "judge"}
  <2>1. NextCheck(c, s) = Checks[Min(later)] /\ Min(later) \in 1..17
    BY <1>2, <1>3, <1>7, <1>8, Zenon
  <2>2. \A i \in 1..17 : Checks[i] \notin {"refused", "put", "judge"}
    BY <1>1, Zenon
  <2> QED BY <2>1, <2>2, Zenon
<1>9. ASSUME c \in Early PROVE Min(later) \in 2..12 /\ NextCheck(c, s) = Checks[Min(later)]
  <2>1. here \in 1..11 /\ 12 \in later
    BY Zenon, <1>4, <1>9
  <2>2. Min(later) \in later /\ Min(later) <= 12
    BY Zenon, <1>7, <2>1
  <2>3. Min(later) \in Nat /\ Min(later) > here
    BY <1>3, <1>5, <2>2, Zenon
  <2> QED BY <1>2, <2>1, <2>2, <2>3
<1>10. ASSUME c \in Early
       PROVE  NextCheck(c, s) \in Early \cup {"ip_security"} /\ NextCheck(c, s) # "route_config"
  BY <1>1, <1>9, <1>10
<1> QED BY Zenon, <1>2, <1>6, <1>8, <1>10

-----------------------------------------------------------------------------
(* What the answers of the checks keep.                                    *)

LEMMA PassedFields ==
  ASSUME NEW q, IsReq(q)
  PROVE  /\ IsReq(Passed(q))
         /\ Passed(q).held = q.held /\ Passed(q).client = q.client /\ Passed(q).ip = q.ip
         /\ Passed(q).raised = q.raised /\ Passed(q).route = q.route
         /\ IF NextCheck(q.check, q.scoped) = None
            THEN Passed(q).at = "admitted"
            ELSE /\ Passed(q).at = NextCheck(q.check, q.scoped)
                 /\ Passed(q).check = Passed(q).at
<1>1. CASE NextCheck(q.check, q.scoped) = None
  BY <1>1, Zenon DEF Passed, IsReq, Fields
<1>2. CASE NextCheck(q.check, q.scoped) # None
  BY <1>2, Zenon DEF Passed, IsReq, Fields
<1> QED BY Zenon, <1>1, <1>2

LEMMA PassedGood ==
  ASSUME NEW q, Good(q), Bound(q) => q.check \in Early /\ q.ip = q.client
  PROVE  Good(Passed(q))
<1> DEFINE p == Passed(q)
<1>1. /\ IsReq(p)
      /\ p.held = q.held /\ p.client = q.client /\ p.raised = q.raised /\ p.route = q.route
      /\ p.ip = q.ip
      /\ IF NextCheck(q.check, q.scoped) = None THEN p.at = "admitted"
         ELSE p.at = NextCheck(q.check, q.scoped) /\ p.check = p.at
  BY Zenon, PassedFields DEF Good
<1> HIDE DEF p
<1>2. p.at # "refused"
  BY Zenon, <1>1, NextCheckFacts
<1>3. Bound(p) <=> Bound(q)
  BY Zenon, <1>1 DEF Bound, FailedOpen
<1>4. ASSUME Bound(q) PROVE Stopped(p)
  BY Zenon, <1>1, <1>4, NextCheckFacts DEF Stopped
<1>5. Good(p)
  BY Zenon, <1>1, <1>2, <1>3, <1>4 DEF Good, Excused
<1> QED BY Zenon, <1>5 DEF p

\* A request whose position, and what the invariant does not look at, changes.
LEMMA Elsewhere ==
  ASSUME NEW q, NEW p, Good(q), IsReq(p), p.held = q.held, p.client = q.client,
         p.raised = q.raised, p.route = q.route,
         Bound(q) => Stopped(p), dep.passive => Excused(p)
  PROVE  Good(p)
BY Zenon DEF Good, Bound, FailedOpen

LEMMA RefusedGood ==
  ASSUME NEW q, Good(q), ~dep.passive
  PROVE  Good(Refused(q)) /\ Good([Refused(q) EXCEPT !.by = "ip_ban"])
<1>1. /\ IsReq(Refused(q)) /\ Refused(q).held = q.held /\ Refused(q).client = q.client
      /\ Refused(q).raised = q.raised /\ Refused(q).route = q.route
      /\ Refused(q).at = "refused"
  BY Zenon DEF Refused, Good, IsReq, Fields
<1>2. Good(Refused(q))
  BY Zenon, <1>1, Elsewhere DEF Stopped
<1> DEFINE p == [Refused(q) EXCEPT !.by = "ip_ban"]
<1>3. /\ IsReq(p) /\ p.held = q.held /\ p.client = q.client /\ p.raised = q.raised
      /\ p.route = q.route /\ p.at = "refused"
  BY Zenon, <1>1 DEF IsReq, Fields
<1> HIDE DEF p
<1>4. Good(p)
  BY Zenon, <1>3, Elsewhere DEF Stopped
<1> QED BY Zenon, <1>2, <1>4 DEF p

\* An error that does not refuse the request fails open.
LEMMA ErrorGood ==
  ASSUME NEW q, Good(q), NEW ofRedis \in BOOLEAN
  PROVE  Good(HandleCheckError(q, ofRedis))
<1> DEFINE e == [q EXCEPT !.raised = TRUE]
<1>1. /\ IsReq(e) /\ e.held = q.held /\ e.client = q.client /\ e.raised = TRUE
      /\ e.at = q.at /\ e.by = q.by /\ e.check = q.check /\ e.ip = q.ip /\ e.route = q.route
  BY Zenon DEF Good, IsReq, Fields
<1>2. Good(e)
  BY Zenon, <1>1 DEF Good, Bound, FailedOpen, Stopped, Excused
<1>3. CASE dep.failSecure /\ ~(ofRedis /\ dep.redisFailOpen)
  <2> DEFINE p == [e EXCEPT !.at = "refused", !.by = "error"]
  <2>1. /\ IsReq(p) /\ p.held = e.held /\ p.client = e.client /\ p.raised = e.raised
        /\ p.route = e.route /\ p.at = "refused" /\ p.by = "error"
    BY <1>1, Zenon DEF IsReq, Fields
  <2>2. HandleCheckError(q, ofRedis) = p
    BY Zenon, <1>3 DEF HandleCheckError
  <2> HIDE DEF p, e
  <2> QED BY Zenon, <1>2, <1>3, <2>1, <2>2, Elsewhere DEF Stopped, Excused
<1>4. CASE ~(dep.failSecure /\ ~(ofRedis /\ dep.redisFailOpen))
  <2>1. HandleCheckError(q, ofRedis) = Passed(e)
    BY Zenon, <1>4 DEF HandleCheckError
  <2>2. ~Bound(e)
    BY Zenon, <1>1, <1>4 DEF Bound, FailedOpen
  <2> HIDE DEF e
  <2> QED BY Zenon, <1>2, <2>1, <2>2, PassedGood
<1> QED BY Zenon, <1>3, <1>4

LEMMA ErrorsGood == ASSUME NEW q, Good(q), NEW p \in Errors(q) PROVE Good(p)
BY Zenon, ErrorGood DEF Errors

LEMMA FlaggedGood ==
  ASSUME NEW q, NEW may, Good(q), Bound(q) => q.check \in Early /\ q.ip = q.client,
         NEW p \in Flagged(q, may)
  PROVE  Good(p)
BY PassedGood, RefusedGood, ErrorsGood, Zenon DEF Flagged

LEMMA CountingGood ==
  ASSUME NEW q, NEW cats, Good(q), ~Bound(q)
  PROVE  Good(Counting(q, cats))
<1> DEFINE p == Counting(q, cats)
<1>1. /\ IsReq(p) /\ p.held = q.held /\ p.client = q.client /\ p.raised = q.raised
      /\ p.route = q.route /\ p.at = "count"
  BY Zenon DEF Counting, Good, IsReq, Fields
<1> HIDE DEF p
<1>2. Good(p)
  BY Zenon, <1>1, Elsewhere DEF Excused
<1> QED BY Zenon, <1>2 DEF p

LEMMA EscalateGood ==
  ASSUME NEW q, Good(q), ~Bound(q), ~dep.passive
  PROVE  Good(EscalateIdentityViolation(q))
BY RefusedGood, CountingGood, Zenon DEF EscalateIdentityViolation

-----------------------------------------------------------------------------
(* The checks.                                                             *)

LEMMA RouteConfigGood ==
  ASSUME NEW q, Good(q), q.at = "route_config", NEW p \in RouteConfigCheck(q)
  PROVE  Good(p)
<1> DEFINE e == [q EXCEPT !.ip = q.client]
<1>1. /\ IsReq(e) /\ e.held = q.held /\ e.client = q.client /\ e.raised = q.raised
      /\ e.route = q.route /\ e.at = q.at /\ e.by = q.by /\ e.check = q.check
      /\ e.ip = q.client
  BY Zenon DEF Good, IsReq, Fields
<1>2. p \in Flagged(e, dep.strict) \cup Errors(q)
  BY Zenon DEF RouteConfigCheck
<1> HIDE DEF e
<1>3. Good(e) /\ (Bound(e) => e.check \in Early /\ e.ip = e.client)
  BY Zenon, <1>1 DEF Good, Bound, FailedOpen, Stopped, Excused, Early
<1> QED BY Zenon, <1>2, <1>3, FlaggedGood, ErrorsGood

\* The other checks that look at their request only.
LEMMA LocalGood ==
  ASSUME NEW q, Good(q), q.at \notin {"route_config", "refused", "ip_security"},
         NEW p, NEW may, p \in Flagged(q, may) \cup {Passed(q)} \cup Errors(q)
  PROVE  Good(p)
<1>1. Bound(q) => q.check \in Early /\ q.ip = q.client
  BY Zenon DEF Good, Stopped
<1> QED BY Zenon, <1>1, FlaggedGood, PassedGood, ErrorsGood

LEMMA BannedGood ==
  ASSUME NEW q, Good(q), q.at = "ip_security", NEW p \in {CheckBannedIp(q)} \cup Errors(q)
  PROVE  Good(p)
<1>1. Bound(q) => q.ip = q.client /\ q.client \in banned /\ q.ip # None
  BY Zenon DEF Good, Stopped, Bound
<1>2. CASE q.ip = None
  <2>1. ~Bound(q)
    BY Zenon, <1>1, <1>2
  <2> QED BY Zenon, <1>2, <2>1, PassedGood, ErrorsGood DEF CheckBannedIp
<1>3. CASE q.ip # None /\ q.ip \in banned /\ ~ShouldBypassCheck(q, "ip_ban") /\ ~dep.passive
  BY Zenon, <1>3, RefusedGood, ErrorsGood DEF CheckBannedIp
<1>4. CASE q.ip # None /\ ~(q.ip \in banned /\ ~ShouldBypassCheck(q, "ip_ban") /\ ~dep.passive)
  <2>1. ~Bound(q)
    BY Zenon, <1>1, <1>4 DEF Bound, ShouldBypassCheck
  <2> DEFINE e == [q EXCEPT !.at = "ip_lists"]
  <2>2. /\ IsReq(e) /\ e.held = q.held /\ e.client = q.client /\ e.raised = q.raised
        /\ e.route = q.route /\ e.at = "ip_lists"
    BY Zenon DEF Good, IsReq, Fields
  <2>3. p = e \/ p \in Errors(q)
    BY Zenon, <1>4 DEF CheckBannedIp
  <2> HIDE DEF e
  <2>4. Good(e)
    BY Zenon, <2>1, <2>2, Elsewhere DEF Excused
  <2> QED BY Zenon, <2>3, <2>4, ErrorsGood
<1> QED BY Zenon, <1>2, <1>3, <1>4

\* From here on the ban has been looked up: no request is bound.
LEMMA ListsGood ==
  ASSUME NEW q, Good(q), ~Bound(q), NEW p \in IpSecurityLists(q) \cup Errors(q)
  PROVE  Good(p)
<1>1. ASSUME NEW route, NEW escalate, NEW d \in CheckGlobalIpRestrictions(q, route, escalate)
      PROVE  Good(d)
  <2>1. PICK g \in ResolveGlobalIpAccess(q, route) :
          LET f == [q EXCEPT !.white = g.white, !.exempt = g.exempt]
          IN  d = IF g.allowed \/ dep.passive THEN Passed(f)
                  ELSE IF escalate THEN EscalateIdentityViolation(f) ELSE Refused(f)
    BY <1>1, Zenon DEF CheckGlobalIpRestrictions
  <2> DEFINE f == [q EXCEPT !.white = g.white, !.exempt = g.exempt]
  <2>2. /\ IsReq(f) /\ f.held = q.held /\ f.client = q.client /\ f.raised = q.raised
        /\ f.route = q.route /\ f.at = q.at /\ f.by = q.by
    BY Zenon DEF Good, IsReq, Fields
  <2>3. d = IF g.allowed \/ dep.passive THEN Passed(f)
            ELSE IF escalate THEN EscalateIdentityViolation(f) ELSE Refused(f)
    BY Zenon, <2>1
  <2> HIDE DEF f
  <2>4. Good(f) /\ ~Bound(f)
    BY Zenon, <2>2 DEF Good, Bound, FailedOpen, Excused
  <2> QED BY <2>3, <2>4, PassedGood, EscalateGood, RefusedGood, Zenon
<1>2. CheckRouteIpRestrictions(q) => Good(EscalateIdentityViolation(q))
  BY Zenon, EscalateGood DEF CheckRouteIpRestrictions
<1>3. Good(Passed(q))
  BY Zenon, PassedGood
<1> QED BY <1>1, <1>2, <1>3, ErrorsGood, Zenon DEF IpSecurityLists

LEMMA LaterGood ==
  ASSUME NEW q, Good(q), ~Bound(q),
         NEW p \in UserAgentCheck(q) \cup RateLimitCheck(q) \cup SuspiciousActivityCheck(q)
  PROVE  Good(p)
<1>1. Good(Passed(q)) /\ Good(Counting(q, {"rate_limit"})) /\ Good(Counting(q, Detected(q)))
  BY Zenon, PassedGood, CountingGood
<1>2. ~dep.passive => Good(Refused(q)) /\ Good(EscalateIdentityViolation(q))
  BY RefusedGood, EscalateGood, Zenon
<1>3. ASSUME p \in UserAgentCheck(q) PROVE Good(p)
  BY Zenon, <1>1, <1>2, <1>3, ErrorsGood DEF UserAgentCheck
<1>4. ASSUME p \in RateLimitCheck(q) PROVE Good(p)
  BY Zenon, <1>1, <1>2, <1>4, ErrorsGood DEF RateLimitCheck
<1>5. ASSUME p \in SuspiciousActivityCheck(q) PROVE Good(p)
  BY Zenon, <1>1, <1>5, ErrorsGood DEF SuspiciousActivityCheck
<1> QED BY Zenon, <1>3, <1>4, <1>5

-----------------------------------------------------------------------------
(* The steps.                                                              *)

\* A step of the request r, while bans are added at most.
LEMMA OneRequestMoves ==
  ASSUME Inv, dep' = dep, banned \subseteq banned', NEW r \in Reqs, NEW p, Good(p),
         req' = [req EXCEPT ![r] = p],
         dep.passive => called' = {} /\ banned' = {}
  PROVE  Inv'
<1>1. ASSUME NEW q, Good(q) PROVE Good(q)'
  BY Zenon, <1>1 DEF Good, Bound, FailedOpen, Excused
<1>2. req' = [o \in Reqs |-> req'[o]] /\ \A o \in Reqs : req'[o] = IF o = r THEN p ELSE req[o]
  BY Zenon DEF Inv
<1>3. \A o \in Reqs : Good(req'[o])
  BY Zenon, <1>2 DEF Inv
<1> QED BY Zenon, <1>1, <1>2, <1>3 DEF Inv

LEMMA ArriveKeepsInv == ASSUME Inv, NEW r \in Reqs, Arrive(r) PROVE Inv'
<1>1. UNCHANGED <<dep, banned, called>>
  BY Zenon DEF Arrive, Shared
<1>2. PICK c \in dep.clients, rt \in dep.routes, t \in dep.threats, excluded \in dep.excluded :
        LET q == HandlePassthrough([Fresh EXCEPT !.client = c, !.route = rt, !.threat = t,
                                                 !.held = c \in banned], excluded)
        IN  req' = [req EXCEPT ![r] = IF q.at = "new" THEN HandleSecurityBypass(q) ELSE q]
  BY Zenon DEF Arrive
<1> DEFINE n == [Fresh EXCEPT !.client = c, !.route = rt, !.threat = t, !.held = c \in banned]
           q == HandlePassthrough(n, excluded)
           p == IF q.at = "new" THEN HandleSecurityBypass(q) ELSE q
<1>3. /\ IsReq(n) /\ n.at = "new" /\ n.client = c /\ n.held = (c \in banned) /\ n.raised = FALSE
      /\ n.route = rt
  BY Zenon DEF Fresh, IsReq, Fields
<1>4. c # None
  BY Zenon, NoneAssumption DEF Inv
<1>5. req' = [req EXCEPT ![r] = p]
  BY Zenon, <1>2
<1> HIDE DEF n
<1>6. /\ IsReq(q) /\ q.client = c /\ q.held = n.held /\ q.raised = n.raised /\ q.route = rt
      /\ \/ q.at = "new"
         \/ q.at = "refused" /\ dep.failSecure /\ q.by = "unresolvable_client_address"
  BY <1>3, Zenon DEF HandlePassthrough, IsReq, Fields
<1> HIDE DEF q
<1>7. /\ IsReq(p) /\ p.client = c /\ p.held = n.held /\ p.raised = n.raised /\ p.route = rt
      /\ \/ p.at = "refused" /\ dep.failSecure /\ p.by = "unresolvable_client_address"
         \/ p.at = "route_config" /\ p.check = "route_config"
         \/ p.at = "admitted" /\ "all" \in rt.bypass
  <2>1. CASE q.at # "new"
    BY Zenon, <1>6, <2>1
  <2>2. CASE q.at = "new" /\ ShouldBypassCheck(q, "all") /\ ~dep.passive
    <3>1. "all" \in rt.bypass
      BY Zenon, <1>6, <2>2 DEF ShouldBypassCheck
    <3>2. p = [q EXCEPT !.at = "admitted"]
      BY Zenon, <2>2 DEF HandleSecurityBypass
    <3> QED BY Zenon, <1>6, <3>1, <3>2 DEF IsReq, Fields
  <2>3. CASE q.at = "new" /\ ~(ShouldBypassCheck(q, "all") /\ ~dep.passive)
    <3>1. p = [q EXCEPT !.at = "route_config", !.check = "route_config"]
      BY Zenon, <2>3 DEF HandleSecurityBypass
    <3> QED BY <1>6, <3>1, Zenon DEF IsReq, Fields
  <2> QED BY Zenon, <2>1, <2>2, <2>3
<1> HIDE DEF p
<1>8. Good(p)
  BY <1>3, <1>4, <1>7, Zenon DEF Good, Bound, Stopped, Excused, Early
<1> QED BY Zenon, <1>1, <1>5, <1>8, OneRequestMoves DEF Inv

LEMMA LocalKeepsInv == ASSUME Inv, NEW r \in Reqs, LocalCheck(r) PROVE Inv'
<1> DEFINE q == req[r]
<1>1. UNCHANGED <<dep, banned, called>> /\ Good(q)
  BY Zenon DEF LocalCheck, Shared, Inv
<1>2. CASE q.at = "route_config" /\ Becomes(r, RouteConfigCheck(q))
  BY Zenon, <1>1, <1>2, RouteConfigGood, OneRequestMoves DEF Becomes, Inv
<1>3. CASE /\ q.at \notin {"route_config", "refused", "ip_security"}
           /\ \E may : Becomes(r, Flagged(q, may) \cup {Passed(q)} \cup Errors(q))
  BY Zenon, <1>1, <1>3, LocalGood, OneRequestMoves DEF Becomes, Inv
<1>4. \/ q.at = "route_config" /\ Becomes(r, RouteConfigCheck(q))
      \/ /\ q.at \notin {"route_config", "refused", "ip_security"}
         /\ \E may : Becomes(r, Flagged(q, may) \cup {Passed(q)} \cup Errors(q))
  BY Zenon DEF LocalCheck, Becomes, EmergencyModeCheck, HttpsEnforcementCheck, RequestLoggingCheck,
         RequestSizeContentCheck, RequiredHeadersCheck, AuthenticationCheck, ReferrerCheck,
         CustomValidatorsCheck, TimeWindowCheck, CloudIpRefreshCheck, CloudProviderCheck,
         CustomRequestCheck
<1> QED BY Zenon, <1>2, <1>3, <1>4

LEMMA SharedKeepsInv == ASSUME Inv, NEW r \in Reqs, SharedCheck(r) PROVE Inv'
<1> DEFINE q == req[r]
<1>1. UNCHANGED <<dep, banned, called>> /\ Good(q)
  BY Zenon DEF SharedCheck, Shared, Inv
<1>2. q.at \in {"ip_lists", "user_agent", "rate_limit", "suspicious_activity"} => ~Bound(q)
  BY Zenon, <1>1 DEF Good, Stopped, Early
<1>3. CASE q.at = "ip_security" /\ Becomes(r, {CheckBannedIp(q)} \cup Errors(q))
  BY Zenon, <1>1, <1>3, BannedGood, OneRequestMoves DEF Becomes, Inv
<1>4. CASE q.at = "ip_lists" /\ Becomes(r, IpSecurityLists(q) \cup Errors(q))
  BY Zenon, <1>1, <1>2, <1>4, ListsGood, OneRequestMoves DEF Becomes, Inv
<1>5. CASE \/ q.at = "user_agent" /\ Becomes(r, UserAgentCheck(q))
           \/ q.at = "rate_limit" /\ Becomes(r, RateLimitCheck(q))
           \/ q.at = "suspicious_activity" /\ Becomes(r, SuspiciousActivityCheck(q))
  BY Zenon, <1>1, <1>2, <1>5, LaterGood, OneRequestMoves DEF Becomes, Inv
<1> QED BY Zenon, <1>3, <1>4, <1>5 DEF SharedCheck

LEMMA JudgeKeepsInv ==
  ASSUME Inv, NEW r \in Reqs, NEW q, Good(q), ~Bound(q), NEW entry, Judge(r, q, entry), dep' = dep
  PROVE  Inv'
<1>1. CASE dep.passive
  <2>1. req' = [req EXCEPT ![r] = Passed(q)] /\ called' = called /\ banned' = banned
    BY Zenon, <1>1 DEF Judge, Becomes
  <2> QED BY Zenon, <1>1, <2>1, PassedGood, OneRequestMoves DEF Inv
<1>2. CASE ~dep.passive
  <2>1. banned \subseteq banned'
    BY Zenon DEF Judge
  <2>2. \E p \in {HandleCheckError(q, FALSE), Refused(q)} : req' = [req EXCEPT ![r] = p]
    BY <1>2, Zenon DEF Judge, Becomes
  <2>3. Good(HandleCheckError(q, FALSE)) /\ Good(Refused(q))
    BY <1>2, ErrorGood, RefusedGood, Zenon
  <2> QED BY <1>2, <2>1, <2>2, <2>3, OneRequestMoves, Zenon
<1> QED BY Zenon, <1>1, <1>2

LEMMA CountingKeepsInv ==
  ASSUME Inv, NEW r \in Reqs, CountAndJudge(r) \/ TakeOut(r) \/ PutBack(r) \/ JudgeUnlocked(r)
  PROVE  Inv'
<1> DEFINE q == req[r]
<1>1. Good(q) /\ ~Bound(q) /\ dep' = dep
  BY Zenon DEF CountAndJudge, TakeOut, PutBack, JudgeUnlocked, Inv, Good, Stopped, Early
<1>2. /\ IsReq(Recorded(q)) /\ Recorded(q).held = q.held /\ Recorded(q).client = q.client
      /\ Recorded(q).raised = q.raised /\ Recorded(q).route = q.route
      /\ Recorded(q).at = q.at /\ Recorded(q).by = q.by
  BY <1>1, Zenon DEF Recorded, Good, IsReq, Fields
<1>3. Good(Recorded(q)) /\ ~Bound(Recorded(q))
  BY Zenon, <1>1, <1>2 DEF Good, Bound, FailedOpen, Excused
<1>4. CASE CountAndJudge(r)
  <2>1. \E entry : Judge(r, Recorded(q), entry)
    BY Zenon, <1>4 DEF CountAndJudge
  <2> QED BY Zenon, <1>1, <1>3, <2>1, JudgeKeepsInv
<1>5. CASE JudgeUnlocked(r)
  <2>1. \E entry : Judge(r, q, entry)
    BY Zenon, <1>5 DEF JudgeUnlocked
  <2> QED BY Zenon, <1>1, <2>1, JudgeKeepsInv
<1>6. CASE TakeOut(r)
  <2> DEFINE p == [q EXCEPT !.at = "put", !.hand = EntryOf(q.ip)]
  <2>1. /\ IsReq(p) /\ p.held = q.held /\ p.client = q.client /\ p.raised = q.raised
        /\ p.route = q.route /\ p.at = "put"
    BY <1>1, Zenon DEF Good, IsReq, Fields
  <2>2. req' = [req EXCEPT ![r] = p] /\ UNCHANGED <<banned, called>>
    BY Zenon, <1>6 DEF TakeOut
  <2> HIDE DEF p
  <2>3. Good(p)
    BY Zenon, <1>1, <2>1, Elsewhere DEF Excused
  <2> QED BY Zenon, <1>1, <2>2, <2>3, OneRequestMoves DEF Inv
<1>7. CASE PutBack(r)
  <2> DEFINE p == [Recorded(q) EXCEPT !.at = "judge", !.hand = <<>>]
  <2>1. /\ IsReq(p) /\ p.held = q.held /\ p.client = q.client /\ p.raised = q.raised
        /\ p.route = q.route /\ p.at = "judge"
    BY <1>2, Zenon DEF IsReq, Fields
  <2>2. req' = [req EXCEPT ![r] = p] /\ UNCHANGED <<banned, called>>
    BY Zenon, <1>7 DEF PutBack
  <2> HIDE DEF p
  <2>3. Good(p)
    BY Zenon, <1>1, <2>1, Elsewhere DEF Excused
  <2> QED BY Zenon, <1>1, <2>2, <2>3, OneRequestMoves DEF Inv
<1> QED BY Zenon, <1>4, <1>5, <1>6, <1>7

\* When a ban runs out, the requests of its client are no longer held by it.
LEMMA ExpireKeepsInv == ASSUME Inv, NEW c \in Clients, Expire(c) PROVE Inv'
<1>1. ASSUME NEW o \in Reqs PROVE Good(req[o])'
  <2>1. CASE req[o].client = c
    <3> DEFINE p == [req[o] EXCEPT !.held = FALSE]
    <3>1. IsReq(p) /\ p.held = FALSE /\ p.at = req[o].at /\ p.by = req[o].by
      BY Zenon DEF Inv, Good, IsReq, Fields
    <3>2. req'[o] = p /\ dep' = dep
      BY Zenon, <2>1 DEF Expire
    <3> HIDE DEF p
    <3> QED BY Zenon, <3>1, <3>2 DEF Inv, Good, Bound, Excused, IsReq
  <2>2. CASE req[o].client # c
    <3>1. req'[o] = req[o] /\ dep' = dep /\ banned' = banned \ {c}
      BY Zenon, <2>2 DEF Expire
    <3> QED BY <2>2, <3>1 DEF Inv, Good, Bound, FailedOpen, Stopped, Excused, IsReq
  <2> QED BY Zenon, <2>1, <2>2
<1>2. req' = [o \in Reqs |-> req'[o]]
  BY Zenon DEF Expire
<1> QED BY Zenon, <1>1, <1>2 DEF Inv, Expire

LEMMA InvInit == Init => Inv
<1> SUFFICES ASSUME Init PROVE Inv
  BY Zenon
<1>1. IsReq(Fresh) /\ Fresh.held = FALSE /\ Fresh.at = "new"
  BY Zenon DEF Fresh, IsReq, Fields
<1>2. Good(Fresh)
  BY Zenon, <1>1 DEF Good, Bound, Excused
<1> QED BY Zenon, <1>2 DEF Init, Inv

LEMMA InvStep == Inv /\ [Next]_vars => Inv'
<1> SUFFICES ASSUME Inv, [Next]_vars PROVE Inv'
  BY Zenon
<1>1. ASSUME NEW r \in Reqs, Step(r) PROVE Inv'
  BY Zenon, <1>1, ArriveKeepsInv, LocalKeepsInv, SharedKeepsInv, CountingKeepsInv DEF Step
<1>2. CASE UNCHANGED vars
  BY <1>2 DEF vars, Inv, Good, IsReq, Bound, FailedOpen, Stopped, Excused
<1> QED BY Zenon, <1>1, <1>2, ExpireKeepsInv DEF Next

\* IpSecurityCheck._check_banned_ip comes before whatever could serve the
\* request: a client that was banned before its request arrived, and stays so,
\* is not served in active mode, in any configuration.
THEOREM BannedAreNotServed == Spec => []BanHolds
<1>1. Inv => BanHolds
  BY Zenon DEF Inv, Good, Bound, Stopped, Early, BanHolds
<1> QED BY <1>1, InvInit, InvStep, PTL DEF Spec

\* Every check and the escalation honour config.passive_mode, in any
\* configuration.
THEOREM PassiveModeIsPassive == Spec => []PassiveNeverEnforces
<1>1. Inv => PassiveNeverEnforces
  BY Zenon DEF Inv, Good, Excused, PassiveNeverEnforces
<1> QED BY <1>1, InvInit, InvStep, PTL DEF Spec

-----------------------------------------------------------------------------
(* What a request has behind it: the second inductive invariant.           *)

\* The checks that count what detection finds, the ones after ip_security, and
\* the positions of a request that is being counted.
Detecting == {"ip_security", "user_agent", "suspicious_activity"}
Middle == {"cloud_provider", "user_agent", "rate_limit", "suspicious_activity"}
Tallying == {"count", "put", "judge"}
Over == {"judge", "custom_request", "admitted", "refused"}

\* A request that suspicious_activity has to stop.
Due(q) ==
    /\ ~dep.passive /\ q.threat # {}
    /\ ~q.scoped /\ ~TakenForWhitelisted(q) /\ ~FailedOpen(q)
    /\ {"all", "penetration"} \cap q.route.bypass = {}
    /\ IF q.route.present THEN q.route.detect ELSE dep.detection

\* What it carries, wherever it is.
Carried(q) ==
    /\ IsReq(q)
    /\ q.at # "new" => q.client # None /\ q.client \in dep.clients
    /\ q.ip \in {None, q.client}
    /\ q.white => TakenForWhitelisted(q)

\* Where it is goes with the check it is in; an error that has not refused it has
\* failed open, and without one its address is known and, once the global lists
\* have been consulted, so is whether they whitelist it.
Placed(q) ==
    /\ q.at \in Positions
    /\ q.at \in Range(Checks) => q.check = q.at
    /\ q.at = "ip_lists" => q.check = "ip_security" /\ q.ip # None
    /\ q.at # "refused" => q.by = None
    /\ q.raised => FailedOpen(q) \/ q.at = "refused"
    /\ q.at \in Range(Checks) /\ q.scoped => q.at \in EnforcedOnExcludedPaths
    /\ q.at \in Early \cup {"ip_security", "ip_lists"} => ~q.white
    /\ q.at \in (Range(Checks) \ {"route_config"}) \cup {"ip_lists"} /\ ~q.raised =>
         q.ip = q.client
    /\ q.at \in Middle \cup {"custom_request"} /\ GloballyWhitelisted(q) /\ ~q.raised => q.white
    /\ q.at \in {"custom_request", "admitted"} => ~Due(q)

\* What is being counted, and by which check.
Tallied(q) ==
    q.at \in Tallying =>
        /\ q.check \in Detecting \cup {"rate_limit"} /\ q.ip = q.client
        /\ q.cats = IF q.check = "rate_limit" THEN {"rate_limit"} ELSE Detected(q)
        /\ dep.passive => q.check = "suspicious_activity"
        /\ q.scoped => q.check = "rate_limit"
        /\ GloballyWhitelisted(q) /\ ~q.raised => q.check = "ip_security"

\* One count at most, on an excluded path of a rate-limit violation.
Brief(q) ==
    \/ q.evidence = <<>>
    \/ q.evidence = <<q.evidence[1]>> /\ (q.scoped => q.evidence[1] = {"rate_limit"})

\* What has been counted.
Counted(q) ==
    /\ q.scoped \/ ~FailedOpen(q) =>
         /\ q.at \notin Over => q.evidence = <<>>
         /\ q.at = "judge" => q.evidence = <<q.cats>>
         /\ Brief(q)
    /\ q.at = "refused" /\ q.by \in Detecting /\ Detected(q) # {} /\ ~q.scoped /\ ~q.raised =>
         q.evidence = <<Detected(q)>>
    /\ GloballyWhitelisted(q) /\ ~q.raised =>
         /\ q.by \notin Middle
         /\ q.evidence = <<>> \/ q.at = "judge" \/ (q.at = "refused" /\ q.by = "ip_security")

Traced(q) == Carried(q) /\ Placed(q) /\ Tallied(q) /\ Counted(q)

TraceInv ==
    /\ dep \in Deployments
    /\ req = [r \in Reqs |-> req[r]]
    /\ \A r \in Reqs : Traced(req[r])

-----------------------------------------------------------------------------

\* The order of the checks once more: where the next one can be.
LEMMA NextSteps ==
  ASSUME NEW c \in Range(Checks), NEW s, s => c \in EnforcedOnExcludedPaths
  PROVE  LET n == NextCheck(c, s)
         IN  /\ n # None => n \in Range(Checks) /\ (s => n \in EnforcedOnExcludedPaths)
             /\ n # "route_config"
             /\ n \in Early \cup {"ip_security"} => c \in Early
             /\ n = "custom_request" => c = "suspicious_activity"
             /\ n = None => c = "custom_request" \/ (s /\ c = "rate_limit")
             /\ n \in Range(Checks) \ {"custom_request"} =>
                  c \notin {"suspicious_activity", "custom_request"} /\ ~(s /\ c = "rate_limit")
<1> DEFINE here == CHOOSE i \in DOMAIN Checks : Checks[i] = c
           later == {j \in DOMAIN Checks : j > here /\ (s => Checks[j] \in EnforcedOnExcludedPaths)}
           n == NextCheck(c, s)
<1>1. /\ DOMAIN Checks = 1..17 /\ Range(Checks) = {Checks[i] : i \in 1..17}
      /\ Checks[1] = "route_config" /\ Checks[12] = "ip_security" /\ Checks[15] = "rate_limit"
      /\ Checks[16] = "suspicious_activity" /\ Checks[17] = "custom_request"
  BY DEF Checks, Range
<1>2. /\ \A i, j \in 1..17 : Checks[i] = Checks[j] => i = j
      /\ \A i \in 1..17 : Checks[i] \in Early => i <= 11
      /\ \A i \in 1..11 : Checks[i] \in Early
  BY DEF Checks, Early
<1>3. None \notin Range(Checks)
  BY Zenon, NoneAssumption DEF Positions
<1>4. n = IF later = {} THEN None ELSE Checks[Min(later)]
  BY Zenon DEF NextCheck
<1>5. here \in 1..17 /\ Checks[here] = c
  BY Zenon, <1>1
<1>6. later \subseteq 1..17 /\ later \subseteq Nat
  BY <1>1
<1>7. \A i \in 1..17 : Checks[i] \in EnforcedOnExcludedPaths <=> i \in {1, 12, 15}
  BY DEF Checks, EnforcedOnExcludedPaths
<1>8. \A j \in 1..17 : j \in later <=> j > here /\ (s => j \in {1, 12, 15})
  BY Zenon, <1>1, <1>7
<1> HIDE DEF here, later, n
<1>9. CASE later = {}
  <2>1. n = None /\ (here = 17 \/ (s /\ here = 15))
    BY <1>4, <1>5, <1>7, <1>8, <1>9
  <2>2. None \notin Early \cup {"ip_security", "custom_request", "route_config"}
    BY NoneAssumption DEF Positions, Early, Checks, Range
  <2>3. c = "custom_request" \/ (s /\ c = "rate_limit")
    BY Zenon, <1>1, <1>5, <2>1
  <2> QED BY <1>3, <2>1, <2>2, <2>3, Zenon DEF n
<1>10. CASE later # {}
  <2>1. PICK m \in later : n = Checks[m] /\ \A y \in later : m <= y
    BY Zenon, <1>4, <1>6, <1>10, LeastIsMember
  <2>2. m \in 1..17 /\ m > here /\ (s => m \in {1, 12, 15}) /\ (~s => m = here + 1)
    BY <1>5, <1>6, <1>8, <2>1
  <2>3. n \in Range(Checks) /\ n # None
    BY Zenon, <1>1, <1>3, <2>1, <2>2
  <2>4. (s => n \in EnforcedOnExcludedPaths) /\ n # "route_config"
    BY <1>1, <1>2, <1>5, <1>7, <2>1, <2>2
  <2>5. n \in Early \cup {"ip_security"} => c \in Early
    <3>1. n \in Early \cup {"ip_security"} => m <= 12
      BY <1>1, <1>2, <2>1, <2>2
    <3>2. m <= 12 => here \in 1..11
      BY <1>5, <2>2
    <3> QED BY <1>2, <1>5, <3>1, <3>2, Zenon
  <2>6. n = "custom_request" => c = "suspicious_activity"
    <3>1. ASSUME n = "custom_request" PROVE m = 17
      <4>1. Checks[m] = Checks[17] /\ m \in 1..17 /\ 17 \in 1..17
        BY <1>1, <2>1, <2>2, <3>1
      <4> QED BY <1>2, <4>1, Zenon
    <3>2. m = 17 => here = 16
      BY <1>5, <2>2
    <3> QED BY Zenon, <1>1, <1>5, <3>1, <3>2
  <2>7. n \in Range(Checks) \ {"custom_request"} =>
          c \notin {"suspicious_activity", "custom_request"} /\ ~(s /\ c = "rate_limit")
    BY <1>1, <1>2, <1>5, <2>1, <2>2
  <2> QED BY <2>3, <2>4, <2>5, <2>6, <2>7, Zenon DEF n
<1> QED BY Zenon, <1>9, <1>10

\* What depends on the request itself, and on whether an error was met.
LEMMA SameRequest ==
  ASSUME NEW p, NEW q, p.client = q.client, p.route = q.route, p.threat = q.threat,
         p.scoped = q.scoped
  PROVE  /\ TakenForWhitelisted(p) <=> TakenForWhitelisted(q)
         /\ GloballyWhitelisted(p) <=> GloballyWhitelisted(q)
         /\ Detected(p) = Detected(q)
         /\ (q.raised => p.raised) => (FailedOpen(q) => FailedOpen(p)) /\ (Due(p) => Due(q))
BY Zenon DEF TakenForWhitelisted, GloballyWhitelisted, GlobalListsApply, ShouldBypassCheck, Detected,
       FailedOpen, Due

LEMMA PassedKeeps ==
  ASSUME NEW q, IsReq(q)
  PROVE  /\ Passed(q).threat = q.threat /\ Passed(q).scoped = q.scoped
         /\ Passed(q).white = q.white /\ Passed(q).by = q.by
         /\ Passed(q).evidence = q.evidence
<1>1. CASE NextCheck(q.check, q.scoped) = None
  BY <1>1, Zenon DEF Passed, IsReq, Fields
<1>2. CASE NextCheck(q.check, q.scoped) # None
  BY <1>2, Zenon DEF Passed, IsReq, Fields
<1> QED BY Zenon, <1>1, <1>2

LEMMA BriefKept ==
  ASSUME NEW p, NEW q, p.evidence = q.evidence, p.scoped = q.scoped, Brief(q)
  PROVE  Brief(p)
BY Zenon DEF Brief

\* A request in a check, and one that this check may let pass.
InCheck(q) ==
    /\ Carried(q) /\ q.at # "new" /\ q.by = None
    /\ q.check \in Range(Checks) /\ (q.scoped => q.check \in EnforcedOnExcludedPaths)
    /\ q.check \in Early => ~q.white
    /\ q.scoped \/ ~FailedOpen(q) => Brief(q)
    /\ q.scoped /\ q.evidence # <<>> => q.check = "rate_limit"

MayPass(q) ==
    /\ InCheck(q)
    /\ q.raised => FailedOpen(q)
    /\ ~q.raised => q.ip = q.client
    /\ GloballyWhitelisted(q) /\ ~q.raised =>
         (q.check \notin Early => q.white) /\ q.evidence = <<>>
    /\ ~q.scoped /\ ~FailedOpen(q) /\ q.evidence # <<>> =>
         q.check \in {"suspicious_activity", "custom_request"}
    /\ Due(q) => q.check \notin {"suspicious_activity", "custom_request"}

LEMMA PassedTraced ==
  ASSUME NEW q, MayPass(q)
  PROVE  Traced(Passed(q))
<1> DEFINE p == Passed(q)
           n == NextCheck(q.check, q.scoped)
<1>1. /\ IsReq(p) /\ p.client = q.client /\ p.ip = q.ip /\ p.raised = q.raised
      /\ p.route = q.route /\ p.threat = q.threat /\ p.scoped = q.scoped
      /\ p.white = q.white /\ p.by = q.by /\ p.evidence = q.evidence
      /\ IF n = None THEN p.at = "admitted" ELSE p.at = n /\ p.check = n
  BY PassedFields, PassedKeeps DEF MayPass, InCheck, Carried
<1> HIDE DEF p
<1>2. /\ TakenForWhitelisted(p) <=> TakenForWhitelisted(q)
      /\ GloballyWhitelisted(p) <=> GloballyWhitelisted(q)
      /\ Detected(p) = Detected(q) /\ (FailedOpen(p) <=> FailedOpen(q)) /\ (Due(p) => Due(q))
  BY Zenon, <1>1, SameRequest DEF FailedOpen
<1>3. /\ n # None => n \in Range(Checks) /\ (q.scoped => n \in EnforcedOnExcludedPaths)
      /\ n # "route_config"
      /\ n \in Early \cup {"ip_security"} => q.check \in Early
      /\ n = "custom_request" => q.check = "suspicious_activity"
      /\ n = None => q.check = "custom_request" \/ (q.scoped /\ q.check = "rate_limit")
      /\ n \in Range(Checks) \ {"custom_request"} =>
           /\ q.check \notin {"suspicious_activity", "custom_request"}
           /\ ~(q.scoped /\ q.check = "rate_limit")
  BY Zenon, NextSteps DEF MayPass, InCheck
<1>4. /\ Range(Checks) \subseteq Positions /\ "admitted" \in Positions
      /\ Range(Checks) \cap (Tallying \cup {"new", "ip_lists", "admitted", "refused"}) = {}
      /\ (Middle \cup {"custom_request"}) \cap (Early \cup {"ip_security"}) = {}
      /\ Early \subseteq Range(Checks)
  BY DEF Positions, Checks, Range, Tallying, Middle, Early
<1> HIDE DEF n
<1>5. p.at = "admitted" \/ p.at \in Range(Checks)
  BY Zenon, <1>1, <1>3
<1>6. Carried(p)
  BY Zenon, <1>1, <1>2 DEF MayPass, InCheck, Carried
<1>7. Placed(p)
  <2>1. p.at \in Positions /\ p.by = None /\ (p.raised => FailedOpen(p))
    BY Zenon, <1>1, <1>2, <1>4, <1>5 DEF MayPass, InCheck
  <2>2. p.at \in Range(Checks) => p.check = p.at /\ (p.scoped => p.at \in EnforcedOnExcludedPaths)
    BY Zenon, <1>1, <1>3, <1>4
  <2>3. p.at \in Early \cup {"ip_security"} => ~p.white
    BY Zenon, <1>1, <1>3, <1>4 DEF MayPass, InCheck
  <2>4. ~p.raised => p.ip = p.client
    BY Zenon, <1>1 DEF MayPass
  <2>5. p.at \in Middle \cup {"custom_request"} /\ GloballyWhitelisted(p) /\ ~p.raised => p.white
    <3>1. n \in Middle \cup {"custom_request"} => q.check \notin Early
      BY Zenon, <1>4, NextCheckFacts DEF n
    <3>2. p.at \in Middle \cup {"custom_request"} => p.at = n
      BY Zenon, <1>1 DEF Middle
    <3> QED BY Zenon, <1>1, <1>2, <3>1, <3>2 DEF MayPass
  <2>6. p.at \in {"custom_request", "admitted"} => ~Due(p)
    BY Zenon, <1>1, <1>2, <1>3, <1>4 DEF MayPass, Due
  <2> QED BY Zenon, <1>4, <1>5, <2>1, <2>2, <2>3, <2>4, <2>5, <2>6 DEF Placed
<1>8. Tallied(p)
  BY Zenon, <1>4, <1>5 DEF Tallied, Tallying
<1>9. Counted(p)
  <2>1. p.scoped \/ ~FailedOpen(p) => Brief(p)
    <3>1. Brief(q) => Brief(p)
      BY Zenon, <1>1, BriefKept
    <3> QED BY Zenon, <1>1, <1>2, <3>1 DEF MayPass, InCheck
  <2>2. (p.scoped \/ ~FailedOpen(p)) /\ p.at \notin Over => p.evidence = <<>>
    BY Zenon, <1>1, <1>2, <1>3, <1>4, <1>5 DEF MayPass, InCheck, Over
  <2>3. p.at \notin {"judge", "refused"}
    BY Zenon, <1>4, <1>5 DEF Tallying
  <2>4. p.by \notin Middle
    BY <1>1, NoneAssumption DEF MayPass, InCheck, Positions, Middle, Checks, Range
  <2>5. GloballyWhitelisted(p) /\ ~p.raised => p.evidence = <<>>
    BY Zenon, <1>1, <1>2 DEF MayPass
  <2> QED BY Zenon, <2>1, <2>2, <2>3, <2>4, <2>5 DEF Counted
<1> QED BY Zenon, <1>6, <1>7, <1>8, <1>9 DEF Traced, p

\* A refusal, by the check b or by an error in it.
LEMMA StoppedTraced ==
  ASSUME NEW q, Carried(q), q.at # "new",
         NEW p, IsReq(p), p.client = q.client, p.ip = q.ip, p.route = q.route,
         p.threat = q.threat, p.scoped = q.scoped, p.white = q.white, p.evidence = q.evidence,
         q.raised => p.raised, p.at = "refused",
         q.scoped \/ ~FailedOpen(q) => Brief(q),
         p.by \in Detecting /\ Detected(q) # {} /\ ~q.scoped /\ ~p.raised =>
           q.evidence = <<Detected(q)>>,
         GloballyWhitelisted(q) /\ ~p.raised =>
           p.by \notin Middle /\ (q.evidence = <<>> \/ p.by = "ip_security")
  PROVE  Traced(p)
<1>1. /\ TakenForWhitelisted(p) <=> TakenForWhitelisted(q)
      /\ GloballyWhitelisted(p) <=> GloballyWhitelisted(q)
      /\ Detected(p) = Detected(q) /\ (FailedOpen(q) => FailedOpen(p))
  BY Zenon, SameRequest
<1>2. "refused" \in Positions \ (Range(Checks) \cup Tallying \cup Early \cup Middle
                                 \cup {"ip_security", "ip_lists", "custom_request", "admitted"})
  BY DEF Positions, Checks, Range, Tallying, Early, Middle
<1>3. Brief(q) => Brief(p)
  BY Zenon, BriefKept
<1>4. Carried(p)
  BY Zenon, <1>1 DEF Carried
<1>5. Placed(p)
  BY Zenon, <1>2 DEF Placed
<1>6. Tallied(p)
  BY Zenon, <1>2 DEF Tallied
<1>7. Counted(p)
  BY Zenon, <1>1, <1>3 DEF Counted, Over
<1> QED BY Zenon, <1>4, <1>5, <1>6, <1>7 DEF Traced

LEMMA RefusedTraced ==
  ASSUME NEW q, InCheck(q),
         q.check \in Detecting /\ Detected(q) # {} /\ ~q.scoped /\ ~q.raised =>
           q.evidence = <<Detected(q)>>,
         GloballyWhitelisted(q) /\ ~q.raised =>
           q.check \notin Middle /\ (q.evidence = <<>> \/ q.check = "ip_security")
  PROVE  Traced(Refused(q))
<1> DEFINE p == Refused(q)
<1>1. /\ IsReq(p) /\ p.client = q.client /\ p.ip = q.ip /\ p.route = q.route
      /\ p.threat = q.threat /\ p.scoped = q.scoped /\ p.white = q.white
      /\ p.evidence = q.evidence /\ p.raised = q.raised /\ p.at = "refused"
      /\ p.by = q.check
  BY Zenon DEF Refused, InCheck, Carried, IsReq, Fields
<1> HIDE DEF p
<1>2. Carried(q) /\ q.at # "new" /\ (q.scoped \/ ~FailedOpen(q) => Brief(q))
  BY Zenon DEF InCheck
<1>3. Traced(p)
  BY <1>1, <1>2, StoppedTraced
<1> QED BY Zenon, <1>3 DEF p

\* An error: a refusal that no check answers for, or a check that is skipped.
LEMMA ErrorTraced ==
  ASSUME NEW q, InCheck(q), NEW ofRedis \in BOOLEAN
  PROVE  Traced(HandleCheckError(q, ofRedis))
<1> DEFINE e == [q EXCEPT !.raised = TRUE]
<1>1. /\ IsReq(e) /\ e.at = q.at /\ e.client = q.client /\ e.ip = q.ip /\ e.route = q.route
      /\ e.threat = q.threat /\ e.scoped = q.scoped /\ e.white = q.white
      /\ e.evidence = q.evidence /\ e.raised = TRUE /\ e.check = q.check /\ e.by = q.by
  BY Zenon DEF InCheck, Carried, IsReq, Fields
<1>2. Carried(q) /\ q.at # "new" /\ (q.scoped \/ ~FailedOpen(q) => Brief(q))
  BY Zenon DEF InCheck
<1>3. CASE dep.failSecure /\ ~(ofRedis /\ dep.redisFailOpen)
  <2> DEFINE p == [e EXCEPT !.at = "refused", !.by = "error"]
  <2>1. /\ IsReq(p) /\ p.client = e.client /\ p.ip = e.ip /\ p.route = e.route
        /\ p.threat = e.threat /\ p.scoped = e.scoped /\ p.white = e.white
        /\ p.evidence = e.evidence /\ p.raised = e.raised /\ p.at = "refused"
    BY <1>1, Zenon DEF IsReq, Fields
  <2>2. HandleCheckError(q, ofRedis) = p
    BY Zenon, <1>3 DEF HandleCheckError
  <2> HIDE DEF p, e
  <2> QED BY <1>1, <1>2, <2>1, <2>2, StoppedTraced
<1>4. CASE ~(dep.failSecure /\ ~(ofRedis /\ dep.redisFailOpen))
  <2>1. HandleCheckError(q, ofRedis) = Passed(e)
    BY Zenon, <1>4 DEF HandleCheckError
  <2> HIDE DEF e
  <2>2. /\ TakenForWhitelisted(e) <=> TakenForWhitelisted(q)
        /\ FailedOpen(q) => FailedOpen(e)
    BY Zenon, <1>1, SameRequest
  <2>3. FailedOpen(e) /\ ~Due(e)
    BY Zenon, <1>1, <1>4 DEF FailedOpen, Due
  <2>4. Brief(q) => Brief(e)
    BY Zenon, <1>1, BriefKept
  <2>5. InCheck(e)
    BY Zenon, <1>1, <1>2, <2>2, <2>4 DEF InCheck, Carried
  <2>6. MayPass(e)
    BY Zenon, <1>1, <2>3, <2>5 DEF MayPass
  <2> QED BY Zenon, <2>1, <2>6, PassedTraced
<1> QED BY Zenon, <1>3, <1>4

LEMMA ErrorsTraced == ASSUME NEW q, InCheck(q), NEW p \in Errors(q) PROVE Traced(p)
BY Zenon, ErrorTraced DEF Errors

LEMMA CountingTraced ==
  ASSUME NEW q, InCheck(q), NEW cats, q.raised => FailedOpen(q),
         q.check \in Detecting \cup {"rate_limit"}, q.ip = q.client,
         cats = IF q.check = "rate_limit" THEN {"rate_limit"} ELSE Detected(q),
         dep.passive => q.check = "suspicious_activity",
         q.scoped => q.check = "rate_limit",
         GloballyWhitelisted(q) /\ ~q.raised => q.check = "ip_security" /\ q.evidence = <<>>,
         q.scoped \/ ~FailedOpen(q) => q.evidence = <<>>
  PROVE  Traced(Counting(q, cats))
<1> DEFINE p == Counting(q, cats)
<1>1. /\ IsReq(p) /\ p.client = q.client /\ p.ip = q.ip /\ p.route = q.route
      /\ p.threat = q.threat /\ p.scoped = q.scoped /\ p.white = q.white
      /\ p.evidence = q.evidence /\ p.raised = q.raised /\ p.at = "count"
      /\ p.by = q.by /\ p.check = q.check /\ p.cats = cats
  BY Zenon DEF Counting, InCheck, Carried, IsReq, Fields
<1> HIDE DEF p
<1>2. /\ TakenForWhitelisted(p) <=> TakenForWhitelisted(q)
      /\ GloballyWhitelisted(p) <=> GloballyWhitelisted(q)
      /\ Detected(p) = Detected(q) /\ (FailedOpen(p) <=> FailedOpen(q))
  BY Zenon, <1>1, SameRequest DEF FailedOpen
<1>3. /\ "count" \in Positions \ (Range(Checks) \cup Early \cup Middle)
      /\ None \notin Middle
  BY NoneAssumption DEF Positions, Checks, Range, Early, Middle
<1>4. Carried(p)
  BY Zenon, <1>1, <1>2 DEF InCheck, Carried
<1>5. Placed(p)
  BY Zenon, <1>1, <1>2, <1>3 DEF InCheck, Placed
<1>6. Tallied(p)
  BY Zenon, <1>1, <1>2 DEF Tallied
<1>7. Counted(p)
  BY Zenon, <1>1, <1>2, <1>3 DEF Counted, InCheck, Over, Brief
<1>8. Traced(p)
  BY Zenon, <1>4, <1>5, <1>6, <1>7 DEF Traced
<1> QED BY Zenon, <1>8 DEF p

-----------------------------------------------------------------------------
(* The checks again.                                                       *)

\* A request that a check is about to look at.
LEMMA Looked ==
  ASSUME NEW q, Traced(q), q.at \in Range(Checks) \cup {"ip_lists"}
  PROVE  /\ InCheck(q) /\ (q.raised => FailedOpen(q))
         /\ /\ q.at \notin {"route_config", "ip_security", "ip_lists"}
            /\ ~(q.at = "suspicious_activity" /\ Due(q))
            => MayPass(q)
         /\ GloballyWhitelisted(q) /\ ~q.raised => q.evidence = <<>>
         /\ (q.scoped \/ ~FailedOpen(q)) /\ q.at # "custom_request" => q.evidence = <<>>
<1>1. /\ Range(Checks) \cap (Tallying \cup {"new", "ip_lists", "admitted", "refused"}) = {}
      /\ Range(Checks) = Early \cup Middle \cup {"ip_security", "custom_request"}
      /\ Middle \cap (Early \cup {"ip_security"}) = {} /\ "ip_security" \notin Early
      /\ "custom_request" \notin Early /\ "custom_request" \notin EnforcedOnExcludedPaths
      /\ "ip_security" \in EnforcedOnExcludedPaths
  <2>1. Range(Checks) = {"route_config", "emergency_mode", "https_enforcement",
          "request_logging", "request_size_content", "required_headers", "authentication",
          "referrer", "custom_validators", "time_window", "cloud_ip_refresh", "ip_security",
          "cloud_provider", "user_agent", "rate_limit", "suspicious_activity",
          "custom_request"}
    BY DEF Checks, Range
  <2> QED BY <2>1 DEF Tallying, Middle, Early, EnforcedOnExcludedPaths
<1>2. q.check = IF q.at = "ip_lists" THEN "ip_security" ELSE q.at
  BY Zenon, <1>1 DEF Traced, Placed
<1>3. q.check \in Range(Checks) /\ (q.scoped => q.check \in EnforcedOnExcludedPaths)
  BY Zenon, <1>1, <1>2 DEF Traced, Placed
<1>4. (q.scoped \/ ~FailedOpen(q)) /\ q.at # "custom_request" => q.evidence = <<>>
  BY Zenon, <1>1 DEF Traced, Counted, Over, Tallying
<1>5. q.at # "refused" /\ q.at # "new" /\ q.at # "judge" /\ q.at # "admitted"
  BY Zenon, <1>1 DEF Tallying
<1>6. InCheck(q) /\ (q.raised => FailedOpen(q))
  <2>1. Carried(q) /\ q.by = None /\ (q.raised => FailedOpen(q))
    BY Zenon, <1>5 DEF Traced, Placed
  <2>2. q.check \in Early => ~q.white
    BY Zenon, <1>1, <1>2 DEF Traced, Placed
  <2>3. q.scoped \/ ~FailedOpen(q) => Brief(q)
    BY Zenon DEF Traced, Counted
  <2>4. q.scoped => q.evidence = <<>>
    BY Zenon, <1>1, <1>2, <1>3, <1>4
  <2> QED BY <1>3, <1>5, <2>1, <2>2, <2>3, <2>4 DEF InCheck
<1>7. GloballyWhitelisted(q) /\ ~q.raised => q.evidence = <<>>
  BY Zenon, <1>5 DEF Traced, Counted
<1>8. ASSUME q.at \notin {"route_config", "ip_security", "ip_lists"},
             ~(q.at = "suspicious_activity" /\ Due(q))
      PROVE  MayPass(q)
  <2>1. ~q.raised => q.ip = q.client
    BY Zenon, <1>1, <1>8 DEF Traced, Placed
  <2>2. GloballyWhitelisted(q) /\ ~q.raised => (q.check \notin Early => q.white)
    BY Zenon, <1>1, <1>2, <1>8 DEF Traced, Placed
  <2>3. Due(q) => q.check \notin {"suspicious_activity", "custom_request"}
    BY Zenon, <1>2, <1>8 DEF Traced, Placed
  <2> QED BY <1>2, <1>4, <1>6, <1>7, <1>8, <2>1, <2>2, <2>3 DEF MayPass
<1> QED BY Zenon, <1>4, <1>6, <1>7, <1>8

LEMMA FlaggedTraced ==
  ASSUME NEW q, NEW may, MayPass(q), q.check \notin Detecting,
         may /\ GloballyWhitelisted(q) /\ ~q.raised => q.check \notin Middle,
         NEW p \in Flagged(q, may)
  PROVE  Traced(p)
<1>1. InCheck(q) /\ (GloballyWhitelisted(q) /\ ~q.raised => q.evidence = <<>>)
  BY Zenon DEF MayPass
<1>2. Traced(Passed(q)) /\ (may => Traced(Refused(q)))
  BY Zenon, <1>1, PassedTraced, RefusedTraced
<1> QED BY Zenon, <1>1, <1>2, ErrorsTraced DEF Flagged

LEMMA RouteConfigTraced ==
  ASSUME NEW q, Traced(q), q.at = "route_config", NEW p \in RouteConfigCheck(q)
  PROVE  Traced(p)
<1> DEFINE e == [q EXCEPT !.ip = q.client]
<1>1. /\ InCheck(q) /\ (q.raised => FailedOpen(q)) /\ q.check = "route_config"
      /\ GloballyWhitelisted(q) /\ ~q.raised => q.evidence = <<>>
      /\ (q.scoped \/ ~FailedOpen(q)) => q.evidence = <<>>
  <2>1. "route_config" \in Range(Checks)
    BY DEF Checks, Range
  <2> QED BY Zenon, <2>1, Looked DEF Traced, Placed
<1>2. /\ IsReq(e) /\ e.at = q.at /\ e.client = q.client /\ e.ip = q.client
      /\ e.route = q.route /\ e.threat = q.threat /\ e.scoped = q.scoped
      /\ e.white = q.white /\ e.evidence = q.evidence /\ e.raised = q.raised
      /\ e.check = q.check /\ e.by = q.by
  BY <1>1, Zenon DEF InCheck, Carried, IsReq, Fields
<1>3. p \in Flagged(e, dep.strict) \cup Errors(q)
  BY Zenon DEF RouteConfigCheck
<1> HIDE DEF e
<1>4. /\ TakenForWhitelisted(e) <=> TakenForWhitelisted(q)
      /\ GloballyWhitelisted(e) <=> GloballyWhitelisted(q)
      /\ FailedOpen(e) <=> FailedOpen(q)
  BY Zenon, <1>2, SameRequest DEF FailedOpen
<1>5. "route_config" \in Early \ (Detecting \cup Middle)
  BY Zenon DEF Early, Detecting, Middle
<1>6. InCheck(e)
  BY Zenon, <1>1, <1>2, <1>4, BriefKept DEF InCheck, Carried
<1>7. MayPass(e)
  BY Zenon, <1>1, <1>2, <1>4, <1>5, <1>6 DEF MayPass
<1> QED BY <1>1, <1>2, <1>3, <1>5, <1>7, FlaggedTraced, ErrorsTraced

\* The other checks that look at their request only.
LEMMA LocalTraced ==
  ASSUME NEW q, Traced(q), q.at \in Local \ {"route_config"}, NEW may,
         may /\ q.at = "cloud_provider" => ~q.white,
         NEW p \in Flagged(q, may) \cup {Passed(q)} \cup Errors(q)
  PROVE  Traced(p)
<1>1. /\ q.at \in Range(Checks)
      /\ q.at \notin {"route_config", "ip_security", "ip_lists", "suspicious_activity"}
      /\ q.at \notin Detecting
      /\ q.at \in Middle => q.at = "cloud_provider"
  BY DEF Local, Detecting, Middle, Checks, Range
<1>2. MayPass(q) /\ InCheck(q) /\ q.check = q.at
  BY Zenon, <1>1, Looked DEF Traced, Placed
<1>3. q.at \in Middle /\ GloballyWhitelisted(q) /\ ~q.raised => q.white
  BY Zenon DEF Traced, Placed
<1> QED BY <1>1, <1>2, <1>3, FlaggedTraced, PassedTraced, ErrorsTraced

LEMMA BannedTraced ==
  ASSUME NEW q, Traced(q), q.at = "ip_security", NEW p \in {CheckBannedIp(q)} \cup Errors(q)
  PROVE  Traced(p)
<1>1. "ip_security" \in Range(Checks) \ (Early \cup Middle \cup {"route_config"})
  BY DEF Checks, Range, Early, Middle
<1>2. /\ InCheck(q) /\ (q.raised => FailedOpen(q)) /\ q.check = "ip_security"
      /\ q.client # None /\ (~q.raised => q.ip = q.client) /\ ~q.white
      /\ GloballyWhitelisted(q) /\ ~q.raised => q.evidence = <<>>
      /\ (q.scoped \/ ~FailedOpen(q)) => q.evidence = <<>>
  BY Zenon, <1>1, Looked DEF Traced, Placed, Carried
<1>3. Traced(p) \/ p = CheckBannedIp(q)
  BY Zenon, <1>2, ErrorsTraced
<1>4. CASE q.ip = None
  <2>1. MayPass(q)
    BY Zenon, <1>2, <1>4 DEF MayPass, Due
  <2> QED BY Zenon, <1>3, <1>4, <2>1, PassedTraced DEF CheckBannedIp
<1>5. CASE q.ip # None /\ q.ip \in banned /\ ~ShouldBypassCheck(q, "ip_ban") /\ ~dep.passive
  <2> DEFINE d == [Refused(q) EXCEPT !.by = "ip_ban"]
  <2>1. /\ IsReq(d) /\ d.client = q.client /\ d.ip = q.ip /\ d.route = q.route
        /\ d.threat = q.threat /\ d.scoped = q.scoped /\ d.white = q.white
        /\ d.evidence = q.evidence /\ d.raised = q.raised /\ d.at = "refused"
        /\ d.by = "ip_ban"
    BY <1>2, Zenon DEF Refused, InCheck, Carried, IsReq, Fields
  <2>2. CheckBannedIp(q) = d
    BY Zenon, <1>5 DEF CheckBannedIp
  <2> HIDE DEF d
  <2>3. "ip_ban" \notin Detecting \cup Middle
    BY Zenon DEF Detecting, Middle
  <2>4. Carried(q) /\ (q.scoped \/ ~FailedOpen(q) => Brief(q))
    BY Zenon, <1>2 DEF InCheck
  <2> QED BY <1>2, <1>3, <2>1, <2>2, <2>3, <2>4, StoppedTraced
<1>6. CASE q.ip # None /\ ~(q.ip \in banned /\ ~ShouldBypassCheck(q, "ip_ban") /\ ~dep.passive)
  <2> DEFINE d == [q EXCEPT !.at = "ip_lists"]
  <2>1. /\ IsReq(d) /\ d.client = q.client /\ d.ip = q.ip /\ d.route = q.route
        /\ d.threat = q.threat /\ d.scoped = q.scoped /\ d.white = q.white
        /\ d.evidence = q.evidence /\ d.raised = q.raised /\ d.at = "ip_lists"
        /\ d.by = q.by /\ d.check = q.check
    BY <1>2, Zenon DEF InCheck, Carried, IsReq, Fields
  <2>2. CheckBannedIp(q) = d
    BY Zenon, <1>6 DEF CheckBannedIp
  <2> HIDE DEF d
  <2>3. /\ TakenForWhitelisted(d) <=> TakenForWhitelisted(q)
        /\ GloballyWhitelisted(d) <=> GloballyWhitelisted(q)
        /\ FailedOpen(d) <=> FailedOpen(q)
    BY Zenon, <2>1, SameRequest DEF FailedOpen
  <2>4. /\ "ip_lists" \in Positions \ (Range(Checks) \cup Middle \cup Tallying)
        /\ None \notin Middle
    BY NoneAssumption DEF Positions, Checks, Range, Middle, Tallying
  <2>5. Carried(d)
    BY Zenon, <1>2, <2>1, <2>3 DEF InCheck, Carried
  <2>6. Placed(d)
    BY Zenon, <1>2, <1>6, <2>1, <2>3, <2>4 DEF InCheck, Placed
  <2>7. Tallied(d) /\ Counted(d)
    BY Zenon, <1>2, <2>1, <2>3, <2>4 DEF InCheck, Tallied, Counted, Over, Brief
  <2> QED BY <1>3, <2>2, <2>5, <2>6, <2>7 DEF Traced
<1> QED BY Zenon, <1>4, <1>5, <1>6

LEMMA EscalateTraced ==
  ASSUME NEW q, InCheck(q), q.raised => FailedOpen(q), q.check \in {"ip_security", "user_agent"},
         q.ip = q.client, ~q.white, ~q.scoped, ~dep.passive,
         GloballyWhitelisted(q) /\ ~q.raised => q.check = "ip_security" /\ q.evidence = <<>>,
         ~FailedOpen(q) => q.evidence = <<>>
  PROVE  Traced(EscalateIdentityViolation(q))
<1>1. /\ q.check \in Detecting /\ q.check # "rate_limit"
      /\ q.check \in Middle => q.check = "user_agent"
  BY Zenon DEF Detecting, Middle
<1>2. CASE Detected(q) = {}
  <2>1. Traced(Refused(q))
    BY Zenon, <1>1, <1>2, RefusedTraced
  <2> QED BY Zenon, <1>2, <2>1 DEF EscalateIdentityViolation
<1>3. CASE Detected(q) # {}
  <2>1. Traced(Counting(q, Detected(q)))
    BY Zenon, <1>1, CountingTraced
  <2> QED BY Zenon, <1>3, <2>1 DEF EscalateIdentityViolation
<1> QED BY Zenon, <1>2, <1>3

\* The verdict of the global lists whitelists only whom they list, and always
\* whom they list outside the blocked providers.
LEMMA GlobalVerdict ==
  ASSUME dep \in Deployments, NEW q, q.ip = q.client, NEW route,
         \/ q.scoped /\ route = NoRoute
         \/ ~q.scoped /\ route = q.route /\ ~ShouldBypassCheck(q, "ip"),
         NEW g \in ResolveGlobalIpAccess(q, route)
  PROVE  /\ g.white => TakenForWhitelisted(q) /\ g.allowed
         /\ GloballyWhitelisted(q) => g.allowed /\ g.white
<1> DEFINE skip == RouteOverridesIpLists(route)
           skipCountries == RouteCountryWhitelistMatched(q.ip, route)
<1>1. PICK a \in CheckIpAccess(q.ip, skip, skipCountries) :
        g = [allowed |-> a, white |-> ResolveIsWhitelisted(a, skip),
             exempt |-> ResolveIsExempt(q.ip, a, skip)]
  BY Zenon DEF ResolveGlobalIpAccess
<1>2. g.allowed = a /\ g.white = (a /\ dep.whitelist # {} /\ ~skip)
  BY Zenon, <1>1 DEF ResolveIsWhitelisted
<1>3. ~skip <=> (q.scoped \/ ~RouteOverridesIpLists(q.route))
  BY DEF RouteOverridesIpLists, NoRoute
<1>4. GlobalListsApply(q) <=> ~skip
  BY Zenon, <1>3 DEF GlobalListsApply
<1> HIDE DEF skip, skipCountries
<1>5. Unknown \notin dep.whitelist
  BY Zenon, ConfigAssumption
<1>6. ASSUME q.ip = Unknown
      PROVE  a = ((skip \/ dep.whitelist = {}) /\ (skipCountries \/ dep.countries # "only_home"))
  BY Zenon, <1>1, <1>6 DEF CheckIpAccess
<1>7. ASSUME q.ip # Unknown
      PROVE  LET listed == \/ skip
                           \/ IF dep.whitelist # {} THEN q.ip \in dep.whitelist
                              ELSE q.ip \notin dep.blacklist
                 located == \/ skipCountries \/ (~skip /\ q.ip \in dep.whitelist)
                            \/ CountryAccess(q.ip, dep.countries) # "deny"
             IN  \/ a = (listed /\ located /\ q.ip \notin dep.cloud)
                 \/ a = listed /\ dep.errors
  BY <1>1, <1>7, Zenon DEF CheckIpAccess
<1>8. ASSUME g.white PROVE TakenForWhitelisted(q) /\ g.allowed
  <2>1. a /\ dep.whitelist # {} /\ ~skip
    BY <1>2, <1>8, Zenon
  <2>2. q.ip # Unknown
    BY <1>6, <2>1, Zenon
  <2> QED BY <1>2, <1>4, <1>7, <2>1, <2>2, Zenon DEF TakenForWhitelisted
<1>9. ASSUME GloballyWhitelisted(q) PROVE g.allowed /\ g.white
  <2>1. q.ip \in dep.whitelist /\ q.ip \notin dep.cloud /\ ~skip
    BY Zenon, <1>4, <1>9 DEF GloballyWhitelisted
  <2>2. q.ip # Unknown
    BY Zenon, <1>5, <2>1
  <2> QED BY <1>2, <1>7, <2>1, <2>2, Zenon
<1> QED BY Zenon, <1>8, <1>9

LEMMA ListsTraced ==
  ASSUME dep \in Deployments, NEW q, Traced(q), q.at = "ip_lists",
         NEW p \in IpSecurityLists(q) \cup Errors(q)
  PROVE  Traced(p)
<1>1. "ip_security" \notin Early \cup Middle
  BY Zenon DEF Early, Middle
<1>2. /\ InCheck(q) /\ (q.raised => FailedOpen(q)) /\ q.check = "ip_security"
      /\ q.client # None /\ q.ip = q.client /\ ~q.white
      /\ GloballyWhitelisted(q) /\ ~q.raised => q.evidence = <<>>
      /\ (q.scoped \/ ~FailedOpen(q)) => q.evidence = <<>>
  BY Zenon, Looked DEF Traced, Placed, Carried
<1>3. ASSUME NEW route, NEW escalate \in BOOLEAN,
             \/ q.scoped /\ route = NoRoute /\ ~escalate
             \/ ~q.scoped /\ route = q.route /\ ~ShouldBypassCheck(q, "ip") /\ escalate,
             NEW d \in CheckGlobalIpRestrictions(q, route, escalate)
      PROVE  Traced(d)
  <2>1. PICK g \in ResolveGlobalIpAccess(q, route) :
          LET f == [q EXCEPT !.white = g.white, !.exempt = g.exempt]
          IN  d = IF g.allowed \/ dep.passive THEN Passed(f)
                  ELSE IF escalate THEN EscalateIdentityViolation(f) ELSE Refused(f)
    BY <1>3, Zenon DEF CheckGlobalIpRestrictions
  <2> DEFINE f == [q EXCEPT !.white = g.white, !.exempt = g.exempt]
  <2>2. /\ IsReq(f) /\ f.at = q.at /\ f.client = q.client /\ f.ip = q.ip
        /\ f.route = q.route /\ f.threat = q.threat /\ f.scoped = q.scoped
        /\ f.white = g.white /\ f.evidence = q.evidence /\ f.raised = q.raised
        /\ f.check = q.check /\ f.by = q.by
    BY <1>2, Zenon DEF InCheck, Carried, IsReq, Fields
  <2>3. d = IF g.allowed \/ dep.passive THEN Passed(f)
            ELSE IF escalate THEN EscalateIdentityViolation(f) ELSE Refused(f)
    BY Zenon, <2>1
  <2>4. /\ g.white => TakenForWhitelisted(q) /\ g.allowed
        /\ GloballyWhitelisted(q) => g.allowed /\ g.white
    BY Zenon, <1>2, <1>3, GlobalVerdict
  <2> HIDE DEF f
  <2>5. /\ TakenForWhitelisted(f) <=> TakenForWhitelisted(q)
        /\ GloballyWhitelisted(f) <=> GloballyWhitelisted(q)
        /\ FailedOpen(f) <=> FailedOpen(q)
    BY Zenon, <2>2, SameRequest DEF FailedOpen
  <2>6. InCheck(f)
    BY <1>1, <1>2, <2>2, <2>4, <2>5, BriefKept DEF InCheck, Carried
  <2>7. Traced(Passed(f))
    <3>1. MayPass(f)
      BY <1>1, <1>2, <2>2, <2>4, <2>5, <2>6 DEF MayPass
    <3> QED BY Zenon, <3>1, PassedTraced
  <2>8. ASSUME ~g.allowed, ~dep.passive, escalate PROVE Traced(EscalateIdentityViolation(f))
    BY <1>2, <1>3, <2>2, <2>4, <2>5, <2>6, <2>8, EscalateTraced
  <2>9. ASSUME ~escalate PROVE Traced(Refused(f))
    BY <1>1, <1>2, <1>3, <2>2, <2>5, <2>6, <2>9, RefusedTraced
  <2> QED BY Zenon, <2>3, <2>7, <2>8, <2>9
<1>4. CASE q.scoped
  BY <1>2, <1>3, <1>4, ErrorsTraced, Zenon DEF IpSecurityLists
<1>5. CASE ~q.scoped /\ ShouldBypassCheck(q, "ip")
  <2>1. MayPass(q)
    BY Zenon, <1>1, <1>2, <1>5 DEF MayPass, GloballyWhitelisted, GlobalListsApply
  <2> QED BY Zenon, <1>2, <1>5, <2>1, PassedTraced, ErrorsTraced DEF IpSecurityLists
<1>6. CASE ~q.scoped /\ ~ShouldBypassCheck(q, "ip") /\ CheckRouteIpRestrictions(q)
  <2>1. Traced(EscalateIdentityViolation(q))
    BY Zenon, <1>2, <1>6, EscalateTraced DEF CheckRouteIpRestrictions
  <2> QED BY Zenon, <1>2, <1>6, <2>1, ErrorsTraced DEF IpSecurityLists
<1>7. CASE ~q.scoped /\ ~ShouldBypassCheck(q, "ip") /\ ~CheckRouteIpRestrictions(q)
  BY <1>2, <1>3, <1>7, ErrorsTraced, Zenon DEF IpSecurityLists
<1> QED BY Zenon, <1>4, <1>5, <1>6, <1>7

LEMMA LaterTraced ==
  ASSUME NEW q, Traced(q), NEW p,
         \/ q.at = "user_agent" /\ p \in UserAgentCheck(q)
         \/ q.at = "rate_limit" /\ p \in RateLimitCheck(q)
         \/ q.at = "suspicious_activity" /\ p \in SuspiciousActivityCheck(q)
  PROVE  Traced(p)
<1>1. /\ {"user_agent", "rate_limit", "suspicious_activity"} \subseteq
           Range(Checks) \cap Middle \cap (Detecting \cup {"rate_limit"})
      /\ "rate_limit" \notin Detecting
      /\ {"user_agent", "suspicious_activity"} \cap EnforcedOnExcludedPaths = {}
  BY Zenon DEF Checks, Range, Middle, Detecting, EnforcedOnExcludedPaths
<1>2. /\ InCheck(q) /\ (q.raised => FailedOpen(q)) /\ q.check = q.at
      /\ q.client # None /\ (~q.raised => q.ip = q.client) /\ q.ip \in {None, q.client}
      /\ q.white => TakenForWhitelisted(q)
      /\ q.scoped => q.at = "rate_limit"
      /\ GloballyWhitelisted(q) /\ ~q.raised => q.white
      /\ (q.scoped \/ ~FailedOpen(q)) => q.evidence = <<>>
      /\ ~(q.at = "suspicious_activity" /\ Due(q)) => Traced(Passed(q))
  <2>1. q.at \in Range(Checks) /\ q.at \in Middle
    BY Zenon, <1>1
  <2>2. q.at \notin {"new", "route_config", "ip_security", "ip_lists", "custom_request"}
    BY Zenon
  <2>3. Carried(q) /\ Placed(q)
    BY Zenon DEF Traced
  <2>4. ~(q.at = "suspicious_activity" /\ Due(q)) => MayPass(q)
    BY Zenon, <2>1, <2>2, Looked
  <2>5. /\ InCheck(q) /\ (q.raised => FailedOpen(q))
        /\ (q.scoped \/ ~FailedOpen(q)) => q.evidence = <<>>
    BY Zenon, <2>1, <2>2, Looked
  <2> QED BY <1>1, <2>1, <2>2, <2>3, <2>4, <2>5, PassedTraced DEF Carried, Placed
<1>3. p \in Errors(q) => Traced(p)
  BY Zenon, <1>2, ErrorsTraced
<1>4. CASE q.at = "user_agent"
  <2>1. ASSUME ~q.white, ~dep.passive, q.ip = None PROVE Traced(Refused(q))
    BY Zenon, <1>1, <1>2, <1>4, <2>1, RefusedTraced
  <2>2. ASSUME ~q.white, ~dep.passive, q.ip # None PROVE Traced(EscalateIdentityViolation(q))
    BY Zenon, <1>2, <1>4, <2>2, EscalateTraced
  <2> QED BY Zenon, <1>2, <1>3, <1>4, <2>1, <2>2 DEF UserAgentCheck
<1>5. CASE q.at = "rate_limit"
  <2>1. ASSUME ~q.white, ~dep.passive
        PROVE  Traced(Refused(q)) /\ (q.ip # None => Traced(Counting(q, {"rate_limit"})))
    <3>1. Traced(Refused(q))
      BY Zenon, <1>1, <1>2, <1>5, <2>1, RefusedTraced
    <3>2. q.ip # None => Traced(Counting(q, {"rate_limit"}))
      BY Zenon, <1>1, <1>2, <1>5, <2>1, CountingTraced
    <3> QED BY Zenon, <3>1, <3>2
  <2> QED BY Zenon, <1>2, <1>3, <1>5, <2>1 DEF RateLimitCheck
<1>6. CASE q.at = "suspicious_activity"
  <2>1. ASSUME ~q.white, q.ip # None PROVE Traced(Counting(q, Detected(q)))
    BY Zenon, <1>1, <1>2, <1>6, <2>1, CountingTraced
  <2>2. q.white \/ q.ip = None \/ Detected(q) = {} => ~Due(q)
    BY Zenon, <1>2 DEF Due, Detected, ShouldBypassCheck
  <2> QED BY Zenon, <1>2, <1>3, <1>6, <2>1, <2>2 DEF SuspiciousActivityCheck
<1> QED BY Zenon, <1>4, <1>5, <1>6

-----------------------------------------------------------------------------
(* The steps again.                                                        *)

LEMMA TracedStays == ASSUME dep' = dep, NEW q, Traced(q) PROVE Traced(q)'
<1>1. /\ FailedOpen(q)' <=> FailedOpen(q)
      /\ TakenForWhitelisted(q)' <=> TakenForWhitelisted(q)
      /\ GloballyWhitelisted(q)' <=> GloballyWhitelisted(q)
      /\ Detected(q)' = Detected(q)
  BY Zenon DEF FailedOpen, TakenForWhitelisted, GloballyWhitelisted, GlobalListsApply, Detected
<1>2. Due(q)' <=> Due(q)
  BY Zenon, <1>1 DEF Due
<1>3. Carried(q)' /\ Placed(q)'
  BY Zenon, <1>1, <1>2 DEF Traced, Carried, Placed
<1>4. Tallied(q)' /\ Counted(q)'
  BY Zenon, <1>1 DEF Traced, Tallied, Counted
<1> QED BY Zenon, <1>3, <1>4 DEF Traced

LEMMA TraceMoves ==
  ASSUME TraceInv, dep' = dep, NEW r \in Reqs, NEW p, Traced(p), req' = [req EXCEPT ![r] = p]
  PROVE  TraceInv'
<1>1. req' = [o \in Reqs |-> req'[o]] /\ \A o \in Reqs : req'[o] = IF o = r THEN p ELSE req[o]
  BY Zenon DEF TraceInv
<1>2. \A o \in Reqs : Traced(req'[o])
  BY Zenon, <1>1 DEF TraceInv
<1>3. \A o \in Reqs : Traced(req[o])'
  BY Zenon, <1>2, TracedStays
<1> QED BY Zenon, <1>1, <1>3 DEF TraceInv

LEMMA ArriveTraced == ASSUME TraceInv, NEW r \in Reqs, Arrive(r) PROVE TraceInv'
<1>1. PICK c \in dep.clients, rt \in dep.routes, t \in dep.threats, excluded \in dep.excluded :
        LET q == HandlePassthrough([Fresh EXCEPT !.client = c, !.route = rt, !.threat = t,
                                                 !.held = c \in banned], excluded)
        IN  req' = [req EXCEPT ![r] = IF q.at = "new" THEN HandleSecurityBypass(q) ELSE q]
  BY Zenon DEF Arrive
<1> DEFINE n == [Fresh EXCEPT !.client = c, !.route = rt, !.threat = t, !.held = c \in banned]
           q == HandlePassthrough(n, excluded)
           p == IF q.at = "new" THEN HandleSecurityBypass(q) ELSE q
           Untouched(x) == /\ IsReq(x) /\ x.client = c /\ x.route = rt /\ x.ip = None
                           /\ x.white = FALSE /\ x.evidence = <<>> /\ x.raised = FALSE
<1>2. Untouched(n) /\ n.at = "new" /\ n.by = None
  BY Zenon DEF Fresh, IsReq, Fields
<1>3. c # None
  BY Zenon, NoneAssumption DEF TraceInv
<1>4. req' = [req EXCEPT ![r] = p] /\ dep' = dep
  BY <1>1, Zenon DEF Arrive
<1> HIDE DEF n
<1>5. /\ Untouched(q)
      /\ \/ q.at = "new" /\ q.by = None
         \/ q.at = "refused" /\ q.by = "unresolvable_client_address"
  <2>1. CASE excluded
    <3>1. q = [n EXCEPT !.scoped = TRUE]
      BY Zenon, <2>1 DEF HandlePassthrough
    <3> QED BY <1>2, <3>1, Zenon DEF IsReq, Fields
  <2>2. CASE ~excluded /\ n.client = Unknown /\ dep.failSecure
    <3>1. q = [n EXCEPT !.at = "refused", !.by = "unresolvable_client_address"]
      BY Zenon, <2>2 DEF HandlePassthrough
    <3> QED BY <1>2, <3>1, Zenon DEF IsReq, Fields
  <2>3. CASE ~excluded /\ ~(n.client = Unknown /\ dep.failSecure)
    <3>1. q = n
      BY Zenon, <2>3 DEF HandlePassthrough
    <3> QED BY Zenon, <1>2, <3>1
  <2> QED BY <2>1, <2>2, <2>3, Zenon
<1> HIDE DEF q
<1>6. /\ Untouched(p)
      /\ \/ p.at = "refused" /\ p.by = "unresolvable_client_address"
         \/ p.at = "route_config" /\ p.check = "route_config" /\ p.by = None
         \/ p.at = "admitted" /\ "all" \in rt.bypass /\ p.by = None
  <2>1. CASE q.at # "new"
    BY Zenon, <1>5, <2>1
  <2>2. CASE q.at = "new" /\ ShouldBypassCheck(q, "all") /\ ~dep.passive
    <3>1. "all" \in rt.bypass
      BY Zenon, <1>5, <2>2 DEF ShouldBypassCheck
    <3>2. p = [q EXCEPT !.at = "admitted"]
      BY Zenon, <2>2 DEF HandleSecurityBypass
    <3> QED BY <1>5, <2>2, <3>1, <3>2, Zenon DEF IsReq, Fields
  <2>3. CASE q.at = "new" /\ ~(ShouldBypassCheck(q, "all") /\ ~dep.passive)
    <3>1. p = [q EXCEPT !.at = "route_config", !.check = "route_config"]
      BY Zenon, <2>3 DEF HandleSecurityBypass
    <3> QED BY <1>5, <2>3, <3>1, Zenon DEF IsReq, Fields
  <2> QED BY <2>1, <2>2, <2>3, Zenon
<1> HIDE DEF p
<1>7. /\ {"refused", "route_config", "admitted"} \subseteq Positions \ (Middle \cup Tallying)
      /\ {"refused", "admitted"} \cap (Range(Checks) \cup Early) = {}
      /\ "route_config" \in EnforcedOnExcludedPaths
      /\ "unresolvable_client_address" \notin Detecting \cup Middle
      /\ None \notin Middle
  BY NoneAssumption
     DEF Positions, Middle, Tallying, Checks, Range, Early, Detecting, EnforcedOnExcludedPaths
<1>8. Carried(p)
  BY Zenon, <1>3, <1>6 DEF Carried
<1>9. Placed(p)
  BY Zenon, <1>6, <1>7 DEF Placed, Due
<1>10. Tallied(p) /\ Counted(p)
  BY Zenon, <1>6, <1>7 DEF Tallied, Counted, Brief
<1> QED BY <1>4, <1>8, <1>9, <1>10, TraceMoves, Zenon DEF Traced

LEMMA LocalStepTraced == ASSUME TraceInv, NEW r \in Reqs, LocalCheck(r) PROVE TraceInv'
<1> DEFINE q == req[r]
<1>1. dep' = dep /\ Traced(q)
  BY Zenon DEF LocalCheck, TraceInv
<1>2. CASE q.at = "route_config" /\ Becomes(r, RouteConfigCheck(q))
  BY <1>1, <1>2, RouteConfigTraced, TraceMoves, Zenon DEF Becomes
<1>3. CASE /\ q.at \in Local \ {"route_config"}
           /\ \E may : /\ may /\ q.at = "cloud_provider" => ~q.white
                       /\ Becomes(r, Flagged(q, may) \cup {Passed(q)} \cup Errors(q))
  BY <1>1, <1>3, LocalTraced, TraceMoves, Zenon DEF Becomes
<1>4. Local = {"route_config", "emergency_mode", "https_enforcement", "request_logging",
               "request_size_content", "required_headers", "authentication", "referrer",
               "custom_validators", "time_window", "cloud_ip_refresh", "cloud_provider",
               "custom_request"}
  BY DEF Local, Checks, Range
<1>5. \/ q.at = "route_config" /\ Becomes(r, RouteConfigCheck(q))
      \/ /\ q.at \in Local \ {"route_config"}
         /\ \E may : /\ may /\ q.at = "cloud_provider" => ~q.white
                     /\ Becomes(r, Flagged(q, may) \cup {Passed(q)} \cup Errors(q))
  BY <1>4, Zenon
     DEF LocalCheck, Becomes, EmergencyModeCheck, HttpsEnforcementCheck, RequestLoggingCheck,
         RequestSizeContentCheck, RequiredHeadersCheck, AuthenticationCheck, ReferrerCheck,
         CustomValidatorsCheck, TimeWindowCheck, CloudIpRefreshCheck, CloudProviderCheck,
         CustomRequestCheck
<1> QED BY Zenon, <1>2, <1>3, <1>5

LEMMA SharedStepTraced == ASSUME TraceInv, NEW r \in Reqs, SharedCheck(r) PROVE TraceInv'
<1> DEFINE q == req[r]
<1>1. dep' = dep /\ Traced(q) /\ dep \in Deployments
  BY Zenon DEF SharedCheck, TraceInv
<1>2. CASE q.at = "ip_security" /\ Becomes(r, {CheckBannedIp(q)} \cup Errors(q))
  BY <1>1, <1>2, BannedTraced, TraceMoves, Zenon DEF Becomes
<1>3. CASE q.at = "ip_lists" /\ Becomes(r, IpSecurityLists(q) \cup Errors(q))
  BY <1>1, <1>3, ListsTraced, TraceMoves, Zenon DEF Becomes
<1>4. CASE \/ q.at = "user_agent" /\ Becomes(r, UserAgentCheck(q))
           \/ q.at = "rate_limit" /\ Becomes(r, RateLimitCheck(q))
           \/ q.at = "suspicious_activity" /\ Becomes(r, SuspiciousActivityCheck(q))
  BY Zenon, <1>1, <1>4, LaterTraced, TraceMoves DEF Becomes
<1> QED BY Zenon, <1>2, <1>3, <1>4 DEF SharedCheck

\* A request that has been counted, before it is judged.
Judged(q) ==
    /\ Carried(q) /\ q.at # "new" /\ q.by = None /\ q.ip = q.client
    /\ q.raised => FailedOpen(q)
    /\ q.check \in Detecting \cup {"rate_limit"}
    /\ dep.passive => q.check = "suspicious_activity"
    /\ q.scoped => q.check = "rate_limit"
    /\ GloballyWhitelisted(q) /\ ~q.raised => q.check = "ip_security"
    /\ q.scoped \/ ~FailedOpen(q) =>
         q.evidence = <<IF q.check = "rate_limit" THEN {"rate_limit"} ELSE Detected(q)>>

LEMMA JudgeTraced ==
  ASSUME TraceInv, NEW r \in Reqs, NEW q, Judged(q), NEW entry, Judge(r, q, entry), dep' = dep
  PROVE  TraceInv'
<1>1. /\ Detecting \cup {"rate_limit"} \subseteq Range(Checks) \ Early
      /\ "rate_limit" \in EnforcedOnExcludedPaths /\ "rate_limit" \notin Detecting
      /\ "ip_security" \notin Middle
  BY DEF Detecting, Checks, Range, Early, Middle, EnforcedOnExcludedPaths
<1>2. q.scoped \/ ~FailedOpen(q) => Brief(q)
  BY DEF Judged, Brief
<1>3. InCheck(q)
  BY Zenon, <1>1, <1>2 DEF Judged, InCheck
<1>4. CASE dep.passive
  <2>1. req' = [req EXCEPT ![r] = Passed(q)]
    BY Zenon, <1>4 DEF Judge, Becomes
  <2>2. MayPass(q)
    BY Zenon, <1>3, <1>4 DEF Judged, MayPass, Due
  <2> QED BY <2>1, <2>2, PassedTraced, TraceMoves, Zenon
<1>5. CASE ~dep.passive
  <2>1. \E p \in {HandleCheckError(q, FALSE), Refused(q)} : req' = [req EXCEPT ![r] = p]
    BY <1>5, Zenon DEF Judge, Becomes
  <2>2. Traced(HandleCheckError(q, FALSE))
    BY <1>3, ErrorTraced, Zenon
  <2>3. Traced(Refused(q))
    <3>1. q.check \in Detecting /\ ~q.scoped /\ ~q.raised => q.evidence = <<Detected(q)>>
      BY Zenon, <1>1 DEF Judged, FailedOpen
    <3> QED BY <1>1, <1>3, <3>1, RefusedTraced DEF Judged
  <2> QED BY <2>1, <2>2, <2>3, TraceMoves, Zenon
<1> QED BY Zenon, <1>4, <1>5

LEMMA CountingStepTraced ==
  ASSUME TraceInv, NEW r \in Reqs, CountAndJudge(r) \/ TakeOut(r) \/ PutBack(r) \/ JudgeUnlocked(r)
  PROVE  TraceInv'
<1> DEFINE q == req[r]
           d == Recorded(q)
           Same(p) == /\ IsReq(p) /\ p.client = q.client /\ p.ip = q.ip /\ p.route = q.route
                      /\ p.threat = q.threat /\ p.scoped = q.scoped /\ p.white = q.white
                      /\ p.raised = q.raised /\ p.check = q.check /\ p.by = q.by
                      /\ p.cats = q.cats
<1>1. Traced(q) /\ q.at \in Tallying /\ dep' = dep
  BY Zenon DEF CountAndJudge, TakeOut, PutBack, JudgeUnlocked, TraceInv, Tallying
<1> HIDE DEF q
<1>2. /\ "judge" \in Positions \ Range(Checks) /\ "put" \in Positions \ Range(Checks)
      /\ None \notin Middle
      /\ Tallying \cap (Early \cup Middle
                        \cup {"new", "ip_security", "ip_lists", "custom_request", "admitted",
                              "refused"}) = {}
  BY NoneAssumption DEF Positions, Checks, Range, Tallying, Early, Middle
<1>3. /\ Carried(q) /\ q.at # "new" /\ q.by = None /\ q.client # None /\ q.ip = q.client
      /\ q.raised => FailedOpen(q)
      /\ q.check \in Detecting \cup {"rate_limit"}
      /\ q.cats = IF q.check = "rate_limit" THEN {"rate_limit"} ELSE Detected(q)
      /\ dep.passive => q.check = "suspicious_activity"
      /\ q.scoped => q.check = "rate_limit"
      /\ GloballyWhitelisted(q) /\ ~q.raised => q.check = "ip_security"
      /\ (q.scoped \/ ~FailedOpen(q)) /\ q.at # "judge" => q.evidence = <<>>
      /\ (q.scoped \/ ~FailedOpen(q)) /\ q.at = "judge" => q.evidence = <<q.cats>>
      /\ GloballyWhitelisted(q) /\ ~q.raised /\ q.at # "judge" => q.evidence = <<>>
  BY <1>1, <1>2 DEF Traced, Carried, Placed, Tallied, Counted, Over
<1>4. Same(d) /\ d.at = q.at /\ d.evidence = Append(q.evidence, q.cats)
  BY <1>3, Zenon DEF Recorded, Carried, IsReq, Fields
<1>5. q.evidence = <<>> => Append(q.evidence, q.cats) = <<q.cats>>
  OBVIOUS
<1> HIDE DEF d
<1>6. ASSUME NEW p, Same(p)
      PROVE  /\ TakenForWhitelisted(p) <=> TakenForWhitelisted(q)
             /\ GloballyWhitelisted(p) <=> GloballyWhitelisted(q)
             /\ Detected(p) = Detected(q) /\ (FailedOpen(p) <=> FailedOpen(q))
  BY Zenon, <1>6, SameRequest DEF FailedOpen
<1>7. CASE CountAndJudge(r)
  <2>1. (\E entry : Judge(r, d, entry)) /\ q.at = "count"
    BY Zenon, <1>7 DEF CountAndJudge, d, q
  <2>2. Judged(d)
    BY <1>3, <1>4, <1>5, <1>6, <2>1 DEF Judged, Carried
  <2> QED BY <1>1, <2>1, <2>2, JudgeTraced
<1>8. CASE JudgeUnlocked(r)
  <2>1. (\E entry : Judge(r, q, entry)) /\ q.at = "judge"
    BY Zenon, <1>8 DEF JudgeUnlocked, q
  <2>2. Judged(q)
    BY Zenon, <1>3, <2>1 DEF Judged
  <2> QED BY <1>1, <2>1, <2>2, JudgeTraced
<1>9. CASE TakeOut(r)
  <2> DEFINE p == [q EXCEPT !.at = "put", !.hand = EntryOf(q.ip)]
  <2>1. Same(p) /\ p.at = "put" /\ p.evidence = q.evidence
    BY <1>3, Zenon DEF Carried, IsReq, Fields
  <2>2. req' = [req EXCEPT ![r] = p] /\ q.at # "judge"
    BY <1>9, Zenon DEF TakeOut, q
  <2> HIDE DEF p
  <2>3. Carried(p) /\ Placed(p)
    BY <1>2, <1>3, <1>6, <2>1 DEF Carried, Placed, Tallying
  <2>4. Tallied(p)
    BY <1>3, <1>6, <2>1 DEF Tallied
  <2>5. Counted(p)
    BY ZenonT(30), <1>2, <1>3, <1>6, <2>1, <2>2 DEF Counted, Over, Brief
  <2> QED BY <1>1, <2>2, <2>3, <2>4, <2>5, TraceMoves, Zenon DEF Traced
<1>10. CASE PutBack(r)
  <2> DEFINE p == [d EXCEPT !.at = "judge", !.hand = <<>>]
  <2>1. Same(p) /\ p.at = "judge" /\ p.evidence = d.evidence
    BY <1>4, Zenon DEF IsReq, Fields
  <2>2. req' = [req EXCEPT ![r] = p] /\ q.at # "judge"
    BY <1>10, Zenon DEF PutBack, q, d
  <2> HIDE DEF p
  <2>3. Carried(p) /\ Placed(p)
    BY <1>2, <1>3, <1>6, <2>1 DEF Carried, Placed, Tallying
  <2>4. Tallied(p)
    BY Zenon, <1>3, <1>6, <2>1 DEF Tallied
  <2>5. Counted(p)
    <3>1. p.scoped \/ ~FailedOpen(p) => p.evidence = <<p.cats>>
      BY ZenonT(30), <1>3, <1>4, <1>5, <1>6, <2>1, <2>2
    <3>2. p.scoped => p.cats = {"rate_limit"}
      BY Zenon, <1>3, <2>1
    <3>3. p.scoped \/ ~FailedOpen(p) => Brief(p)
      BY SMTT(60), <3>1, <3>2 DEF Brief
    <3>4. "judge" \in Over /\ p.by = None /\ None \notin Middle
      BY Zenon, <1>2, <1>3, <2>1 DEF Over
    <3> QED BY <2>1, <3>1, <3>3, <3>4, Zenon DEF Counted
  <2> QED BY <1>1, <2>2, <2>3, <2>4, <2>5, TraceMoves, Zenon DEF Traced
<1> QED BY <1>7, <1>8, <1>9, <1>10

LEMMA ExpireTraced == ASSUME TraceInv, NEW c \in Clients, Expire(c) PROVE TraceInv'
<1>1. ASSUME NEW q, Traced(q) PROVE Traced([q EXCEPT !.held = FALSE])
  <2> DEFINE p == [q EXCEPT !.held = FALSE]
  <2>1. /\ IsReq(p) /\ p.client = q.client /\ p.ip = q.ip /\ p.route = q.route
        /\ p.threat = q.threat /\ p.scoped = q.scoped /\ p.white = q.white
        /\ p.raised = q.raised /\ p.check = q.check /\ p.by = q.by /\ p.cats = q.cats
        /\ p.at = q.at /\ p.evidence = q.evidence
    BY <1>1, Zenon DEF Traced, Carried, IsReq, Fields
  <2> HIDE DEF p
  <2>2. /\ TakenForWhitelisted(p) <=> TakenForWhitelisted(q)
        /\ GloballyWhitelisted(p) <=> GloballyWhitelisted(q)
        /\ Detected(p) = Detected(q) /\ (FailedOpen(p) <=> FailedOpen(q)) /\ (Due(p) => Due(q))
    BY Zenon, <2>1, SameRequest DEF FailedOpen
  <2>3. Carried(p) /\ Placed(p)
    BY <1>1, <2>1, <2>2 DEF Traced, Carried, Placed
  <2>4. Tallied(p) /\ Counted(p)
    BY <1>1, <2>1, <2>2, BriefKept DEF Traced, Tallied, Counted
  <2> QED BY Zenon, <2>3, <2>4 DEF Traced, p
<1>2. ASSUME NEW o \in Reqs PROVE Traced(req'[o])
  BY <1>1 DEF Expire, TraceInv
<1>3. req' = [o \in Reqs |-> req'[o]] /\ dep' = dep
  BY Zenon DEF Expire
<1>4. \A o \in Reqs : Traced(req[o])'
  BY Zenon, <1>2, <1>3, TracedStays
<1> QED BY Zenon, <1>3, <1>4 DEF TraceInv

LEMMA TraceInit == Init => TraceInv
<1> SUFFICES ASSUME Init PROVE TraceInv
  BY Zenon
<1>1. /\ IsReq(Fresh) /\ Fresh.at = "new" /\ Fresh.ip = None /\ Fresh.white = FALSE
      /\ Fresh.by = None /\ Fresh.evidence = <<>> /\ Fresh.raised = FALSE
  BY Zenon DEF Fresh, IsReq, Fields
<1>2. /\ "new" \in Positions \ (Range(Checks) \cup Early \cup Middle \cup Tallying)
      /\ None \notin Middle
  BY NoneAssumption DEF Positions, Checks, Range, Early, Middle, Tallying
<1>3. Carried(Fresh) /\ Placed(Fresh)
  BY Zenon, <1>1, <1>2 DEF Carried, Placed
<1>4. Tallied(Fresh) /\ Counted(Fresh)
  BY Zenon, <1>1, <1>2 DEF Tallied, Tallying, Counted, Brief
<1> QED BY Zenon, <1>3, <1>4 DEF Init, TraceInv, Traced

LEMMA TraceStep == TraceInv /\ [Next]_vars => TraceInv'
<1> SUFFICES ASSUME TraceInv, [Next]_vars PROVE TraceInv'
  BY Zenon
<1>1. CASE Next
  BY <1>1, ArriveTraced, LocalStepTraced, SharedStepTraced, CountingStepTraced, ExpireTraced, Zenon
     DEF Next, Step
<1>2. CASE UNCHANGED vars
  <2>1. req' = req /\ dep' = dep
    BY Zenon, <1>2 DEF vars
  <2>2. \A o \in Reqs : Traced(req'[o])
    BY Zenon, <2>1 DEF TraceInv
  <2>3. \A o \in Reqs : Traced(req[o])'
    BY <2>1, <2>2, TracedStays
  <2> QED BY Zenon, <2>1, <2>3 DEF TraceInv
<1> QED BY Zenon, <1>1, <1>2

\* The flags that ip_security leaves for suspicious_activity exempt nobody whom
\* path, route or the global whitelist do not: in active mode a request in
\* which detection finds a threat is not served, in any configuration.
THEOREM ThreatsAreStopped == Spec => []ThreatNotServed
<1>1. TraceInv => ThreatNotServed
  BY Zenon DEF TraceInv, Traced, Placed, Due, ThreatNotServed
<1> QED BY <1>1, TraceInit, TraceStep, PTL DEF Spec

\* escalate_identity_violation and suspicious_activity count a refused threat
\* exactly once, and neither an excluded path nor a globally whitelisted client
\* gathers evidence that is not its own, in any configuration.
THEOREM EvidenceIsKept == Spec => []EvidenceIsExact
<1>1. ASSUME TraceInv PROVE RefusedThreatIsCounted
  <2> SUFFICES ASSUME NEW r \in Reqs
               PROVE  LET q == req[r]
                      IN  /\ Len(q.evidence) <= 1 \/ FailedOpen(q)
                          /\ /\ q.at = "refused"
                             /\ q.by \in {"ip_security", "user_agent", "suspicious_activity"}
                             /\ Detected(q) # {} /\ ~q.scoped /\ ~q.raised
                             => q.evidence = <<Detected(q)>>
    BY Zenon DEF RefusedThreatIsCounted
  <2>1. Counted(req[r])
    BY Zenon, <1>1 DEF TraceInv, Traced
  <2>2. Brief(req[r]) => Len(req[r].evidence) <= 1
    <3>1. ASSUME NEW x PROVE Len(<<x>>) = 1 /\ Len(<<>>) = 0
      BY Zenon
    <3> DEFINE n == Len(req[r].evidence)
    <3>2. Brief(req[r]) => n \in {0, 1}
      BY <3>1, Zenon DEF Brief
    <3> HIDE DEF n
    <3>3. Brief(req[r]) => n <= 1
      BY <3>2
    <3> QED BY Zenon, <3>3 DEF n
  <2> QED BY Zenon, <2>1, <2>2 DEF Counted, Detecting
<1>2. ASSUME TraceInv PROVE EvidenceIsScoped
  <2> SUFFICES ASSUME NEW r \in Reqs
               PROVE  LET q == req[r]
                      IN  /\ q.scoped => q.evidence \in {<<>>, <<{"rate_limit"}>>}
                          /\ GloballyWhitelisted(q) /\ ~q.raised =>
                              /\ q.by \notin Middle
                              /\ q.evidence # <<>> => q.at \in {"put", "judge"} \/ q.by = "ip_security"
    BY Zenon DEF EvidenceIsScoped, Middle
  <2>1. Counted(req[r])
    BY Zenon, <1>2 DEF TraceInv, Traced
  <2> QED BY <2>1, Zenon DEF Counted, Brief
<1>3. TraceInv => EvidenceIsExact
  BY Zenon, <1>1, <1>2 DEF EvidenceIsExact
<1> QED BY <1>3, TraceInit, TraceStep, PTL DEF Spec

-----------------------------------------------------------------------------
(* The counts: the third inductive invariant.                              *)

Entry == [ip : dep.clients, n : [Categories -> Nat]]

\* The entries of a map, oldest first.
IsTally(s) ==
    s \in Seq(Entry) /\ \A i, j \in DOMAIN s : s[i].ip = s[j].ip => i = j

Without(s, ip) == \A i \in DOMAIN s : s[i].ip # ip

AtMostOne(s) == s = <<>> \/ (s = <<s[1]>> /\ s[1] \in Entry)

\* Counts that have reached a threshold have led, or are about to lead, to a ban.
Answered(e) ==
    dep.banning /\ ~dep.passive =>
        /\ Total(e.n) >= dep.flat => e.ip \in called \cup forgot \/ Unjudged(e.ip)
        /\ ~dep.threads /\ (\E k \in DOMAIN dep.perCategory : e.n[k] >= dep.perCategory[k]) =>
             e.ip \in called \cup forgot \/ Unjudged(e.ip)

\* Whoever has taken an entry out holds the lock, and the entry is in no other
\* place; a count is judged apart from its increment in threads only.
Held(r) ==
    /\ req[r].at \in {"put", "judge"} => dep.threads
    /\ req[r].at = "put" => /\ lock = r /\ Without(counts, req[r].ip)
                            /\ AtMostOne(req[r].hand)

TallyInv ==
    /\ IsTally(counts)
    /\ \A r \in Reqs : Held(r)
    /\ \A i \in DOMAIN counts : Answered(counts[i])

\* Taking one element out of a sequence leaves the others in their order.
LEMMA OneTakenOut ==
  ASSUME NEW S, NEW s \in Seq(S), NEW p \in 1..Len(s)
  PROVE  LET t == SubSeq(s, 1, p - 1) \o SubSeq(s, p + 1, Len(s))
         IN  /\ t \in Seq(S) /\ DOMAIN t = 1..(Len(s) - 1)
             /\ \A i \in 1..(Len(s) - 1) : t[i] = IF i < p THEN s[i] ELSE s[i + 1]
<1> DEFINE n == Len(s)
           a == SubSeq(s, 1, p - 1)
           b == SubSeq(s, p + 1, n)
           t == a \o b
<1>1. n \in Nat /\ p \in 1..n /\ p \in Nat
  OBVIOUS
<1>2. a \in Seq(S) /\ Len(a) = p - 1 /\ \A i \in 1..(p - 1) : a[i] = s[i]
  OBVIOUS
<1>3. b \in Seq(S) /\ Len(b) = n - p /\ \A i \in 1..(n - p) : b[i] = s[p + i]
  OBVIOUS
<1> HIDE DEF n, a, b
<1>4. /\ t \in Seq(S) /\ Len(t) = Len(a) + Len(b)
      /\ \A i \in 1..(Len(a) + Len(b)) : t[i] = IF i <= Len(a) THEN a[i] ELSE b[i - Len(a)]
  BY ZenonT(30), <1>2, <1>3, ConcatProperties
<1> HIDE DEF t
<1>5. Len(a) + Len(b) = n - 1
  BY <1>1, <1>2, <1>3
<1>6. DOMAIN t = 1..(n - 1)
  BY <1>4, <1>5
<1>7. ASSUME NEW i \in 1..(n - 1) PROVE t[i] = IF i < p THEN s[i] ELSE s[i + 1]
  <2>1. t[i] = IF i <= p - 1 THEN a[i] ELSE b[i - (p - 1)]
    BY Zenon, <1>2, <1>4, <1>5
  <2>2. CASE i <= p - 1
    <3>1. i < p /\ i \in 1..(p - 1)
      BY <1>1, <2>2
    <3> QED BY Zenon, <1>2, <2>1, <2>2, <3>1
  <2>3. CASE ~(i <= p - 1)
    <3>1. i - (p - 1) \in 1..(n - p) /\ p + (i - (p - 1)) = i + 1 /\ ~(i < p)
      BY <1>1, <2>3
    <3>2. b[i - (p - 1)] = s[p + (i - (p - 1))]
      BY Zenon, <1>3, <3>1
    <3> QED BY Zenon, <2>1, <2>3, <3>1, <3>2
  <2> QED BY Zenon, <2>2, <2>3
<1>8. /\ t \in Seq(S) /\ DOMAIN t = 1..(n - 1)
      /\ \A i \in 1..(n - 1) : t[i] = IF i < p THEN s[i] ELSE s[i + 1]
  BY Zenon, <1>4, <1>6, <1>7
<1> QED BY Zenon, <1>8 DEF t, a, b, n

\* pop: what is left has no entry of the client, and the one taken out is its.
LEMMA TakenOut ==
  ASSUME IsTally(counts), NEW ip
  PROVE  /\ IsTally(Others(ip)) /\ Without(Others(ip), ip)
         /\ \A i \in DOMAIN Others(ip) : \E j \in DOMAIN counts : Others(ip)[i] = counts[j]
<1>1. CASE Places(ip) = {}
  <2>1. Others(ip) = counts /\ \A i \in DOMAIN counts : counts[i].ip # ip
    BY Zenon, <1>1 DEF Others, Places
  <2> QED BY Zenon, <2>1 DEF Without
<1>2. CASE Places(ip) # {}
  <2> DEFINE p == Place(ip)
             n == Len(counts)
             t == SubSeq(counts, 1, p - 1) \o SubSeq(counts, p + 1, n)
  <2>1. p \in DOMAIN counts /\ counts[p].ip = ip /\ Others(ip) = t
    BY Zenon, <1>2 DEF Others, Places, Place
  <2>2. counts \in Seq(Entry) /\ \A i, j \in DOMAIN counts : counts[i].ip = counts[j].ip => i = j
    BY Zenon DEF IsTally
  <2>3. n \in Nat /\ DOMAIN counts = 1..n /\ p \in 1..n
    BY <2>1, <2>2
  <2>4. /\ t \in Seq(Entry) /\ DOMAIN t = 1..(n - 1)
        /\ \A i \in 1..(n - 1) : t[i] = IF i < p THEN counts[i] ELSE counts[i + 1]
    <3> HIDE DEF n, p
    <3> QED BY Zenon, <2>2, <2>3, OneTakenOut DEF n
  <2> HIDE DEF t, n, p
  <2> DEFINE old(i) == IF i < p THEN i ELSE i + 1
  <2>5. /\ \A i \in 1..(n - 1) : old(i) \in 1..n /\ old(i) # p
        /\ \A i, j \in 1..(n - 1) : old(i) = old(j) => i = j
    BY <2>3
  <2>6. \A i \in 1..(n - 1) : t[i] = counts[old(i)]
    BY Zenon, <2>4
  <2> HIDE DEF old
  <2>7. \A i \in 1..(n - 1) : \E j \in 1..n : t[i] = counts[j]
    BY Zenon, <2>5, <2>6
  <2>8. \A i, j \in 1..(n - 1) : t[i].ip = t[j].ip => i = j
    <3> SUFFICES ASSUME NEW i \in 1..(n - 1), NEW j \in 1..(n - 1), t[i].ip = t[j].ip
                 PROVE  i = j
      BY Zenon
    <3>1. counts[old(i)].ip = counts[old(j)].ip
      BY Zenon, <2>6
    <3> QED BY Zenon, <2>2, <2>3, <2>5, <3>1
  <2>9. ASSUME NEW i \in 1..(n - 1) PROVE t[i].ip # ip
    <3>1. counts[old(i)].ip # ip
      BY Zenon, <2>1, <2>2, <2>3, <2>5
    <3> QED BY Zenon, <2>6, <3>1
  <2> QED BY Zenon, <2>1, <2>3, <2>4, <2>7, <2>8, <2>9 DEF IsTally, Without
<1> QED BY Zenon, <1>1, <1>2

LEMMA EntryFound ==
  ASSUME IsTally(counts), NEW ip
  PROVE  /\ AtMostOne(EntryOf(ip))
         /\ EntryOf(ip) # <<>> => \E i \in DOMAIN counts : /\ counts[i].ip = ip
                                                         /\ EntryOf(ip) = <<counts[i]>>
                                                         /\ EntryOf(ip)[1] = counts[i]
         /\ \A i \in DOMAIN counts : counts[i].ip = ip => EntryOf(ip) = <<counts[i]>>
<1>1. \A x : <<x>>[1] = x /\ <<x>> # <<>>
  OBVIOUS
<1>2. \A i \in DOMAIN counts : counts[i] \in Entry
  BY DEF IsTally
<1>3. \A i, j \in DOMAIN counts : counts[i].ip = counts[j].ip => i = j
  BY Zenon DEF IsTally
<1>4. CASE Places(ip) = {}
  <2>1. EntryOf(ip) = <<>> /\ \A i \in DOMAIN counts : counts[i].ip # ip
    BY Zenon, <1>4 DEF EntryOf, Places
  <2> QED BY Zenon, <2>1 DEF AtMostOne
<1>5. CASE Places(ip) # {}
  <2>1. Place(ip) \in DOMAIN counts /\ counts[Place(ip)].ip = ip
    BY Zenon, <1>5 DEF Places, Place
  <2>2. EntryOf(ip) = <<counts[Place(ip)]>>
    BY Zenon, <1>5 DEF EntryOf
  <2>3. EntryOf(ip)[1] = counts[Place(ip)]
    BY Zenon, <1>1, <2>2
  <2> QED BY Zenon, <1>2, <1>3, <2>1, <2>2, <2>3 DEF AtMostOne
<1> QED BY Zenon, <1>4, <1>5

\* Putting back: the client's entry is the newest, the others are as before.
Newest(new, e, rest) ==
    /\ IsTally(new) /\ Len(new) \in DOMAIN new /\ new[Len(new)] = e
    /\ \A i \in DOMAIN new : i = Len(new) \/ \E j \in DOMAIN rest : new[i] = rest[j]

LEMMA PutIn ==
  ASSUME NEW ip \in dep.clients, NEW entry, NEW rest, NEW cats,
         IsTally(rest), Without(rest, ip), AtMostOne(entry)
  PROVE  Newest(Stored(ip, entry, rest, cats), [ip |-> ip, n |-> Incremented(entry, cats)], rest)
<1> DEFINE e == [ip |-> ip, n |-> Incremented(entry, cats)]
           left == IF Evicts(entry, rest) THEN Tail(rest) ELSE rest
           new == Stored(ip, entry, rest, cats)
<1>1. rest \in Seq(Entry) /\ \A i, j \in DOMAIN rest : rest[i].ip = rest[j].ip => i = j
  BY Zenon DEF IsTally
<1>2. Incremented(entry, cats) \in [Categories -> Nat]
  <2>1. ASSUME NEW k \in Categories
        PROVE  (IF entry = <<>> THEN 0 ELSE entry[1].n[k]) + (IF k \in cats THEN 1 ELSE 0) \in Nat
    <3>1. entry = <<>> \/ entry[1].n[k] \in Nat
      BY <2>1 DEF AtMostOne, Entry
    <3> QED BY <3>1
  <2> QED BY <2>1 DEF Incremented
<1>3. e \in Entry /\ e.ip = ip
  BY <1>2 DEF Entry
<1>4. new = Append(left, e)
  BY Zenon DEF Stored
<1>5. /\ left \in Seq(Entry)
      /\ \E d \in {0, 1} : \A i \in DOMAIN left : i + d \in DOMAIN rest /\ left[i] = rest[i + d]
  <2>1. CASE Evicts(entry, rest)
    <3>1. rest # <<>>
      BY <1>1, <2>1, TrackedAssumption DEF Evicts
    <3>2. left = Tail(rest)
      BY Zenon, <2>1
    <3>3. /\ Tail(rest) \in Seq(Entry)
          /\ \A i \in DOMAIN Tail(rest) : i + 1 \in DOMAIN rest /\ Tail(rest)[i] = rest[i + 1]
      BY <1>1, <3>1
    <3> HIDE DEF left
    <3> QED BY <3>2, <3>3, Zenon
  <2>2. CASE ~Evicts(entry, rest)
    <3>1. left = rest
      BY Zenon, <2>2
    <3>2. \A i \in DOMAIN rest : i + 0 \in DOMAIN rest /\ rest[i] = rest[i + 0]
      BY <1>1
    <3> HIDE DEF left
    <3> QED BY Zenon, <1>1, <3>1, <3>2
  <2> QED BY Zenon, <2>1, <2>2
<1> HIDE DEF left, e
<1>6. PICK d \in {0, 1} : \A i \in DOMAIN left : i + d \in DOMAIN rest /\ left[i] = rest[i + d]
  BY Zenon, <1>5
<1>7. /\ new \in Seq(Entry) /\ Len(new) = Len(left) + 1 /\ Len(left) \in Nat
      /\ DOMAIN new = 1..(Len(left) + 1) /\ DOMAIN left = 1..Len(left)
      /\ \A i \in 1..Len(left) : new[i] = left[i]
      /\ new[Len(left) + 1] = e
  BY <1>3, <1>4, <1>5
<1> HIDE DEF new
<1>8. \A i \in 1..Len(left) : new[i] = rest[i + d] /\ i + d \in DOMAIN rest
  BY Zenon, <1>6, <1>7
<1>9. Len(new) \in DOMAIN new /\ \A i \in DOMAIN new : i = Len(new) \/ i \in 1..Len(left)
  BY <1>7
<1>10. ASSUME NEW i \in DOMAIN new, NEW j \in DOMAIN new, new[i].ip = new[j].ip PROVE i = j
  <2>1. \A k \in 1..Len(left) : new[k].ip # ip
    BY Zenon, <1>8 DEF Without
  <2>2. new[Len(new)].ip = ip
    BY Zenon, <1>3, <1>7
  <2>3. CASE i \in 1..Len(left) /\ j \in 1..Len(left)
    <3>1. i + d = j + d
      <4>1. rest[i + d].ip = rest[j + d].ip
        BY Zenon, <1>8, <1>10, <2>3
      <4> QED BY Zenon, <1>1, <1>8, <2>3, <4>1
    <3> QED BY <2>3, <3>1
  <2> QED BY Zenon, <1>9, <1>10, <2>1, <2>2, <2>3
<1>11. Len(new) \in DOMAIN new /\ new[Len(new)] = e
  BY Zenon, <1>7, <1>9
<1>12. \A i \in DOMAIN new : i = Len(new) \/ \E j \in DOMAIN rest : new[i] = rest[j]
  BY Zenon, <1>8, <1>9
<1>13. IsTally(new)
  BY Zenon, <1>7, <1>10 DEF IsTally
<1>14. Newest(new, e, rest)
  BY Zenon, <1>11, <1>12, <1>13 DEF Newest
<1> QED BY Zenon, <1>14 DEF new, e

\* Nothing but taking an entry out leads to "put", and from there to "judge".
Unheld(q) == q.at \notin {"put", "judge"}

LEMMA AnswersUnheld ==
  ASSUME NEW q, IsReq(q)
  PROVE  /\ Unheld(Passed(q)) /\ Unheld(Refused(q))
         /\ Unheld([Refused(q) EXCEPT !.by = "ip_ban"])
         /\ \A cats : Unheld(Counting(q, cats))
         /\ Unheld(EscalateIdentityViolation(q))
         /\ \A ofRedis : Unheld(HandleCheckError(q, ofRedis))
         /\ \A p \in Errors(q) : Unheld(p)
         /\ \A may : \A p \in Flagged(q, may) : Unheld(p)
<1>1. ASSUME NEW x, IsReq(x) PROVE Unheld(Passed(x))
  <2> DEFINE c == NextCheck(x.check, x.scoped)
  <2>1. Passed(x).at = IF c = None THEN "admitted" ELSE c
    BY Zenon, <1>1, PassedFields
  <2>2. c # None => c \notin {"refused", "put", "judge"}
    BY Zenon, NextCheckFacts
  <2> HIDE DEF c
  <2> QED BY Zenon, <2>1, <2>2 DEF Unheld
<1>2. Refused(q).at = "refused" /\ IsReq(Refused(q))
  BY Zenon DEF Refused, IsReq, Fields
<1>3. [Refused(q) EXCEPT !.by = "ip_ban"].at = "refused"
  BY Zenon, <1>2 DEF IsReq, Fields
<1>4. \A cats : Counting(q, cats).at = "count"
  BY Zenon DEF Counting, IsReq, Fields
<1>5. ASSUME NEW ofRedis PROVE Unheld(HandleCheckError(q, ofRedis))
  <2> DEFINE e == [q EXCEPT !.raised = TRUE]
  <2>1. IsReq(e)
    BY Zenon DEF IsReq, Fields
  <2>2. [e EXCEPT !.at = "refused", !.by = "error"].at = "refused"
    BY Zenon, <2>1 DEF IsReq, Fields
  <2>3. HandleCheckError(q, ofRedis) \in {[e EXCEPT !.at = "refused", !.by = "error"], Passed(e)}
    BY Zenon DEF HandleCheckError
  <2> HIDE DEF e
  <2> QED BY Zenon, <1>1, <2>1, <2>2, <2>3 DEF Unheld
<1>6. \A p \in Errors(q) : Unheld(p)
  BY Zenon, <1>5 DEF Errors
<1>7. Unheld(Passed(q)) /\ Unheld(Refused(q)) /\ \A cats : Unheld(Counting(q, cats))
  BY Zenon, <1>1, <1>2, <1>4 DEF Unheld
<1>8. Unheld(EscalateIdentityViolation(q))
  BY Zenon, <1>7 DEF EscalateIdentityViolation
<1>9. \A may : \A p \in Flagged(q, may) : Unheld(p)
  BY Zenon, <1>6, <1>7 DEF Flagged
<1>10. Unheld([Refused(q) EXCEPT !.by = "ip_ban"])
  BY Zenon, <1>3 DEF Unheld
<1> QED BY Zenon, <1>5, <1>6, <1>7, <1>8, <1>9, <1>10

LEMMA ListsUnheld ==
  ASSUME NEW q, IsReq(q), NEW p \in IpSecurityLists(q) PROVE Unheld(p)
<1>1. ASSUME NEW route, NEW escalate, NEW d \in CheckGlobalIpRestrictions(q, route, escalate)
      PROVE  Unheld(d)
  <2>1. PICK g \in ResolveGlobalIpAccess(q, route) :
          LET f == [q EXCEPT !.white = g.white, !.exempt = g.exempt]
          IN  d = IF g.allowed \/ dep.passive THEN Passed(f)
                  ELSE IF escalate THEN EscalateIdentityViolation(f) ELSE Refused(f)
    BY <1>1, Zenon DEF CheckGlobalIpRestrictions
  <2> DEFINE f == [q EXCEPT !.white = g.white, !.exempt = g.exempt]
  <2>2. IsReq(f)
    BY Zenon DEF IsReq, Fields
  <2>3. d \in {Passed(f), EscalateIdentityViolation(f), Refused(f)}
    BY Zenon, <2>1
  <2> HIDE DEF f
  <2> QED BY Zenon, <2>2, <2>3, AnswersUnheld
<1>2. Unheld(Passed(q)) /\ Unheld(EscalateIdentityViolation(q))
  BY Zenon, AnswersUnheld
<1> QED BY Zenon, <1>1, <1>2 DEF IpSecurityLists

\* A check leaves the counts alone.
Aside(r) ==
    /\ Unheld(req[r]) /\ \E p : Unheld(p) /\ req' = [req EXCEPT ![r] = p]
    /\ UNCHANGED <<dep, counts, lock, called, forgot>>

LEMMA ArriveAside == ASSUME TraceInv, NEW r \in Reqs, Arrive(r) PROVE Aside(r)
<1>1. PICK c \in dep.clients, rt \in dep.routes, t \in dep.threats, excluded \in dep.excluded :
        LET q == HandlePassthrough([Fresh EXCEPT !.client = c, !.route = rt, !.threat = t,
                                                 !.held = c \in banned], excluded)
        IN  req' = [req EXCEPT ![r] = IF q.at = "new" THEN HandleSecurityBypass(q) ELSE q]
  BY Zenon DEF Arrive
<1> DEFINE n == [Fresh EXCEPT !.client = c, !.route = rt, !.threat = t, !.held = c \in banned]
           q == HandlePassthrough(n, excluded)
           p == IF q.at = "new" THEN HandleSecurityBypass(q) ELSE q
<1>2. IsReq(n) /\ n.at = "new"
  BY Zenon DEF Fresh, IsReq, Fields
<1>3. req' = [req EXCEPT ![r] = p]
  BY <1>1, Zenon
<1> HIDE DEF n
<1>4. IsReq(q) /\ q.at \in {"new", "refused"}
  <2>1. q \in {n, [n EXCEPT !.scoped = TRUE],
               [n EXCEPT !.at = "refused", !.by = "unresolvable_client_address"]}
    BY Zenon DEF HandlePassthrough
  <2>2. ASSUME q = [n EXCEPT !.scoped = TRUE] PROVE IsReq(q) /\ q.at = "new"
    BY <1>2, <2>2, Zenon DEF IsReq, Fields
  <2>3. ASSUME q = [n EXCEPT !.at = "refused", !.by = "unresolvable_client_address"]
        PROVE  IsReq(q) /\ q.at = "refused"
    BY <1>2, <2>3, Zenon DEF IsReq, Fields
  <2> QED BY Zenon, <1>2, <2>1, <2>2, <2>3
<1> HIDE DEF q
<1>5. HandleSecurityBypass(q).at \in {"admitted", "route_config"}
  <2>1. [q EXCEPT !.at = "admitted"].at = "admitted"
    BY Zenon, <1>4 DEF IsReq, Fields
  <2>2. [q EXCEPT !.at = "route_config", !.check = "route_config"].at = "route_config"
    BY Zenon, <1>4 DEF IsReq, Fields
  <2> QED BY Zenon, <2>1, <2>2 DEF HandleSecurityBypass
<1>6. Unheld(p)
  BY Zenon, <1>4, <1>5 DEF Unheld
<1> HIDE DEF p
<1> QED BY Zenon, <1>3, <1>6 DEF Arrive, Shared, Aside, Unheld

LEMMA CheckAside ==
  ASSUME TraceInv, NEW r \in Reqs, LocalCheck(r) \/ SharedCheck(r)
  PROVE  Aside(r)
<1> DEFINE q == req[r]
<1>1. IsReq(q)
  BY Zenon DEF TraceInv, Traced, Carried
<1>2. Unheld(q) /\ UNCHANGED <<dep, counts, lock, called, forgot>>
  BY Zenon DEF LocalCheck, SharedCheck, Shared, Unheld
<1>3. ASSUME NEW qs, Becomes(r, qs), \A p \in qs : Unheld(p) PROVE Aside(r)
  BY Zenon, <1>2, <1>3 DEF Becomes, Aside
<1> HIDE DEF q
<1>4. /\ \A p \in Errors(q) : Unheld(p)
      /\ \A may : \A p \in Flagged(q, may) : Unheld(p)
      /\ Unheld(Passed(q)) /\ Unheld(Refused(q)) /\ Unheld(EscalateIdentityViolation(q))
      /\ Unheld([Refused(q) EXCEPT !.by = "ip_ban"])
      /\ \A cats : Unheld(Counting(q, cats))
  BY Zenon, <1>1, AnswersUnheld
<1>5. CASE LocalCheck(r)
  <2>1. \A p \in RouteConfigCheck(q) : Unheld(p)
    <3> DEFINE e == [q EXCEPT !.ip = q.client]
    <3>1. IsReq(e)
      BY Zenon, <1>1 DEF IsReq, Fields
    <3>2. RouteConfigCheck(q) = Flagged(e, dep.strict) \cup Errors(q)
      BY Zenon DEF RouteConfigCheck
    <3> HIDE DEF e
    <3> QED BY Zenon, <1>4, <3>1, <3>2, AnswersUnheld
  <2>2. \/ Becomes(r, RouteConfigCheck(q))
        \/ \E may : Becomes(r, Flagged(q, may) \cup {Passed(q)} \cup Errors(q))
    BY <1>5, Zenon
       DEF LocalCheck, Becomes, EmergencyModeCheck, HttpsEnforcementCheck, RequestLoggingCheck,
           RequestSizeContentCheck, RequiredHeadersCheck, AuthenticationCheck, ReferrerCheck,
           CustomValidatorsCheck, TimeWindowCheck, CloudIpRefreshCheck, CloudProviderCheck,
           CustomRequestCheck, q
  <2>3. \A may : \A p \in Flagged(q, may) \cup {Passed(q)} \cup Errors(q) : Unheld(p)
    BY Zenon, <1>4
  <2> QED BY Zenon, <1>3, <2>1, <2>2, <2>3
<1>6. CASE SharedCheck(r)
  <2>1. [q EXCEPT !.at = "ip_lists"].at = "ip_lists"
    BY Zenon, <1>1 DEF IsReq, Fields
  <2>2. \A p \in {CheckBannedIp(q)} \cup Errors(q) : Unheld(p)
    BY Zenon, <1>4, <2>1 DEF CheckBannedIp, Unheld
  <2>3. \A p \in IpSecurityLists(q) \cup Errors(q) : Unheld(p)
    BY Zenon, <1>1, <1>4, ListsUnheld
  <2>4. \A p \in UserAgentCheck(q) : Unheld(p)
    BY Zenon, <1>4 DEF UserAgentCheck
  <2>5. \A p \in RateLimitCheck(q) : Unheld(p)
    BY Zenon, <1>4 DEF RateLimitCheck
  <2>6. \A p \in SuspiciousActivityCheck(q) : Unheld(p)
    BY Zenon, <1>4 DEF SuspiciousActivityCheck
  <2>7. \/ Becomes(r, {CheckBannedIp(q)} \cup Errors(q))
        \/ Becomes(r, IpSecurityLists(q) \cup Errors(q))
        \/ Becomes(r, UserAgentCheck(q)) \/ Becomes(r, RateLimitCheck(q))
        \/ Becomes(r, SuspiciousActivityCheck(q))
    BY Zenon, <1>6 DEF SharedCheck, q
  <2> QED BY Zenon, <1>3, <2>2, <2>3, <2>4, <2>5, <2>6, <2>7
<1> QED BY Zenon, <1>5, <1>6

LEMMA StillAnswered ==
  ASSUME dep' = dep, called \subseteq called', forgot \subseteq forgot', NEW e, Answered(e),
         Unjudged(e.ip) => Unjudged(e.ip)' \/ e.ip \in called'
  PROVE  Answered(e)'
BY Zenon DEF Answered

LEMMA StillTally ==
  ASSUME dep' = dep
  PROVE  /\ \A s : IsTally(s) => IsTally(s)'
         /\ \A s : AtMostOne(s) => AtMostOne(s)'
         /\ \A s, ip : Without(s, ip) => Without(s, ip)'
<1>1. Entry' = Entry
  BY Zenon DEF Entry
<1> QED BY Zenon, <1>1 DEF IsTally, AtMostOne, Without

LEMMA AsideKeepsTally == ASSUME TraceInv, TallyInv, NEW r \in Reqs, Aside(r) PROVE TallyInv'
<1>1. PICK p : Unheld(p) /\ req' = [req EXCEPT ![r] = p]
  BY Zenon DEF Aside
<1>2. UNCHANGED <<dep, counts, lock, called, forgot>> /\ Unheld(req[r])
  BY Zenon DEF Aside
<1>3. \A o \in Reqs : req'[o] = IF o = r THEN p ELSE req[o]
  BY Zenon, <1>1 DEF TraceInv
<1>4. \A ip : Unjudged(ip) => Unjudged(ip)'
  BY Zenon, <1>2, <1>3 DEF Unjudged, Unheld
<1>5. IsTally(counts)'
  BY Zenon, <1>2, StillTally DEF TallyInv
<1>6. ASSUME NEW o \in Reqs PROVE Held(o)'
  <2>1. CASE o = r
    BY Zenon, <1>1, <1>3, <2>1 DEF Held, Unheld
  <2>2. CASE o # r
    <3>1. req'[o] = req[o] /\ Held(o)
      BY Zenon, <1>3, <2>2 DEF TallyInv
    <3>2. req[o].at = "put" => Without(counts, req[o].ip)' /\ AtMostOne(req[o].hand)'
      BY Zenon, <1>2, <3>1, StillTally DEF Held
    <3> QED BY Zenon, <1>2, <3>1, <3>2 DEF Held
  <2> QED BY Zenon, <2>1, <2>2
<1>7. ASSUME NEW i \in DOMAIN counts' PROVE Answered(counts[i])'
  <2>1. Answered(counts'[i])
    BY Zenon, <1>2 DEF TallyInv
  <2> QED BY Zenon, <1>2, <1>4, <2>1, StillAnswered
<1> QED BY Zenon, <1>5, <1>6, <1>7 DEF TallyInv

LEMMA JudgeCalls ==
  ASSUME NEW r, NEW q, IsReq(q), NEW entry, Judge(r, q, entry)
  PROVE  /\ \E p : Unheld(p) /\ req' = [req EXCEPT ![r] = p]
         /\ called \subseteq called'
         /\ ~dep.passive /\ entry # <<>> /\ ThresholdReached(entry[1].n, q.cats) => q.ip \in called'
<1>1. Unheld(Passed(q)) /\ Unheld(Refused(q)) /\ Unheld(HandleCheckError(q, FALSE))
  BY Zenon, AnswersUnheld
<1>2. CASE dep.passive
  BY Zenon, <1>1, <1>2 DEF Judge, Becomes
<1>3. CASE ~dep.passive
  <2>1. \E p \in {HandleCheckError(q, FALSE), Refused(q)} : req' = [req EXCEPT ![r] = p]
    BY <1>3, Zenon DEF Judge, Becomes
  <2>2. \E p : Unheld(p) /\ req' = [req EXCEPT ![r] = p]
    BY Zenon, <1>1, <2>1
  <2>3. called \subseteq called'
    BY Zenon DEF Judge
  <2>4. entry # <<>> /\ ThresholdReached(entry[1].n, q.cats) => q.ip \in called'
    BY Zenon, <1>3 DEF Judge
  <2> QED BY Zenon, <2>2, <2>3, <2>4
<1> QED BY Zenon, <1>2, <1>3

LEMMA CountingRequest ==
  ASSUME TraceInv, NEW r \in Reqs, req[r].at \in Tallying
  PROVE  IsReq(req[r]) /\ req[r].ip \in dep.clients
<1>1. "new" \notin Tallying
  BY DEF Tallying
<1> QED BY Zenon, <1>1 DEF TraceInv, Traced, Carried, Tallied

\* On the event loop: whatever the increment brings to its threshold is judged
\* in the same step, and what had reached one before has been.
LEMMA CountAndJudgeKeepsTally ==
  ASSUME TraceInv, TallyInv, NEW r \in Reqs, CountAndJudge(r) PROVE TallyInv'
<1> DEFINE q == req[r]
           ip == q.ip
           entry == EntryOf(ip)
           rest == Others(ip)
           new == Stored(ip, entry, rest, q.cats)
           e == [ip |-> ip, n |-> Incremented(entry, q.cats)]
<1>1. IsReq(q) /\ ip \in dep.clients
  BY Zenon, CountingRequest DEF CountAndJudge, Tallying
<1>2. /\ ~dep.threads /\ counts' = new /\ forgot' = Forgotten(entry, rest)
      /\ Judge(r, Recorded(q), <<new[Len(new)]>>) /\ dep' = dep /\ lock' = lock
  BY Zenon DEF CountAndJudge
<1>3. IsReq(Recorded(q)) /\ Recorded(q).cats = q.cats /\ Recorded(q).ip = ip
  BY Zenon, <1>1 DEF Recorded, IsReq, Fields
<1>4. /\ AtMostOne(entry)
      /\ entry # <<>> => \E i \in DOMAIN counts : counts[i].ip = ip /\ entry[1] = counts[i]
  BY Zenon, EntryFound DEF TallyInv
<1>5. /\ IsTally(rest) /\ Without(rest, ip)
      /\ \A i \in DOMAIN rest : \E j \in DOMAIN counts : rest[i] = counts[j]
  BY Zenon, TakenOut DEF TallyInv
<1> HIDE DEF entry, rest
<1>5a. Newest(new, e, rest)
  BY Zenon, <1>1, <1>4, <1>5, PutIn
<1> HIDE DEF new
<1>6. /\ IsTally(new) /\ new[Len(new)] = e
      /\ \A i \in DOMAIN new : i = Len(new) \/ \E j \in DOMAIN rest : new[i] = rest[j]
  BY Zenon, <1>5a DEF Newest
<1>7. /\ e.ip = ip
      /\ \A k \in Categories : e.n[k] = (IF entry = <<>> THEN 0 ELSE entry[1].n[k])
                                        + (IF k \in q.cats THEN 1 ELSE 0)
  <2>1. e.ip = ip /\ e.n = Incremented(entry, q.cats)
    BY Zenon
  <2> HIDE DEF e
  <2> QED BY Zenon, <2>1 DEF Incremented
<1> HIDE DEF e
<1>8. Judge(r, Recorded(q), <<e>>) /\ <<e>> # <<>> /\ <<e>>[1] = e
  BY <1>2, <1>6
<1>9. /\ \E p : Unheld(p) /\ req' = [req EXCEPT ![r] = p]
      /\ called \subseteq called'
      /\ ~dep.passive /\ ThresholdReached(e.n, q.cats) => ip \in called'
  BY Zenon, <1>3, <1>8, JudgeCalls
<1>10. forgot \subseteq forgot'
  BY Zenon, <1>2 DEF Forgotten
<1>11. \A o \in Reqs : Unheld(req[o])
  BY Zenon, <1>2 DEF TallyInv, Held, Unheld
<1>12. \A x : ~Unjudged(x)
  BY Zenon, <1>11 DEF Unjudged, Unheld
<1>13. \A o \in Reqs : Held(o)'
  <2>1. \A o \in Reqs : Unheld(req'[o])
    BY Zenon, <1>9, <1>11 DEF TraceInv
  <2> QED BY Zenon, <2>1 DEF Held, Unheld
<1>14. ASSUME NEW i \in DOMAIN counts' PROVE Answered(counts[i])'
  <2>1. CASE \E j \in DOMAIN rest : new[i] = rest[j]
    <3>1. Answered(counts'[i])
      BY Zenon, <1>2, <1>5, <2>1 DEF TallyInv
    <3> QED BY Zenon, <1>2, <1>9, <1>10, <1>12, <3>1, StillAnswered
  <2>2. CASE counts'[i] = e
    <3>1. ASSUME dep.banning, ~dep.passive, Total(e.n) >= dep.flat PROVE ip \in called'
      BY Zenon, <1>9, <3>1 DEF ThresholdReached
    <3>2. ASSUME dep.banning, ~dep.passive, NEW k \in DOMAIN dep.perCategory,
                 e.n[k] >= dep.perCategory[k]
          PROVE  ip \in called' \cup forgot'
      <4>1. CASE k \in q.cats
        BY Zenon, <1>9, <3>2, <4>1 DEF ThresholdReached
      <4>2. CASE k \notin q.cats
        <5>1. k \in Categories /\ dep.perCategory[k] \in Nat \ {0}
          BY Zenon, <3>2, ConfigAssumption DEF TraceInv
        <5>2. entry = <<>> \/ entry[1].n[k] \in Nat
          BY <1>4, <5>1 DEF AtMostOne, Entry
        <5>3. e.n[k] = (IF entry = <<>> THEN 0 ELSE entry[1].n[k]) + 0
          BY Zenon, <1>7, <4>2, <5>1
        <5>4. entry # <<>> /\ entry[1].n[k] >= dep.perCategory[k]
          BY <3>2, <5>1, <5>2, <5>3
        <5>5. PICK j \in DOMAIN counts : counts[j].ip = ip /\ counts[j].n[k] >= dep.perCategory[k]
          BY Zenon, <1>4, <5>4
        <5>6. ip \in called \cup forgot
          BY Zenon, <1>2, <1>12, <3>2, <5>5 DEF TallyInv, Answered
        <5> QED BY Zenon, <1>9, <1>10, <5>6
      <4> QED BY Zenon, <4>1, <4>2
    <3>3. counts'[i].ip = ip /\ counts'[i].n = e.n
      BY Zenon, <1>7, <2>2
    <3> QED BY Zenon, <1>2, <3>1, <3>2, <3>3 DEF Answered
  <2> QED BY Zenon, <1>2, <1>6, <2>1, <2>2
<1>15. IsTally(counts)'
  BY Zenon, <1>2, <1>6, StillTally
<1> QED BY Zenon, <1>13, <1>14, <1>15 DEF TallyInv

\* In threads: while an entry is out, its client has none and the lock is held.
LEMMA TakeOutKeepsTally ==
  ASSUME TraceInv, TallyInv, NEW r \in Reqs, TakeOut(r) PROVE TallyInv'
<1> DEFINE q == req[r]
           p == [q EXCEPT !.at = "put", !.hand = EntryOf(q.ip)]
<1>1. IsReq(q) /\ q.at = "count"
  BY Zenon, CountingRequest DEF TakeOut, Tallying
<1>2. /\ dep.threads /\ lock = None /\ lock' = r /\ req' = [req EXCEPT ![r] = p]
      /\ counts' = Others(q.ip) /\ UNCHANGED <<dep, called, forgot>>
  BY Zenon DEF TakeOut
<1>3. p.at = "put" /\ p.ip = q.ip /\ p.hand = EntryOf(q.ip)
  BY Zenon, <1>1 DEF IsReq, Fields
<1> HIDE DEF p
<1>4. \A o \in Reqs : req'[o] = IF o = r THEN p ELSE req[o]
  BY Zenon, <1>2 DEF TraceInv
<1>5. /\ IsTally(Others(q.ip)) /\ Without(Others(q.ip), q.ip)
      /\ \A i \in DOMAIN Others(q.ip) : \E j \in DOMAIN counts : Others(q.ip)[i] = counts[j]
  BY Zenon, TakenOut DEF TallyInv
<1>6. AtMostOne(EntryOf(q.ip))
  BY Zenon, EntryFound DEF TallyInv
<1>7. IsTally(counts)'
  BY Zenon, <1>2, <1>5, StillTally
<1>8. ASSUME NEW o \in Reqs PROVE Held(o)'
  <2>1. CASE o = r
    <3>1. req'[o] = p
      BY Zenon, <1>4, <2>1
    <3>2. Without(counts, req[o].ip)' /\ AtMostOne(req[o].hand)'
      BY Zenon, <1>2, <1>3, <1>5, <1>6, <3>1, StillTally
    <3> QED BY Zenon, <1>2, <2>1, <3>2 DEF Held
  <2>2. CASE o # r
    <3>1. req'[o] = req[o] /\ Held(o) /\ o # None
      BY Zenon, <1>4, <2>2, NoneAssumption DEF TallyInv
    <3>2. req'[o].at # "put"
      BY Zenon, <1>2, <3>1 DEF Held
    <3> QED BY Zenon, <1>2, <3>2 DEF Held
  <2> QED BY Zenon, <2>1, <2>2
<1>9. \A x : Unjudged(x) => Unjudged(x)'
  BY Zenon, <1>1, <1>4 DEF Unjudged
<1>10. ASSUME NEW i \in DOMAIN counts' PROVE Answered(counts[i])'
  <2>1. Answered(counts'[i])
    BY Zenon, <1>2, <1>5 DEF TallyInv
  <2> QED BY Zenon, <1>2, <1>9, <2>1, StillAnswered
<1> QED BY Zenon, <1>7, <1>8, <1>10 DEF TallyInv

\* The entry that is put back is yet to be judged, by whoever put it back.
LEMMA PutBackKeepsTally ==
  ASSUME TraceInv, TallyInv, NEW r \in Reqs, PutBack(r) PROVE TallyInv'
<1> DEFINE q == req[r]
           p == [Recorded(q) EXCEPT !.at = "judge", !.hand = <<>>]
           new == Stored(q.ip, q.hand, counts, q.cats)
           e == [ip |-> q.ip, n |-> Incremented(q.hand, q.cats)]
<1>1. IsReq(q) /\ q.ip \in dep.clients /\ q.at = "put"
  BY Zenon, CountingRequest DEF PutBack, Tallying
<1>2. /\ lock' = None /\ req' = [req EXCEPT ![r] = p] /\ UNCHANGED <<dep, called>>
      /\ counts' = new /\ forgot' = Forgotten(q.hand, counts)
  BY Zenon DEF PutBack
<1>3. /\ dep.threads /\ lock = r /\ Without(counts, q.ip) /\ AtMostOne(q.hand)
      /\ \A o \in Reqs : req[o].at = "put" => o = r
  BY Zenon, <1>1 DEF TallyInv, Held
<1>4. p.at = "judge" /\ p.ip = q.ip
  <2>1. IsReq(Recorded(q)) /\ Recorded(q).ip = q.ip
    BY Zenon, <1>1 DEF Recorded, IsReq, Fields
  <2> QED BY Zenon, <2>1 DEF IsReq, Fields
<1> HIDE DEF p
<1>5. \A o \in Reqs : req'[o] = IF o = r THEN p ELSE req[o]
  BY Zenon, <1>2 DEF TraceInv
<1>5a. Newest(new, e, counts)
  BY Zenon, <1>1, <1>3, PutIn DEF TallyInv
<1>7. e.ip = q.ip
  BY Zenon
<1> HIDE DEF new, e
<1>6. /\ IsTally(new) /\ new[Len(new)] = e
      /\ \A i \in DOMAIN new : i = Len(new) \/ \E j \in DOMAIN counts : new[i] = counts[j]
  BY Zenon, <1>5a DEF Newest
<1>8. IsTally(counts)'
  BY Zenon, <1>2, <1>6, StillTally
<1>9. \A o \in Reqs : Held(o)'
  <2>1. \A o \in Reqs : req'[o].at # "put"
    BY Zenon, <1>3, <1>4, <1>5
  <2> QED BY Zenon, <1>2, <1>3, <2>1 DEF Held
<1>10. /\ \A x : x = q.ip => Unjudged(x)'
       /\ \A x : Unjudged(x) => Unjudged(x)'
  <2>1. req'[r].at = "judge" /\ req'[r].ip = q.ip
    BY Zenon, <1>4, <1>5
  <2>2. \A o \in Reqs : req[o].at = "judge" => req'[o] = req[o]
    BY Zenon, <1>1, <1>5
  <2> QED BY Zenon, <2>1, <2>2 DEF Unjudged
<1>11. forgot \subseteq forgot'
  BY Zenon, <1>2 DEF Forgotten
<1>12. ASSUME NEW i \in DOMAIN counts' PROVE Answered(counts[i])'
  <2>1. CASE \E j \in DOMAIN counts : counts'[i] = counts[j]
    <3>1. Answered(counts'[i])
      BY Zenon, <2>1 DEF TallyInv
    <3> QED BY Zenon, <1>2, <1>10, <1>11, <3>1, StillAnswered
  <2>2. CASE counts'[i] = e
    <3>1. Unjudged(counts[i].ip)'
      BY Zenon, <1>7, <1>10, <2>2
    <3> QED BY Zenon, <3>1 DEF Answered
  <2> QED BY Zenon, <1>2, <1>6, <2>1, <2>2
<1> QED BY Zenon, <1>8, <1>9, <1>12 DEF TallyInv

\* The judge looks at all of the client's counts, whoever has added to them.
LEMMA JudgeKeepsTally ==
  ASSUME TraceInv, TallyInv, NEW r \in Reqs, JudgeUnlocked(r) PROVE TallyInv'
<1> DEFINE q == req[r]
           entry == EntryOf(q.ip)
<1>1. IsReq(q) /\ q.at = "judge" /\ Judge(r, q, entry) /\ UNCHANGED <<dep, counts, lock, forgot>>
  BY Zenon, CountingRequest DEF JudgeUnlocked, Tallying
<1>2. dep.threads
  BY Zenon, <1>1 DEF TallyInv, Held
<1>3. \A i \in DOMAIN counts : counts[i].ip = q.ip => entry = <<counts[i]>>
  BY Zenon, EntryFound DEF TallyInv
<1> HIDE DEF entry
<1>4. PICK p : Unheld(p) /\ req' = [req EXCEPT ![r] = p]
  BY Zenon, <1>1, JudgeCalls
<1>5. /\ called \subseteq called'
      /\ ~dep.passive /\ entry # <<>> /\ ThresholdReached(entry[1].n, q.cats) => q.ip \in called'
  BY Zenon, <1>1, JudgeCalls
<1>6. \A o \in Reqs : req'[o] = IF o = r THEN p ELSE req[o]
  BY Zenon, <1>4 DEF TraceInv
<1>7. IsTally(counts)'
  BY Zenon, <1>1, StillTally DEF TallyInv
<1>8. ASSUME NEW o \in Reqs PROVE Held(o)'
  <2>1. CASE o = r
    BY Zenon, <1>4, <1>6, <2>1 DEF Held, Unheld
  <2>2. CASE o # r
    <3>1. req'[o] = req[o] /\ Held(o)
      BY Zenon, <1>6, <2>2 DEF TallyInv
    <3>2. req[o].at = "put" => Without(counts, req[o].ip)' /\ AtMostOne(req[o].hand)'
      BY Zenon, <1>1, <3>1, StillTally DEF Held
    <3> QED BY Zenon, <1>1, <3>1, <3>2 DEF Held
  <2> QED BY Zenon, <2>1, <2>2
<1>9. ASSUME NEW i \in DOMAIN counts' PROVE Answered(counts[i])'
  <2>1. i \in DOMAIN counts /\ counts'[i] = counts[i] /\ Answered(counts'[i])
    BY Zenon, <1>1 DEF TallyInv
  <2>2. CASE counts[i].ip # q.ip
    <3>1. \A x : Unjudged(x) => x = q.ip \/ Unjudged(x)'
      BY Zenon, <1>6 DEF Unjudged
    <3> QED BY Zenon, <1>1, <1>5, <2>1, <2>2, <3>1, StillAnswered
  <2>3. CASE counts[i].ip = q.ip
    <3>1. entry # <<>> /\ entry[1] = counts[i]
      <4>1. entry = <<counts[i]>>
        BY Zenon, <1>3, <2>1, <2>3
      <4> QED BY <4>1
    <3>2. dep.banning /\ ~dep.passive /\ Total(counts[i].n) >= dep.flat => counts[i].ip \in called'
      BY Zenon, <1>5, <2>3, <3>1 DEF ThresholdReached
    <3>3. dep' = dep /\ counts'[i] = counts[i] /\ dep.threads
      BY Zenon, <1>1, <1>2, <2>1
    <3> QED BY Zenon, <3>2, <3>3 DEF Answered
  <2> QED BY Zenon, <2>2, <2>3
<1> QED BY Zenon, <1>7, <1>8, <1>9 DEF TallyInv

LEMMA ExpireKeepsTally ==
  ASSUME TraceInv, TallyInv, NEW c \in Clients, Expire(c) PROVE TallyInv'
<1>1. UNCHANGED <<dep, counts, lock, called, forgot>>
  BY Zenon DEF Expire
<1>2. ASSUME NEW o \in Reqs
      PROVE  /\ req'[o].at = req[o].at /\ req'[o].ip = req[o].ip /\ req'[o].hand = req[o].hand
  <2> DEFINE p == [req[o] EXCEPT !.held = FALSE]
  <2>1. p.at = req[o].at /\ p.ip = req[o].ip /\ p.hand = req[o].hand
    BY Zenon DEF TraceInv, Traced, Carried, IsReq, Fields
  <2>2. req'[o] \in {p, req[o]}
    BY Zenon DEF Expire
  <2> HIDE DEF p
  <2> QED BY Zenon, <2>1, <2>2
<1>3. \A x : Unjudged(x) => Unjudged(x)'
  BY Zenon, <1>2 DEF Unjudged
<1>4. IsTally(counts)'
  BY Zenon, <1>1, StillTally DEF TallyInv
<1>5. ASSUME NEW o \in Reqs PROVE Held(o)'
  <2>1. Held(o)
    BY Zenon DEF TallyInv
  <2>2. req[o].at = "put" => Without(counts', req'[o].ip) /\ AtMostOne(req'[o].hand)
    BY Zenon, <1>1, <1>2, <2>1 DEF Held
  <2>3. req[o].at = "put" => Without(counts, req[o].ip)' /\ AtMostOne(req[o].hand)'
    BY Zenon, <1>1, <2>2, StillTally
  <2> QED BY Zenon, <1>1, <1>2, <2>1, <2>3 DEF Held
<1>6. ASSUME NEW i \in DOMAIN counts' PROVE Answered(counts[i])'
  <2>1. Answered(counts'[i])
    BY Zenon, <1>1 DEF TallyInv
  <2> QED BY Zenon, <1>1, <1>3, <2>1, StillAnswered
<1> QED BY Zenon, <1>4, <1>5, <1>6 DEF TallyInv

LEMMA TallyInit == Init => TallyInv
<1> SUFFICES ASSUME Init PROVE TallyInv
  BY Zenon
<1>1. counts = <<>> /\ \A o \in Reqs : req[o].at = "new"
  BY Zenon DEF Init, Fresh
<1>2. IsTally(counts) /\ DOMAIN counts = {}
  BY <1>1 DEF IsTally
<1> QED BY Zenon, <1>1, <1>2 DEF TallyInv, Held

LEMMA TallyStep == TraceInv /\ TallyInv /\ [Next]_vars => TallyInv'
<1> SUFFICES ASSUME TraceInv, TallyInv, [Next]_vars PROVE TallyInv'
  BY Zenon
<1>1. ASSUME NEW r \in Reqs, Step(r) PROVE TallyInv'
  BY Zenon, <1>1, ArriveAside, CheckAside, AsideKeepsTally, CountAndJudgeKeepsTally,
     TakeOutKeepsTally, PutBackKeepsTally, JudgeKeepsTally DEF Step
<1>2. CASE UNCHANGED vars
  <2>1. UNCHANGED <<dep, req, counts, lock, called, forgot>>
    BY Zenon, <1>2 DEF vars
  <2>2. \A x : Unjudged(x) => Unjudged(x)'
    BY Zenon, <2>1 DEF Unjudged
  <2>3. IsTally(counts)'
    BY Zenon, <2>1, StillTally DEF TallyInv
  <2>4. ASSUME NEW o \in Reqs PROVE Held(o)'
    <3>1. Held(o)
      BY Zenon DEF TallyInv
    <3>2. req[o].at = "put" => Without(counts', req'[o].ip) /\ AtMostOne(req'[o].hand)
      BY Zenon, <2>1, <3>1 DEF Held
    <3>3. req[o].at = "put" => Without(counts, req[o].ip)' /\ AtMostOne(req[o].hand)'
      BY Zenon, <2>1, <3>2, StillTally
    <3> QED BY Zenon, <2>1, <3>1, <3>3 DEF Held
  <2>5. ASSUME NEW i \in DOMAIN counts' PROVE Answered(counts[i])'
    <3>1. Answered(counts'[i])
      BY Zenon, <2>1 DEF TallyInv
    <3> QED BY Zenon, <2>1, <2>2, <3>1, StillAnswered
  <2> QED BY Zenon, <2>3, <2>4, <2>5 DEF TallyInv
<1> QED BY Zenon, <1>1, <1>2, ExpireKeepsTally DEF Next

\* _increment_suspicious_counts and _resolve_and_apply_threshold_ban: counts that
\* have reached the flat threshold, and on the event loop a category's own, have
\* led to a ban call, in any interleaving and however many clients are tracked.
THEOREM ThresholdsLeadToBans == Spec => []ThresholdsBan
<1>1. TallyInv => ThresholdsBan
  BY Zenon DEF TallyInv, Answered, ThresholdsBan, FlatThresholdBans, CategoryThresholdBans,
     CategoryBans
<1>2. TraceInv /\ TallyInv /\ [Next]_vars => (TraceInv /\ TallyInv)'
  BY TraceStep, TallyStep, Zenon
<1> QED BY <1>1, <1>2, TraceInit, TallyInit, PTL DEF Spec
=============================================================================
