---------------------------- MODULE DynamicRules ----------------------------
(***************************************************************************)
(* DynamicRuleManager: rules fetched from an agent are applied over the    *)
(* live SecurityConfig, remembered in Redis (and optionally in a file),    *)
(* re-applied after a restart and taken back when they expire.             *)
(*                                                                         *)
(* A task is a coroutine of the event loop: the update loop, callers of    *)
(* force_update and callers of initialize_agent.  pc[t] names the await at *)
(* which t is suspended; one action runs t from there to its next await.   *)
(* Every rule carries bans and patterns, so the two awaits that apply them *)
(* are always there; a rule without them has fewer interleavings.          *)
(*                                                                         *)
(* The configuration is cut down to one field per way of writing it:       *)
(* "limit" stands for the fields a rule overwrites when it names them,     *)
(* "threshold" for auto_ban_threshold, which emergency mode halves, and    *)
(* "emergency" for the flag a rule can raise but not lower.                *)
(***************************************************************************)
EXTENDS Naturals, FiniteSets

CONSTANTS
    None,          \* no rule, no snapshot, no holder, "field not named"
    Never,         \* expires_at of a rule that does not expire
    Loop,          \* the task of _rule_update_loop
    Callers,       \* tasks that call force_update
    Inits,         \* tasks that call initialize_agent
    Rules,         \* the rules an agent may serve
    BaseConfig,    \* the configuration the process starts with
    Deployments,   \* configurations and environments, one of which a behaviour has
    MaxTime

VARIABLES
    dep,           \* the deployment; chosen once
    config,        \* the snapshot fields of the live SecurityConfig
    current,       \* current_rules
    base,          \* _active_base_snapshot
    lock,          \* holder of _lock
    pc,            \* the await each task is suspended at
    got,           \* the rules a task has fetched or loaded
    snap,          \* the rollback snapshot of a task inside _apply_rules
    hydrated,      \* _hydrated_last_known_rules (and agent_handler is set)
    redis, file,   \* the two last-known stores
    served,        \* what the agent answers with
    now,
    lastStored     \* history: the rule that most recently reached a store

manager == <<config, current, base, lock>>
stores == <<redis, file, lastStored>>
world == <<dep, served, now>>
vars == <<manager, pc, got, snap, hydrated, stores, world>>

\* What a deployment fixes.
UseFile == dep.file          \* dynamic_rules_cache_path is set
CancelPoints == dep.cancel   \* awaits at which stop() may catch the loop
Faults == dep.faults         \* of "agent", "apply", "redis", "file", "crash", "lag"

Updaters == {Loop} \cup Callers
Tasks == Updaters \cup Inits
Awaits == {"off", "idle", "expiry", "fetch", "received", "load", "lock",
           "bans", "patterns", "event", "store", "finish"}

ASSUME TasksAssumption ==
    None \notin Tasks /\ Loop \notin Callers \cup Inits /\ Callers \cap Inits = {}

ASSUME RulesAssumption ==
    /\ None \notin Rules
    /\ \A r \in Rules : r.version \in Nat /\ r.emergency \in BOOLEAN

\* A configuration has the three fields.
IsConfig(c) ==
    /\ c = [limit |-> c.limit, threshold |-> c.threshold, emergency |-> c.emergency]
    /\ c.emergency \in BOOLEAN

ASSUME ConfigAssumption == IsConfig(BaseConfig) /\ BaseConfig # None

ASSUME DeploymentsAssumption ==
    \A d \in Deployments :
        d.rules \subseteq Rules /\ d.callers \subseteq Callers /\ d.inits \subseteq Inits

Unstarted == [t \in Tasks |-> IF t = Loop THEN "off" ELSE "idle"]

Init ==
    /\ dep \in Deployments
    /\ config = BaseConfig /\ current = None /\ base = None /\ lock = None
    /\ pc = Unstarted
    /\ got = [t \in Tasks |-> None] /\ snap = [t \in Tasks |-> None]
    /\ hydrated = FALSE
    /\ redis = None /\ file = None /\ lastStored = None
    /\ served = None /\ now = 0

(***************************************************************************)
(* Pure parts.                                                             *)
(***************************************************************************)
Expired(r) == r.expires # Never /\ now > r.expires

\* Variants of ShouldUpdate: the version is not compared; only a new id counts.
ShouldUpdateAnyVersion(r) == current = None \/ r # current
ShouldUpdateNewId(r) == current = None \/ r.id # current.id

ShouldUpdate(r) ==
    current = None \/ ~(r.id = current.id /\ r.version <= current.version)

WithBlocking(c, r) == [c EXCEPT !.limit = IF r.limit = None THEN @ ELSE r.limit]

Halved(n) == IF n \div 2 > 1 THEN n \div 2 ELSE 1

WithToggles(c, r) ==
    LET set == IF r.threshold = None THEN c.threshold ELSE r.threshold
    IN  [limit |-> c.limit,
         threshold |-> IF r.emergency THEN Halved(set) ELSE set,
         emergency |-> c.emergency \/ r.emergency]

Captured(t) == IF current = None /\ base = None THEN snap[t] ELSE base

(***************************************************************************)
(* A task that has finished its call: an updater waits for its next round, *)
(* initialize_agent goes on, without an await, to start the update loop if *)
(* there is none.                                                          *)
(***************************************************************************)
StartsLoop(f) == [f EXCEPT ![Loop] = IF @ = "off" THEN "idle" ELSE @]

Done(t) ==
    /\ pc' = IF t \in Inits THEN StartsLoop([pc EXCEPT ![t] = "idle"])
             ELSE [pc EXCEPT ![t] = "idle"]
    /\ got' = [got EXCEPT ![t] = None]
    /\ snap' = [snap EXCEPT ![t] = None]

Goto(t, await) == pc' = [pc EXCEPT ![t] = await]

(***************************************************************************)
(* initialize_agent and the hydration from the last-known stores: Redis    *)
(* first, the file when Redis has nothing usable.                          *)
(***************************************************************************)
InitAgent(t) ==
    /\ t \in Inits /\ pc[t] = "idle"
    /\ hydrated' = TRUE
    /\ pc' = IF hydrated THEN StartsLoop(pc) ELSE [pc EXCEPT ![t] = "load"]
    /\ UNCHANGED <<manager, got, snap, stores, world>>

Usable(r) == r # None /\ ~Expired(r)

\* Variant of LastKnown: the file is asked first.
LastKnownFileFirst(redisReply) ==
    IF UseFile /\ Usable(file) THEN file
    ELSE IF Usable(redisReply) THEN redisReply ELSE None

LastKnown(redisReply) ==
    IF Usable(redisReply) THEN redisReply
    ELSE IF UseFile /\ Usable(file) THEN file ELSE None

Hydrate(t) ==
    /\ pc[t] = "load"
    /\ \E redisReply \in {redis} \cup (IF "redis" \in Faults THEN {None} ELSE {}) :
        LET r == LastKnown(redisReply)
        IN  IF r = None
            THEN Done(t)
            ELSE /\ Goto(t, "lock")
                 /\ got' = [got EXCEPT ![t] = r]
                 /\ UNCHANGED snap
    /\ UNCHANGED <<manager, hydrated, stores, world>>

(***************************************************************************)
(* update_rules up to the apply: expiry under the lock, the fetch (the     *)
(* agent answers now, the answer is read later), the two early returns.    *)
(***************************************************************************)
BeginUpdate(t) ==
    /\ t \in Updaters /\ pc[t] = "idle" /\ hydrated
    /\ Goto(t, "expiry")
    /\ UNCHANGED <<manager, got, snap, hydrated, stores, world>>

CheckExpiry(t) ==
    /\ pc[t] = "expiry" /\ lock = None
    /\ IF current # None /\ Expired(current)
       THEN /\ config' = IF base # None THEN base ELSE config
            /\ current' = None /\ base' = None
       ELSE UNCHANGED <<config, current, base>>
    /\ Goto(t, "fetch")
    /\ UNCHANGED <<lock, got, snap, hydrated, stores, world>>

Fetch(t) ==
    /\ pc[t] = "fetch"
    /\ \/ /\ served # None
          /\ Goto(t, "received")
          /\ got' = [got EXCEPT ![t] = served]
          /\ UNCHANGED snap
       \/ (served = None \/ "agent" \in Faults) /\ Done(t)
    /\ UNCHANGED <<manager, hydrated, stores, world>>

Receive(t) ==
    /\ pc[t] = "received"
    /\ IF Expired(got[t]) \/ ~ShouldUpdate(got[t])
       THEN Done(t)
       ELSE Goto(t, "lock") /\ UNCHANGED <<got, snap>>
    /\ UNCHANGED <<manager, hydrated, stores, world>>

(***************************************************************************)
(* _apply_rules, under the lock.  An exception in the try block puts the   *)
(* rollback snapshot back and releases the lock.                           *)
(***************************************************************************)
BeginApply(t) ==
    /\ pc[t] = "lock" /\ lock = None
    /\ lock' = t
    /\ snap' = [snap EXCEPT ![t] = config]
    /\ Goto(t, "bans")
    /\ UNCHANGED <<config, current, base, got, hydrated, stores, world>>

ApplyBlocking(t) ==
    /\ pc[t] = "bans"
    /\ config' = WithBlocking(config, got[t])
    /\ Goto(t, "patterns")
    /\ UNCHANGED <<current, base, lock, got, snap, hydrated, stores, world>>

ApplyToggles(t) ==
    /\ pc[t] = "patterns"
    /\ config' = WithToggles(config, got[t])
    /\ IF got[t].emergency
       THEN Goto(t, "event") /\ UNCHANGED base
       ELSE Goto(t, "store") /\ base' = Captured(t)
    /\ UNCHANGED <<current, lock, got, snap, hydrated, stores, world>>

EmergencySent(t) ==
    /\ pc[t] = "event"
    /\ base' = Captured(t)
    /\ Goto(t, "store")
    /\ UNCHANGED <<config, current, lock, got, snap, hydrated, stores, world>>

\* Variants of ApplyRaises: nothing is rolled back; too much is; the lock is kept.
ApplyRaisesNoRollback(t) ==
    /\ pc[t] \in {"bans", "patterns"} /\ "apply" \in Faults
    /\ lock' = None
    /\ Done(t)
    /\ UNCHANGED <<config, current, base, hydrated, stores, world>>

ApplyRaisesToBase(t) ==
    /\ pc[t] \in {"bans", "patterns"} /\ "apply" \in Faults
    /\ config' = IF base # None THEN base ELSE snap[t]
    /\ lock' = None
    /\ Done(t)
    /\ UNCHANGED <<current, base, hydrated, stores, world>>

ApplyRaisesKeepsLock(t) ==
    /\ pc[t] \in {"bans", "patterns"} /\ "apply" \in Faults
    /\ config' = snap[t]
    /\ Done(t)
    /\ UNCHANGED <<lock, current, base, hydrated, stores, world>>

ApplyRaises(t) ==
    /\ pc[t] \in {"bans", "patterns"} /\ "apply" \in Faults
    /\ config' = snap[t]
    /\ lock' = None
    /\ Done(t)
    /\ UNCHANGED <<current, base, hydrated, stores, world>>

StoreRedis(t) ==
    /\ pc[t] = "store"
    /\ \/ redis' = got[t] /\ lastStored' = got[t]
       \/ "redis" \in Faults /\ UNCHANGED <<redis, lastStored>>
    /\ Goto(t, "finish")
    /\ UNCHANGED <<manager, got, snap, hydrated, file, world>>

(***************************************************************************)
(* The rest runs without an await: the file is replaced, the lock is       *)
(* released, current_rules is assigned.                                    *)
(***************************************************************************)
WriteFile(r) ==
    \/ UseFile /\ file' = r /\ lastStored' = r
    \/ (~UseFile \/ "file" \in Faults) /\ UNCHANGED <<file, lastStored>>

Finish(t) ==
    /\ pc[t] = "finish"
    /\ WriteFile(got[t])
    /\ lock' = None
    /\ current' = got[t]
    /\ Done(t)
    /\ UNCHANGED <<config, base, hydrated, redis, world>>

(***************************************************************************)
(* stop(): CancelledError surfaces at the await the loop is suspended at.  *)
(* It is not an Exception, so no handler of _apply_rules runs; leaving the *)
(* "async with" block releases the lock.                                   *)
(***************************************************************************)
Stop ==
    /\ pc[Loop] \in CancelPoints \ {"off"}
    /\ Goto(Loop, "off")
    /\ lock' = IF lock = Loop THEN None ELSE lock
    /\ got' = [got EXCEPT ![Loop] = None]
    /\ snap' = [snap EXCEPT ![Loop] = None]
    /\ UNCHANGED <<config, current, base, hydrated, stores, world>>

\* The process dies and starts again: only the stores survive.
Restart ==
    /\ "crash" \in Faults
    /\ config' = BaseConfig /\ current' = None /\ base' = None /\ lock' = None
    /\ pc' = Unstarted
    /\ got' = [t \in Tasks |-> None] /\ snap' = [t \in Tasks |-> None]
    /\ hydrated' = FALSE
    /\ UNCHANGED <<stores, world>>

\* The agent's side: versions do not go down, unless it may lag behind itself.
Publish ==
    /\ \E r \in dep.rules \ {served} :
        /\ served # None /\ "lag" \notin Faults => r.version >= served.version
        /\ served' = r
    /\ UNCHANGED <<manager, pc, got, snap, hydrated, stores, dep, now>>

Tick ==
    /\ now < MaxTime
    /\ now' = now + 1
    /\ UNCHANGED <<manager, pc, got, snap, hydrated, stores, dep, served>>

Step(t) ==
    \/ Hydrate(t) \/ CheckExpiry(t) \/ Fetch(t) \/ Receive(t)
    \/ BeginApply(t) \/ ApplyBlocking(t) \/ ApplyToggles(t) \/ EmergencySent(t)
    \/ ApplyRaises(t) \/ StoreRedis(t) \/ Finish(t)

Next ==
    \/ \E t \in {Loop} \cup dep.callers \cup dep.inits :
        InitAgent(t) \/ BeginUpdate(t) \/ Step(t)
    \/ Stop \/ Restart \/ Publish \/ Tick

Spec == Init /\ [][Next]_vars

(***************************************************************************)
(* A started call keeps running, the loop keeps polling while it exists,   *)
(* and asyncio.Lock serves its waiters first come first served, hence the  *)
(* strong fairness.  Nobody is obliged to call anything.                   *)
(***************************************************************************)
FairSpec ==
    /\ Spec
    /\ \A t \in Tasks : SF_vars(Step(t))
    /\ WF_vars(BeginUpdate(Loop))

(***************************************************************************)
(* Properties.                                                             *)
(***************************************************************************)

\* With no rule in force and no apply under way the configuration is the one
\* the process started with: failures are rolled back and expiry undoes every
\* rule applied since, however many superseded one another.
NoRuleMeansBase ==
    lock = None /\ current = None => config = BaseConfig

\* docs/api/models.md on _check_rule_expiry: the step that takes an expired
\* rule back leaves the original configuration, not what an intermediate push
\* left behind.
ExpiryRestoresBase ==
    [][current # None /\ current' = None => config' = BaseConfig]_vars

\* Outside an apply, the rule reported as current is the one in force: its
\* fields are the configuration's, whichever tasks applied rules and whichever
\* applies failed in between.
CurrentIsInForce ==
    lock = None /\ current # None =>
        /\ current.limit # None => config.limit = current.limit
        /\ current.emergency => config.emergency
        /\ current.threshold # None =>
            config.threshold = IF current.emergency THEN Halved(current.threshold)
                               ELSE current.threshold

\* Outside an apply the configuration is that of the rule in force, or the base.
ConfigFollowsRule == NoRuleMeansBase /\ CurrentIsInForce

\* _should_update_rules: a rule is never replaced by an older version of itself,
\* as long as the update loop alone asks the agent for rules.
VersionNeverRegresses ==
    [][dep.callers = {} /\ current # None /\ current' # None /\ current'.id = current.id
        => current'.version >= current.version]_vars

\* A restart brings back the rule that was stored last, never an older one.
HydratesLastStored ==
    [][\A t \in Inits : pc[t] = "load" /\ pc'[t] = "lock" => got'[t] = lastStored]_vars

\* No update and no restart goes back to an earlier rule.
NeverAnEarlierRule == VersionNeverRegresses /\ HydratesLastStored

\* A rule does not outlive its expires_at while the loop runs, whatever fails.
ExpiryHonoured ==
    <>[](pc[Loop] # "off") =>
    (current # None /\ Expired(current)) ~> (current = None \/ ~Expired(current))

\* Once the agent settles on a rule, a running manager comes to enforce it,
\* unless it expires first; no stale apply displaces it for good.
RolloutCompletes ==
    dep.faults = {} => \A r \in Rules :
        <>[](served = r /\ pc[Loop] # "off") => <>[](current = r \/ Expired(r))
=============================================================================
