---------------------------- MODULE StoreProofs ----------------------------
(***************************************************************************)
(* What is proved about the rules that are kept in Redis and in a file,    *)
(* about the Redis connection and about the ban keys behind it.            *)
(***************************************************************************)
EXTENDS DynamicRules, RedisManager, BanKeyMigration, WellFoundedInduction, TLAPS

-----------------------------------------------------------------------------
(***************************************************************************)
(* For any tasks, rules and deployments, as long as stop() does not catch  *)
(* the loop inside an apply: outside an apply the configuration is that of *)
(* the rule in force or the base; and, where one task initialises the      *)
(* agent and the two stores agree, no update and no restart goes back to   *)
(* an earlier rule.                                                        *)
(***************************************************************************)

\* The awaits inside _apply_rules, and those that leave a rule half applied.
Applying == {"bans", "patterns", "event", "store", "finish"}
HalfApplied == Applying \ {"bans"}

\* stop() catches the loop only where nothing has been applied yet.
StopsBetweenApplies == \A d \in Deployments : d.cancel \cap HalfApplied = {}

\* The rule r is in force in c.
InForce(c, r) ==
    /\ r.limit # None => c.limit = r.limit
    /\ r.emergency => c.emergency
    /\ r.threshold # None =>
        c.threshold = IF r.emergency THEN Halved(r.threshold) ELSE r.threshold

\* c is the configuration of the current rule, or the base.
Settled(c) == IF current = None THEN c = BaseConfig ELSE InForce(c, current)

Types ==
    /\ dep \in Deployments
    /\ IsConfig(config)
    /\ lock \in Tasks \cup {None}
    /\ pc \in [Tasks -> Awaits]
    /\ got \in [Tasks -> dep.rules \cup {None}]
    /\ snap = [t \in Tasks |-> snap[t]]
    /\ {current, redis, file, served} \subseteq dep.rules \cup {None}

\* Who is inside an apply holds the lock, and has a rule to apply.
Exclusive ==
    \A t \in Tasks :
        /\ lock = t <=> pc[t] \in Applying
        /\ pc[t] \in {"received", "lock"} \cup Applying => got[t] # None

\* How far an apply is: what the rollback would restore, and what it has done.
Progress ==
    /\ lock = None => Settled(config)
    /\ base \in {None, BaseConfig}
    /\ current # None => base = BaseConfig
    /\ \A t \in Tasks :
        /\ pc[t] \in {"bans", "patterns", "event"} => Settled(snap[t]) /\ IsConfig(snap[t])
        /\ pc[t] = "bans" => config = snap[t]
        /\ pc[t] = "patterns" /\ got[t].limit # None => config.limit = got[t].limit
        /\ pc[t] \in {"event", "store", "finish"} => InForce(config, got[t])
        /\ pc[t] \in {"store", "finish"} => base = BaseConfig

IInv == Types /\ Exclusive /\ Progress

LEMMA IInvInit == Init => IInv
<1> SUFFICES ASSUME Init PROVE IInv
  BY Zenon
<1>1. Types
  <2>1. pc \in [Tasks -> Awaits]
    BY Zenon DEF Init, Unstarted, Awaits
  <2>2. snap = [t \in Tasks |-> snap[t]]
    BY Zenon DEF Init
  <2> QED BY Zenon, <2>1, <2>2, ConfigAssumption DEF Init, Types
<1>2. \A t \in Tasks : pc[t] \in {"off", "idle"}
  BY Zenon DEF Init, Unstarted
<1>3. Exclusive
  BY Zenon, <1>2, TasksAssumption DEF Init, Exclusive, Applying
<1>4. Progress
  BY Zenon, <1>2 DEF Init, Progress, Settled
<1> QED BY Zenon, <1>1, <1>3, <1>4 DEF IInv

-----------------------------------------------------------------------------
\* t goes to the await a; of the other tasks at most the loop is started.
Moves(t, a) ==
    /\ pc' \in [Tasks -> Awaits] /\ pc'[t] = a
    /\ \A u \in Tasks \ {t} : pc'[u] = pc[u] \/ (pc[u] = "off" /\ pc'[u] = "idle")

\* The other tasks keep what they hold, and t gets r and s.
Holds(t, r, s) ==
    /\ got' \in [Tasks -> dep.rules \cup {None}] /\ got'[t] = r
    /\ snap' = [u \in Tasks |-> snap'[u]] /\ snap'[t] = s
    /\ \A u \in Tasks \ {t} : got'[u] = got[u] /\ snap'[u] = snap[u]

LEMMA GotoMoves ==
  ASSUME Types, NEW t \in Tasks, NEW a \in Awaits, Goto(t, a)
  PROVE  Moves(t, a)
BY Zenon DEF Types, Goto, Moves

LEMMA DoneMoves ==
  ASSUME Types, NEW t \in Tasks, Done(t)
  PROVE  Moves(t, "idle") /\ Holds(t, None, None)
<1>1. pc \in [Tasks -> Awaits] /\ Loop \in Tasks /\ "idle" \in Awaits
  BY Zenon DEF Types, Tasks, Updaters, Awaits
<1>2. Holds(t, None, None)
  BY Zenon DEF Types, Done, Holds
<1>3. CASE pc' = [pc EXCEPT ![t] = "idle"]
  BY Zenon, <1>1, <1>2, <1>3 DEF Moves
<1>4. CASE t \in Inits /\ pc' = StartsLoop([pc EXCEPT ![t] = "idle"])
  <2>1. t # Loop
    BY Zenon, <1>4, TasksAssumption
  <2> DEFINE f == [pc EXCEPT ![t] = "idle"]
  <2>2. f \in [Tasks -> Awaits] /\ f[t] = "idle" /\ \A u \in Tasks \ {t} : f[u] = pc[u]
    BY Zenon, <1>1
  <2>3. pc' = [f EXCEPT ![Loop] = IF f[Loop] = "off" THEN "idle" ELSE f[Loop]]
    BY Zenon, <1>4 DEF StartsLoop
  <2> HIDE DEF f
  <2>4. Moves(t, "idle")
    BY Zenon, <1>1, <2>1, <2>2, <2>3 DEF Moves
  <2> QED BY Zenon, <1>2, <2>4
<1> QED BY Zenon, <1>3, <1>4 DEF Done

LEMMA KeepsHolding ==
  ASSUME Types, NEW t \in Tasks, UNCHANGED <<got, snap, dep>>
  PROVE  Holds(t, got[t], snap[t])
BY Zenon DEF Types, Holds

\* What the task t has to show for itself when a step of it ends, as far as it
\* leaves the other tasks and the rule in force alone.
LEMMA OthersKeep ==
  ASSUME IInv, NEW t \in Tasks, NEW a \in Awaits, NEW r \in dep.rules \cup {None}, NEW s,
         Moves(t, a), Holds(t, r, s), UNCHANGED dep,
         lock = None \/ lock = t,
         lock' = IF a \in Applying THEN t ELSE None,
         a \in {"received", "lock"} \cup Applying => r # None
  PROVE  /\ Exclusive'
         /\ \A u \in Tasks \ {t} : pc[u] \notin Applying /\ pc'[u] \notin Applying
<1>1. \A u \in Tasks \ {t} : pc[u] \notin Applying
  BY Zenon, TasksAssumption DEF IInv, Exclusive
<1>2. \A u \in Tasks \ {t} : pc'[u] \notin Applying
  BY Zenon, <1>1 DEF Moves, Applying
<1>3. ASSUME NEW u \in Tasks
      PROVE  /\ lock' = u <=> pc'[u] \in Applying
             /\ pc'[u] \in {"received", "lock"} \cup Applying => got'[u] # None
  <2>1. CASE u = t
    BY Zenon, <2>1, TasksAssumption DEF Moves, Holds
  <2>2. CASE u # t
    <3>1. lock' # u
      BY Zenon, <2>2, TasksAssumption
    <3>2. pc'[u] \in {"received", "lock"} \cup Applying => pc'[u] = pc[u]
      BY Zenon, <2>2 DEF Moves, Applying
    <3> QED BY Zenon, <1>2, <2>2, <3>1, <3>2 DEF Holds, IInv, Exclusive
  <2> QED BY Zenon, <2>1, <2>2
<1> QED BY Zenon, <1>1, <1>2, <1>3 DEF Exclusive

\* A step of t outside an apply that leaves the manager alone.
LEMMA QuietStep ==
  ASSUME IInv, NEW t \in Tasks, NEW a \in Awaits \ Applying, NEW r \in dep.rules \cup {None}, NEW s,
         Moves(t, a), Holds(t, r, s), UNCHANGED <<manager, stores, world>>,
         pc[t] \notin Applying, a \in {"received", "lock"} => r # None
  PROVE  IInv'
<1>0. UNCHANGED <<config, current, base, lock, dep, redis, file, served>>
  BY Zenon DEF manager, stores, world
<1>1. Types'
  BY Zenon, <1>0 DEF IInv, Types, Moves, Holds, Tasks, Updaters
<1>2. ASSUME NEW u \in Tasks, pc'[u] \in {"received", "lock"} \cup Applying, u # t
      PROVE  pc'[u] = pc[u] /\ got'[u] = got[u] /\ snap'[u] = snap[u]
  BY Zenon, <1>2 DEF Moves, Holds, Applying
<1>3. ASSUME NEW u \in Tasks PROVE pc'[u] \in Applying <=> pc[u] \in Applying
  BY Zenon DEF Moves, Applying
<1>4. Exclusive'
  <2>1. ASSUME NEW u \in Tasks, pc'[u] \in {"received", "lock"} \cup Applying PROVE got'[u] # None
    BY Zenon, <1>2, <2>1 DEF IInv, Exclusive, Moves, Holds
  <2> QED BY Zenon, <1>0, <1>3, <2>1 DEF IInv, Exclusive
<1>5. ASSUME NEW u \in Tasks, pc'[u] \in Applying
      PROVE  pc'[u] = pc[u] /\ got'[u] = got[u] /\ snap'[u] = snap[u]
  BY Zenon, <1>2, <1>3, <1>5
<1>6. Progress'
  <2>2. ASSUME NEW u \in Tasks
        PROVE  /\ pc'[u] \in {"bans", "patterns", "event"} =>
                    Settled(snap[u])' /\ IsConfig(snap'[u])
               /\ pc'[u] = "bans" => config' = snap'[u]
               /\ pc'[u] = "patterns" /\ got'[u].limit # None => config'.limit = got'[u].limit
               /\ pc'[u] \in {"event", "store", "finish"} => InForce(config', got'[u])
               /\ pc'[u] \in {"store", "finish"} => base' = BaseConfig
    <3>1. CASE pc'[u] \notin Applying
      BY Zenon, <3>1 DEF Applying
    <3>2. CASE pc'[u] \in Applying
      BY Zenon, <1>0, <1>5, <3>2 DEF IInv, Progress, Settled
    <3> QED BY Zenon, <3>1, <3>2
  <2>3. /\ lock' = None => Settled(config)'
        /\ base' \in {None, BaseConfig}
        /\ current' # None => base' = BaseConfig
    BY Zenon, <1>0 DEF IInv, Progress, Settled
  <2> QED BY Zenon, <2>2, <2>3 DEF Progress
<1> QED BY Zenon, <1>1, <1>4, <1>6 DEF IInv

\* A step of t, which has the lock or finds it free, that leaves t settled or at
\* a known point of its apply.
LEMMA ApplyStep ==
  ASSUME IInv, NEW t \in Tasks, NEW a \in Awaits, NEW r \in dep.rules \cup {None}, NEW s,
         Moves(t, a), Holds(t, r, s), UNCHANGED <<dep, served>>,
         IsConfig(config'), {current', redis', file'} \subseteq dep.rules \cup {None},
         lock = None \/ lock = t,
         lock' = IF a \in Applying THEN t ELSE None,
         a \in {"received", "lock"} \cup Applying => r # None,
         a \notin Applying => Settled(config)',
         base' \in {None, BaseConfig},
         current' # None => base' = BaseConfig,
         a \in {"bans", "patterns", "event"} => Settled(snap[t])' /\ IsConfig(s),
         a = "bans" => config' = s,
         a = "patterns" /\ r.limit # None => config'.limit = r.limit,
         a \in {"event", "store", "finish"} => InForce(config', r),
         a \in {"store", "finish"} => base' = BaseConfig
  PROVE  IInv'
<1>1. Types'
  <2>1. lock' \in Tasks \cup {None}
    BY Zenon
  <2>2. served' \in dep'.rules \cup {None}
    BY Zenon DEF IInv, Types
  <2>3. pc' \in [Tasks -> Awaits] /\ got' \in [Tasks -> dep'.rules \cup {None}]
    BY Zenon DEF Moves, Holds
  <2>4. snap' = [u \in Tasks |-> snap'[u]]
    BY Zenon DEF Holds
  <2> QED BY Zenon, <2>1, <2>2, <2>3, <2>4 DEF IInv, Types
<1>2. Exclusive' /\ \A u \in Tasks \ {t} : pc'[u] \notin Applying
  BY Zenon, OthersKeep
<1>3. ASSUME NEW u \in Tasks
      PROVE  /\ pc'[u] \in {"bans", "patterns", "event"} =>
                  Settled(snap[u])' /\ IsConfig(snap'[u])
             /\ pc'[u] = "bans" => config' = snap'[u]
             /\ pc'[u] = "patterns" /\ got'[u].limit # None => config'.limit = got'[u].limit
             /\ pc'[u] \in {"event", "store", "finish"} => InForce(config', got'[u])
             /\ pc'[u] \in {"store", "finish"} => base' = BaseConfig
  <2>1. CASE u = t
    BY Zenon, <2>1 DEF Moves, Holds
  <2>2. CASE u # t
    BY Zenon, <1>2, <2>2 DEF Applying
  <2> QED BY Zenon, <2>1, <2>2
<1>4. lock' = None => Settled(config)'
  BY Zenon, TasksAssumption
<1> QED BY Zenon, <1>1, <1>2, <1>3, <1>4 DEF IInv, Progress

-----------------------------------------------------------------------------
\* The writing of a rule's fields.
LEMMA Blocked ==
  ASSUME NEW c, IsConfig(c), NEW r
  PROVE  /\ IsConfig(WithBlocking(c, r))
         /\ r.limit # None => WithBlocking(c, r).limit = r.limit
BY DEF IsConfig, WithBlocking

LEMMA Toggled ==
  ASSUME NEW c, IsConfig(c), NEW r, r.emergency \in BOOLEAN, r.limit # None => c.limit = r.limit
  PROVE  IsConfig(WithToggles(c, r)) /\ InForce(WithToggles(c, r), r)
<1> DEFINE set == IF r.threshold = None THEN c.threshold ELSE r.threshold
           th == IF r.emergency THEN Halved(set) ELSE set
           d == [limit |-> c.limit, threshold |-> th, emergency |-> c.emergency \/ r.emergency]
<1>1. WithToggles(c, r) = d
  BY Zenon DEF WithToggles
<1>2. r.threshold # None => th = IF r.emergency THEN Halved(r.threshold) ELSE r.threshold
  BY Zenon
<1> HIDE DEF th
<1>3. d.limit = c.limit /\ d.threshold = th /\ d.emergency = (c.emergency \/ r.emergency)
  OBVIOUS
<1>5. IsConfig(d)
  BY <1>3 DEF IsConfig
<1>6. InForce(d, r)
  <2> HIDE DEF d
  <2> QED BY Zenon, <1>2, <1>3 DEF InForce
<1> QED BY Zenon, <1>1, <1>5, <1>6

\* What a task knows that is inside an apply.
LEMMA Inside ==
  ASSUME IInv, NEW t \in Tasks, pc[t] \in Applying
  PROVE  /\ lock = t /\ got[t] \in dep.rules /\ got[t] # None
         /\ got[t].emergency \in BOOLEAN
         /\ Captured(t) \in {None, BaseConfig}
         /\ pc[t] \in {"bans", "patterns", "event"} => Captured(t) = BaseConfig
<1>1. lock = t /\ got[t] \in dep.rules /\ got[t] # None
  BY Zenon DEF IInv, Exclusive, Types
<1>2. got[t].emergency \in BOOLEAN
  BY Zenon, <1>1, DeploymentsAssumption, RulesAssumption DEF IInv, Types
<1>3. pc[t] \in {"bans", "patterns", "event"} => Captured(t) = BaseConfig
  BY Zenon DEF IInv, Progress, Settled, Captured
<1>4. pc[t] \in {"store", "finish"} => Captured(t) = BaseConfig
  BY Zenon, ConfigAssumption DEF IInv, Progress, Captured
<1> QED BY Zenon, <1>1, <1>2, <1>3, <1>4 DEF Applying

\* Everything that runs outside an apply, except the expiry check.
LEMMA OutsideSteps ==
  ASSUME IInv, NEW t \in Tasks,
         InitAgent(t) \/ Hydrate(t) \/ BeginUpdate(t) \/ Fetch(t) \/ Receive(t)
  PROVE  IInv'
<1> USE DEF Awaits, Applying
<1>0. Types /\ UNCHANGED <<manager, stores, world>>
  BY Zenon DEF IInv, InitAgent, Hydrate, BeginUpdate, Fetch, Receive
<1>1. ASSUME Done(t), pc[t] \notin Applying PROVE IInv'
  <2>1. Moves(t, "idle") /\ Holds(t, None, None)
    BY Zenon, <1>0, <1>1, DoneMoves
  <2> QED BY Zenon, <1>0, <1>1, <2>1, QuietStep
<1>2. ASSUME NEW a \in {"expiry", "received", "lock"}, Goto(t, a), pc[t] \notin Applying,
             NEW r \in dep.rules \cup {None}, a \in {"received", "lock"} => r # None,
             \/ got' = [got EXCEPT ![t] = r]
             \/ got' = got /\ r = got[t],
             UNCHANGED snap
      PROVE  IInv'
  <2>1. Moves(t, a)
    BY Zenon, <1>0, <1>2, GotoMoves
  <2>2. Holds(t, r, snap[t])
    BY Zenon, <1>0, <1>2 DEF Types, Holds
  <2> QED BY Zenon, <1>0, <1>2, <2>1, <2>2, QuietStep
<1>3. CASE InitAgent(t)
  <2>1. t # Loop /\ pc[t] = "idle" /\ UNCHANGED <<got, snap, dep>>
    BY Zenon, <1>3, TasksAssumption DEF InitAgent, world
  <2>2. Holds(t, got[t], snap[t])
    BY Zenon, <1>0, <2>1, KeepsHolding
  <2>3. \E a \in {"idle", "load"} : Moves(t, a)
    <3>1. pc \in [Tasks -> Awaits] /\ Loop \in Tasks
      BY Zenon, <1>0 DEF Types, Tasks, Updaters
    <3>2. CASE pc' = StartsLoop(pc)
      <4>1. Moves(t, "idle")
        BY Zenon, <2>1, <3>1, <3>2 DEF Moves, StartsLoop
      <4> QED BY Zenon, <4>1
    <3>3. CASE pc' = [pc EXCEPT ![t] = "load"]
      <4>1. Moves(t, "load")
        BY Zenon, <3>1, <3>3 DEF Moves
      <4> QED BY Zenon, <4>1
    <3> QED BY Zenon, <1>3, <3>2, <3>3 DEF InitAgent
  <2>4. got[t] \in dep.rules \cup {None}
    BY Zenon, <1>0 DEF Types
  <2> QED BY Zenon, <1>0, <2>1, <2>2, <2>3, <2>4, QuietStep
<1>4. CASE Hydrate(t)
  <2>1. pc[t] = "load"
    BY Zenon, <1>4 DEF Hydrate
  <2>2. PICK reply \in {redis, None} :
          LET r == LastKnown(reply)
          IN  IF r = None THEN Done(t)
              ELSE Goto(t, "lock") /\ got' = [got EXCEPT ![t] = r] /\ UNCHANGED snap
    BY Zenon, <1>4 DEF Hydrate
  <2>3. LastKnown(reply) \in dep.rules \cup {None}
    BY Zenon, <1>0 DEF Types, LastKnown
  <2> QED BY Zenon, <1>1, <1>2, <2>1, <2>2, <2>3
<1>5. CASE BeginUpdate(t)
  <2>1. pc[t] = "idle" /\ Goto(t, "expiry") /\ UNCHANGED <<got, snap>>
    BY Zenon, <1>5 DEF BeginUpdate
  <2>2. got[t] \in dep.rules \cup {None}
    BY Zenon, <1>0 DEF Types
  <2> QED BY Zenon, <1>2, <2>1, <2>2
<1>6. CASE Fetch(t)
  <2>1. pc[t] = "fetch" /\ served \in dep.rules \cup {None}
    BY Zenon, <1>0, <1>6 DEF Fetch, Types
  <2> QED BY Zenon, <1>1, <1>2, <1>6, <2>1 DEF Fetch
<1>7. CASE Receive(t)
  <2>1. pc[t] = "received" /\ got[t] \in dep.rules \cup {None} /\ got[t] # None
    BY Zenon, <1>0, <1>7 DEF Receive, Types, IInv, Exclusive
  <2> QED BY Zenon, <1>1, <1>2, <1>7, <2>1 DEF Receive
<1> QED BY Zenon, <1>3, <1>4, <1>5, <1>6, <1>7

\* The expiry check, and _apply_rules from the lock to the rollback or the end.
LEMMA LockSteps ==
  ASSUME IInv, NEW t \in Tasks,
         \/ CheckExpiry(t) \/ BeginApply(t) \/ ApplyBlocking(t) \/ ApplyToggles(t)
         \/ EmergencySent(t) \/ ApplyRaises(t) \/ StoreRedis(t) \/ Finish(t)
  PROVE  IInv'
<1> USE DEF Awaits, Applying
<1>0. /\ Types /\ UNCHANGED <<dep, served>>
      /\ IsConfig(config) /\ {current, redis, file} \subseteq dep.rules \cup {None}
      /\ got[t] \in dep.rules \cup {None}
      /\ base \in {None, BaseConfig} /\ (current # None => base = BaseConfig)
      /\ IsConfig(BaseConfig) /\ BaseConfig # None
  BY Zenon, ConfigAssumption DEF IInv, Types, Progress, CheckExpiry, BeginApply, ApplyBlocking, ApplyToggles,
     EmergencySent, ApplyRaises, StoreRedis, Finish, world
<1>1. CASE CheckExpiry(t)
  <2>1. /\ Goto(t, "fetch") /\ lock = None /\ UNCHANGED <<lock, got, snap, redis, file>>
    BY Zenon, <1>1 DEF CheckExpiry, stores
  <2>2. Moves(t, "fetch") /\ Holds(t, got[t], snap[t])
    BY Zenon, <1>0, <2>1, GotoMoves, KeepsHolding
  <2>3. Settled(config)
    BY Zenon, <2>1 DEF IInv, Progress
  <2>4. CASE config' = BaseConfig /\ current' = None /\ base' = None
    <3>1. Settled(config)'
      BY Zenon, <2>4 DEF Settled
    <3> QED BY Zenon, <1>0, <2>1, <2>2, <2>4, <3>1, ApplyStep
  <2>5. CASE UNCHANGED <<config, current, base>>
    <3>1. Settled(config)'
      BY Zenon, <2>3, <2>5 DEF Settled
    <3> QED BY Zenon, <1>0, <2>1, <2>2, <2>5, <3>1, ApplyStep
  <2> QED BY Zenon, <1>0, <1>1, <2>4, <2>5 DEF CheckExpiry
<1>2. CASE BeginApply(t)
  <2>1. /\ Goto(t, "bans") /\ pc[t] = "lock" /\ lock = None /\ lock' = t
        /\ snap' = [snap EXCEPT ![t] = config]
        /\ UNCHANGED <<config, current, base, got, redis, file>>
    BY Zenon, <1>2 DEF BeginApply, stores
  <2>2. Moves(t, "bans") /\ got[t] # None
    BY Zenon, <1>0, <2>1, GotoMoves DEF IInv, Exclusive
  <2>3. Holds(t, got[t], config)
    BY Zenon, <1>0, <2>1 DEF Types, Holds
  <2>4. snap'[t] = config /\ Settled(config)
    BY Zenon, <2>1, <2>3 DEF IInv, Progress, Holds
  <2>5. Settled(snap[t])'
    BY Zenon, <2>1, <2>4 DEF Settled
  <2> QED BY Zenon, <1>0, <2>1, <2>2, <2>3, <2>5, ApplyStep
<1>3. ASSUME pc[t] \in Applying, UNCHANGED <<current, lock, got, snap>>, NEW a \in Applying, Goto(t, a)
      PROVE  /\ lock = t /\ lock' = t /\ got[t] # None
             /\ Moves(t, a) /\ Holds(t, got[t], snap[t])
             /\ pc[t] \in {"bans", "patterns", "event"} => Settled(snap[t])' /\ IsConfig(snap[t])
  <2>1. Moves(t, a) /\ Holds(t, got[t], snap[t])
    BY Zenon, <1>0, <1>3, GotoMoves, KeepsHolding
  <2>2. lock = t /\ lock' = t /\ got[t] # None
    BY Zenon, <1>3, Inside
  <2>3. pc[t] \in {"bans", "patterns", "event"} => Settled(snap[t])' /\ IsConfig(snap[t])
    BY Zenon, <1>3 DEF IInv, Progress, Settled
  <2> QED BY Zenon, <2>1, <2>2, <2>3
<1>4. CASE ApplyBlocking(t)
  <2>1. /\ pc[t] = "bans" /\ Goto(t, "patterns")
        /\ config' = WithBlocking(config, got[t])
        /\ UNCHANGED <<current, base, lock, got, snap, redis, file>>
    BY Zenon, <1>4 DEF ApplyBlocking, stores
  <2>2. /\ lock = t /\ lock' = t /\ got[t] # None
        /\ Moves(t, "patterns") /\ Holds(t, got[t], snap[t])
        /\ Settled(snap[t])' /\ IsConfig(snap[t])
    BY Zenon, <1>3, <2>1
  <2>3. IsConfig(config') /\ (got[t].limit # None => config'.limit = got[t].limit)
    BY Zenon, <1>0, <2>1, Blocked
  <2> QED BY Zenon, <1>0, <2>1, <2>2, <2>3, ApplyStep
<1>5. CASE ApplyToggles(t)
  <2>1. /\ pc[t] = "patterns" /\ config' = WithToggles(config, got[t])
        /\ UNCHANGED <<current, lock, got, snap, redis, file>>
        /\ \/ Goto(t, "event") /\ base' = base
           \/ Goto(t, "store") /\ base' = Captured(t)
    BY Zenon, <1>5 DEF ApplyToggles, stores
  <2>2. got[t].emergency \in BOOLEAN /\ Captured(t) = BaseConfig
    BY Zenon, <2>1, Inside
  <2>3. IsConfig(config') /\ InForce(config', got[t])
    <3>1. got[t].limit # None => config.limit = got[t].limit
      BY Zenon, <2>1 DEF IInv, Progress
    <3>2. /\ IsConfig(WithToggles(config, got[t]))
          /\ InForce(WithToggles(config, got[t]), got[t])
      <4>1. IsConfig(config) /\ got[t].emergency \in BOOLEAN
        BY Zenon, <1>0, <2>2
      <4> HIDE DEF Awaits, Applying
      <4> QED BY <3>1, <4>1, Toggled
    <3>3. config' = WithToggles(config, got[t])
      BY Zenon, <2>1
    <3> QED BY <3>2, <3>3
  <2>4. CASE Goto(t, "event") /\ base' = base
    <3>1. /\ lock = t /\ lock' = t /\ got[t] # None
          /\ Moves(t, "event") /\ Holds(t, got[t], snap[t])
          /\ Settled(snap[t])' /\ IsConfig(snap[t])
      BY Zenon, <1>3, <2>1, <2>4
    <3> QED BY Zenon, <1>0, <2>1, <2>3, <2>4, <3>1, ApplyStep
  <2>5. CASE Goto(t, "store") /\ base' = Captured(t)
    <3>1. /\ lock = t /\ lock' = t /\ got[t] # None
          /\ Moves(t, "store") /\ Holds(t, got[t], snap[t])
      BY Zenon, <1>3, <2>1, <2>5
    <3> QED BY Zenon, <1>0, <2>1, <2>2, <2>3, <2>5, <3>1, ApplyStep
  <2> QED BY Zenon, <2>1, <2>4, <2>5
<1>6. CASE EmergencySent(t)
  <2>1. /\ pc[t] = "event" /\ Goto(t, "store") /\ base' = Captured(t)
        /\ UNCHANGED <<config, current, lock, got, snap, redis, file>>
    BY Zenon, <1>6 DEF EmergencySent, stores
  <2>2. /\ lock = t /\ lock' = t /\ got[t] # None
        /\ Moves(t, "store") /\ Holds(t, got[t], snap[t])
    BY Zenon, <1>3, <2>1
  <2>3. Captured(t) = BaseConfig /\ InForce(config', got[t])
    BY Zenon, <2>1, Inside DEF IInv, Progress
  <2> QED BY Zenon, <1>0, <2>1, <2>2, <2>3, ApplyStep
<1>7. CASE ApplyRaises(t)
  <2>1. /\ pc[t] \in {"bans", "patterns"} /\ config' = snap[t] /\ lock' = None /\ Done(t)
        /\ UNCHANGED <<current, base, redis, file>>
    BY Zenon, <1>7 DEF ApplyRaises, stores
  <2>2. lock = t /\ Moves(t, "idle") /\ Holds(t, None, None)
    BY Zenon, <1>0, <2>1, Inside, DoneMoves
  <2>3. Settled(snap[t]) /\ IsConfig(snap[t])
    BY Zenon, <2>1 DEF IInv, Progress
  <2>4. Settled(config)'
    BY Zenon, <2>1, <2>3 DEF Settled
  <2> QED BY Zenon, <1>0, <2>1, <2>2, <2>3, <2>4, ApplyStep
<1>8. CASE StoreRedis(t)
  <2>1. /\ pc[t] = "store" /\ Goto(t, "finish") /\ redis' \in {redis, got[t]}
        /\ UNCHANGED <<config, current, base, lock, got, snap, file>>
    BY Zenon, <1>8 DEF StoreRedis, manager
  <2>2. /\ lock = t /\ lock' = t /\ got[t] # None
        /\ Moves(t, "finish") /\ Holds(t, got[t], snap[t])
    BY Zenon, <1>3, <2>1
  <2>3. base' = BaseConfig /\ InForce(config', got[t])
    BY Zenon, <2>1 DEF IInv, Progress
  <2> QED BY Zenon, <1>0, <2>1, <2>2, <2>3, ApplyStep
<1>9. CASE Finish(t)
  <2>1. /\ pc[t] = "finish" /\ file' \in {file, got[t]} /\ lock' = None /\ current' = got[t] /\ Done(t)
        /\ UNCHANGED <<config, base, redis>>
    BY Zenon, <1>9 DEF Finish, WriteFile
  <2>2. lock = t /\ got[t] # None /\ Moves(t, "idle") /\ Holds(t, None, None)
    BY Zenon, <1>0, <2>1, Inside, DoneMoves
  <2>3. base' = BaseConfig /\ InForce(config, got[t])
    BY Zenon, <2>1 DEF IInv, Progress
  <2>4. Settled(config)'
    BY Zenon, <2>1, <2>2, <2>3 DEF Settled
  <2> QED BY Zenon, <1>0, <2>1, <2>2, <2>3, <2>4, ApplyStep
<1> QED BY Zenon, <1>1, <1>2, <1>4, <1>5, <1>6, <1>7, <1>8, <1>9

\* stop() at an await that leaves nothing half applied.
LEMMA StopStep ==
  ASSUME IInv, StopsBetweenApplies, Stop
  PROVE  IInv'
<1> USE DEF Awaits, Applying
<1>0. /\ Types /\ Loop \in Tasks /\ UNCHANGED <<config, current, base, dep, redis, file, served>>
      /\ IsConfig(config) /\ {current, redis, file} \subseteq dep.rules \cup {None}
      /\ base \in {None, BaseConfig} /\ (current # None => base = BaseConfig)
  BY Zenon DEF IInv, Types, Progress, Stop, stores, world, Tasks, Updaters
<1>1. pc[Loop] \notin HalfApplied /\ Goto(Loop, "off")
  BY Zenon, <1>0 DEF Stop, CancelPoints, StopsBetweenApplies, Types
<1>2. Moves(Loop, "off") /\ Holds(Loop, None, None)
  <2>1. Moves(Loop, "off")
    BY Zenon, <1>0, <1>1, GotoMoves
  <2>2. Holds(Loop, None, None)
    BY Zenon, <1>0 DEF Types, Holds, Stop
  <2> QED BY Zenon, <2>1, <2>2
<1>3. CASE lock = None \/ lock = Loop
  <2>1. lock' = None
    BY Zenon, <1>3 DEF Stop
  <2>2. Settled(config)
    <3>1. CASE lock = None
      BY Zenon, <3>1 DEF IInv, Progress
    <3>2. CASE lock = Loop
      <4>1. pc[Loop] = "bans"
        BY Zenon, <1>0, <1>1, <3>2 DEF IInv, Exclusive, HalfApplied
      <4> QED BY Zenon, <1>0, <4>1 DEF IInv, Progress
    <3> QED BY Zenon, <1>3, <3>1, <3>2
  <2>3. Settled(config)'
    BY Zenon, <1>0, <2>2 DEF Settled
  <2> QED BY Zenon, <1>0, <1>2, <1>3, <2>1, <2>3, ApplyStep
<1>4. CASE lock # None /\ lock # Loop
  <2>1. UNCHANGED lock /\ pc[Loop] \notin Applying
    BY Zenon, <1>0, <1>4 DEF Stop, IInv, Exclusive
  <2>2. UNCHANGED <<manager, stores, world>>
    BY Zenon, <2>1 DEF Stop, manager
  <2> QED BY Zenon, <1>0, <1>2, <2>1, <2>2, QuietStep
<1> QED BY Zenon, <1>3, <1>4

LEMMA RestartStep == ASSUME IInv, Restart PROVE IInv'
<1>1. \A t \in Tasks : pc'[t] \in {"off", "idle"}
  BY Zenon DEF Restart, Unstarted
<1>2. Types'
  <2>1. pc' \in [Tasks -> Awaits]
    BY Zenon DEF Restart, Unstarted, Awaits
  <2>2. snap' = [t \in Tasks |-> snap'[t]]
    BY Zenon DEF Restart
  <2>3. UNCHANGED <<dep, redis, file, served>>
    BY Zenon DEF Restart, stores, world
  <2> QED BY Zenon, <2>1, <2>2, <2>3, ConfigAssumption DEF Restart, IInv, Types
<1>3. Exclusive'
  BY Zenon, <1>1, TasksAssumption DEF Restart, Exclusive, Applying
<1>4. Progress'
  BY Zenon, <1>1 DEF Restart, Progress, Settled
<1> QED BY Zenon, <1>2, <1>3, <1>4 DEF IInv

LEMMA WorldStep ==
  ASSUME IInv, UNCHANGED <<manager, pc, got, snap, stores, dep>>,
         served' \in dep.rules \cup {None}
  PROVE  IInv'
<1>1. UNCHANGED <<config, current, base, lock, redis, file>>
  BY Zenon DEF manager, stores
<1>2. Types'
  BY Zenon, <1>1 DEF IInv, Types
<1>3. Exclusive'
  BY Zenon, <1>1 DEF IInv, Exclusive
<1>4. Progress'
  BY Zenon, <1>1 DEF IInv, Progress, Settled
<1> QED BY Zenon, <1>2, <1>3, <1>4 DEF IInv

LEMMA IInvStep == ASSUME StopsBetweenApplies, IInv, [Next]_vars PROVE IInv'
<1>1. ASSUME NEW t \in {Loop} \cup dep.callers \cup dep.inits, InitAgent(t) \/ BeginUpdate(t) \/ Step(t)
      PROVE  IInv'
  <2>1. t \in Tasks
    BY Zenon, DeploymentsAssumption DEF IInv, Types, Tasks, Updaters
  <2> QED BY Zenon, <1>1, <2>1, OutsideSteps, LockSteps DEF Step
<1>2. CASE Publish
  BY Zenon, <1>2, WorldStep DEF Publish
<1>3. CASE Tick \/ UNCHANGED vars
  <2>1. served \in dep.rules \cup {None}
    BY Zenon DEF IInv, Types
  <2> QED BY Zenon, <1>3, <2>1, WorldStep DEF Tick, vars, world
<1> QED BY Zenon, <1>1, <1>2, <1>3, StopStep, RestartStep DEF Next

LEMMA IInvAlways == StopsBetweenApplies /\ Spec => []IInv
<1> SUFFICES ASSUME StopsBetweenApplies PROVE Spec => []IInv
  BY Zenon
<1>1. IInv /\ [Next]_vars => IInv'
  BY Zenon, IInvStep
<1> QED BY <1>1, IInvInit, PTL DEF Spec

\* Outside an apply the configuration is the rule's that current_rules reports, or
\* the one the process started with, whatever applies fail, overlap, are
\* superseded or expire, as long as stop() does not catch the loop inside one.
THEOREM ConfigurationFollowsRule == StopsBetweenApplies /\ Spec => []ConfigFollowsRule
<1>1. IInv => ConfigFollowsRule
  BY Zenon DEF IInv, Progress, Settled, InForce, ConfigFollowsRule, NoRuleMeansBase, CurrentIsInForce
<1> QED BY <1>1, IInvAlways, PTL

\* The step that takes a rule back leaves the original configuration, under the
\* same condition on stop().
THEOREM ExpiryTakesBack == StopsBetweenApplies /\ Spec => ExpiryRestoresBase
<1>1. ASSUME IInv, IInv', [Next]_vars, current # None, current' = None PROVE config' = BaseConfig
  <2>1. lock' = None
    <3>1. ASSUME NEW t, CheckExpiry(t) PROVE lock' = None
      BY Zenon, <3>1 DEF CheckExpiry
    <3>2. ASSUME NEW t, Finish(t) PROVE lock' = None
      BY Zenon, <3>2 DEF Finish
    <3>3. ASSUME NEW t, \/ BeginApply(t) \/ ApplyBlocking(t) \/ ApplyToggles(t)
                        \/ EmergencySent(t) \/ ApplyRaises(t) \/ StoreRedis(t)
                        \/ InitAgent(t) \/ Hydrate(t) \/ BeginUpdate(t) \/ Fetch(t) \/ Receive(t)
          PROVE  FALSE
      BY Zenon, <1>1, <3>3 DEF BeginApply, ApplyBlocking, ApplyToggles, EmergencySent, ApplyRaises, StoreRedis,
         InitAgent, Hydrate, BeginUpdate, Fetch, Receive, manager
    <3> QED BY Zenon, <1>1, <3>1, <3>2, <3>3
            DEF Next, Step, Stop, Restart, Publish, Tick, vars, manager
  <2> QED BY Zenon, <1>1, <2>1 DEF IInv, Progress, Settled
<1>2. IInv /\ IInv' /\ [Next]_vars => [current # None /\ current' = None => config' = BaseConfig]_vars
  BY Zenon, <1>1
<1> QED BY <1>2, IInvAlways, PTL DEF Spec, ExpiryRestoresBase

-----------------------------------------------------------------------------
(***************************************************************************)
(* Versions.  Where no caller forces updates and one task initialises the  *)
(* agent, hydration is over before the loop begins.                        *)
(***************************************************************************)
OneInitialiser == \A d \in Deployments : d.callers = {} => \A s, t \in d.inits : s = t

InTurn ==
    /\ \A t \in Inits : pc[t] # "idle" =>
        t \in dep.inits /\ hydrated /\ current = None /\ pc[Loop] = "off"
    /\ ~hydrated => current = None /\ pc[Loop] = "off"
    /\ pc[Loop] # "load"
    /\ pc[Loop] \in {"lock"} \cup Applying => ShouldUpdate(got[Loop])

VInv == dep.callers = {} => InTurn

\* Where the loop goes in a step of its own.
LEMMA LoopStep ==
  ASSUME IInv, dep.callers = {}, InTurn, BeginUpdate(Loop) \/ Step(Loop)
  PROVE  InTurn' /\ (current' # None /\ current' # current => ShouldUpdate(current'))
<1> USE DEF Applying
<1>0. Types /\ Loop \in Tasks /\ Loop \notin Inits /\ \A t \in Inits : t \in Tasks /\ t # Loop
  BY Zenon, TasksAssumption DEF IInv, Tasks, Updaters
<1>1. pc[Loop] # "off" /\ hydrated' = hydrated
  BY Zenon DEF BeginUpdate, Step, Hydrate, CheckExpiry, Fetch, Receive, BeginApply, ApplyBlocking, ApplyToggles,
     EmergencySent, ApplyRaises, StoreRedis, Finish
<1>2. hydrated /\ \A t \in Inits : pc[t] = "idle"
  BY Zenon, <1>1 DEF InTurn
<1>3. ASSUME NEW a, a \notin {"off", "load"}, pc' = [pc EXCEPT ![Loop] = a],
             a \in {"lock"} \cup Applying => ShouldUpdate(got[Loop])'
      PROVE  InTurn'
  <2>1. pc'[Loop] = a /\ \A t \in Inits : pc'[t] = "idle"
    BY Zenon, <1>0, <1>2, <1>3 DEF Types
  <2> QED BY Zenon, <1>1, <1>2, <1>3, <2>1 DEF InTurn
<1>4. ASSUME Done(Loop) PROVE InTurn'
  BY Zenon, <1>0, <1>3, <1>4 DEF Done
<1>5. ASSUME UNCHANGED <<current, got>>, pc[Loop] \in {"lock"} \cup Applying
      PROVE  ShouldUpdate(got[Loop])'
  BY Zenon, <1>5 DEF InTurn, ShouldUpdate
<1>6. CASE BeginUpdate(Loop)
  BY Zenon, <1>3, <1>6 DEF BeginUpdate, Goto, manager
<1>7. CASE CheckExpiry(Loop)
  BY Zenon, <1>3, <1>7 DEF CheckExpiry, Goto
<1>8. CASE Fetch(Loop)
  BY Zenon, <1>3, <1>4, <1>8 DEF Fetch, Goto, manager
<1>9. CASE Receive(Loop)
  <2>1. CASE Done(Loop)
    BY Zenon, <1>4, <1>9, <2>1 DEF Receive, manager
  <2>2. CASE Goto(Loop, "lock") /\ ShouldUpdate(got[Loop]) /\ UNCHANGED got
    <3>1. ShouldUpdate(got[Loop])' /\ UNCHANGED current
      BY Zenon, <1>9, <2>2 DEF Receive, manager, ShouldUpdate
    <3> QED BY Zenon, <1>3, <2>2, <3>1 DEF Goto
  <2> QED BY Zenon, <1>9, <2>1, <2>2 DEF Receive
<1>10. CASE BeginApply(Loop) \/ ApplyBlocking(Loop) \/ EmergencySent(Loop) \/ StoreRedis(Loop)
  <2>1. UNCHANGED <<current, got>> /\ pc[Loop] \in {"lock"} \cup Applying
    BY Zenon, <1>10 DEF BeginApply, ApplyBlocking, EmergencySent, StoreRedis, manager
  <2>2. \E a \in Applying : pc' = [pc EXCEPT ![Loop] = a]
    BY Zenon, <1>10 DEF BeginApply, ApplyBlocking, EmergencySent, StoreRedis, Goto
  <2> QED BY Zenon, <1>3, <1>5, <2>1, <2>2
<1>11. CASE ApplyToggles(Loop)
  <2>1. UNCHANGED <<current, got>> /\ pc[Loop] \in {"lock"} \cup Applying
    BY Zenon, <1>11 DEF ApplyToggles
  <2>2. \E a \in Applying : pc' = [pc EXCEPT ![Loop] = a]
    BY Zenon, <1>11 DEF ApplyToggles, Goto
  <2> QED BY Zenon, <1>3, <1>5, <2>1, <2>2
<1>12. CASE ApplyRaises(Loop)
  BY Zenon, <1>4, <1>12 DEF ApplyRaises
<1>13. CASE Finish(Loop)
  BY Zenon, <1>4, <1>13 DEF Finish, InTurn
<1>14. ~Hydrate(Loop)
  BY Zenon DEF Hydrate, InTurn
<1> QED BY Zenon, <1>6, <1>7, <1>8, <1>9, <1>10, <1>11, <1>12, <1>13, <1>14 DEF Step

\* The one initialiser.
LEMMA InitialiserStep ==
  ASSUME IInv, dep.callers = {}, InTurn, NEW t \in dep.inits, \A s \in dep.inits : s = t,
         InitAgent(t) \/ BeginUpdate(t) \/ Step(t), UNCHANGED dep
  PROVE  InTurn' /\ (current' # current => current = None)
<1> USE DEF Applying
<1>0. /\ Types /\ Loop \in Tasks /\ Loop # t /\ t \in Inits /\ t \in Tasks
      /\ \A u \in Inits : u \in Tasks /\ u # Loop
  BY Zenon, TasksAssumption, DeploymentsAssumption DEF IInv, Types, Tasks, Updaters
<1>1. \A u \in Inits : u # t => pc[u] = "idle"
  BY Zenon DEF InTurn
<1>2. CASE InitAgent(t)
  <2>1. CASE hydrated /\ pc' = StartsLoop(pc)
    <3>1. /\ \A u \in Inits : pc'[u] = "idle"
          /\ pc'[Loop] = pc[Loop] \/ pc'[Loop] = "idle"
      BY Zenon, <1>0, <1>1, <1>2, <2>1 DEF InitAgent, StartsLoop, Types
    <3> QED BY Zenon, <1>2, <2>1, <3>1 DEF InitAgent, InTurn, manager, ShouldUpdate
  <2>2. CASE ~hydrated /\ pc' = [pc EXCEPT ![t] = "load"]
    <3>1. pc'[Loop] = pc[Loop] /\ \A u \in Inits : u # t => pc'[u] = "idle"
      BY Zenon, <1>0, <1>1, <2>2 DEF Types
    <3> QED BY Zenon, <1>2, <2>2, <3>1 DEF InitAgent, InTurn, manager
  <2> QED BY Zenon, <1>2, <2>1, <2>2 DEF InitAgent
<1>3. ~BeginUpdate(t)
  BY Zenon, <1>0, TasksAssumption DEF BeginUpdate, Updaters
<1>4. CASE Step(t)
  <2>1. pc[t] # "idle" /\ hydrated' = hydrated
    BY Zenon, <1>4 DEF Step, Hydrate, CheckExpiry, Fetch, Receive, BeginApply, ApplyBlocking, ApplyToggles,
       EmergencySent, ApplyRaises, StoreRedis, Finish
  <2>2. hydrated /\ current = None /\ pc[Loop] = "off"
    BY Zenon, <1>0, <2>1 DEF InTurn
  <2>3. ASSUME Done(t) PROVE InTurn'
    <3>1. Moves(t, "idle")
      BY Zenon, <1>0, <2>3, DoneMoves
    <3>2. \A u \in Inits : pc'[u] = "idle"
      BY Zenon, <1>0, <1>1, <3>1 DEF Moves
    <3>3. pc'[Loop] \in {"off", "idle"}
      BY Zenon, <1>0, <2>2, <3>1 DEF Moves
    <3> QED BY Zenon, <2>1, <2>2, <3>2, <3>3 DEF InTurn
  <2>4. ASSUME NEW a, Goto(t, a), current' = None PROVE InTurn'
    <3>1. pc'[Loop] = "off" /\ \A u \in Inits : u # t => pc'[u] = "idle"
      BY Zenon, <1>0, <1>1, <2>2, <2>4 DEF Goto, Types
    <3> QED BY Zenon, <2>1, <2>2, <2>4, <3>1 DEF InTurn
  <2>5. CASE Hydrate(t) \/ Fetch(t) \/ Receive(t)
    BY Zenon, <2>2, <2>3, <2>4, <2>5 DEF Hydrate, Fetch, Receive, manager
  <2>6. CASE \/ CheckExpiry(t) \/ BeginApply(t) \/ ApplyBlocking(t) \/ ApplyToggles(t) \/ EmergencySent(t)
             \/ StoreRedis(t)
    BY Zenon, <2>2, <2>4, <2>6 DEF CheckExpiry, BeginApply, ApplyBlocking, ApplyToggles, EmergencySent, StoreRedis,
       manager
  <2>7. CASE ApplyRaises(t) \/ Finish(t)
    BY Zenon, <2>2, <2>3, <2>7 DEF ApplyRaises, Finish
  <2> QED BY Zenon, <1>4, <2>2, <2>5, <2>6, <2>7 DEF Step
<1> QED BY Zenon, <1>2, <1>3, <1>4

\* Every step keeps the order, and brings in no older version.
LEMMA VInvStep ==
  ASSUME OneInitialiser, IInv, VInv, [Next]_vars
  PROVE  /\ VInv'
         /\ dep.callers = {} /\ current # None /\ current' # None /\ current' # current
              => ShouldUpdate(current')
<1>d. UNCHANGED dep
  <2>1. ASSUME NEW t, InitAgent(t) \/ BeginUpdate(t) \/ Step(t) PROVE UNCHANGED dep
    BY Zenon, <2>1 DEF InitAgent, BeginUpdate, Step, Hydrate, CheckExpiry, Fetch, Receive, BeginApply,
       ApplyBlocking, ApplyToggles, EmergencySent, ApplyRaises, StoreRedis, Finish, world
  <2> QED BY Zenon, <2>1 DEF Next, Stop, Restart, Publish, Tick, world, vars
<1> SUFFICES ASSUME dep.callers = {}
             PROVE  InTurn' /\ (current # None /\ current' # None /\ current' # current => ShouldUpdate(current'))
  BY Zenon, <1>d DEF VInv
<1>0. InTurn /\ Loop \in Tasks /\ \A t \in Inits : t \in Tasks /\ t # Loop
  BY Zenon, TasksAssumption DEF VInv, Tasks, Updaters
<1>1. ASSUME NEW t \in {Loop} \cup dep.callers \cup dep.inits, InitAgent(t) \/ BeginUpdate(t) \/ Step(t)
      PROVE  InTurn' /\ (current # None /\ current' # None /\ current' # current => ShouldUpdate(current'))
  <2>1. CASE t = Loop
    <3>1. ~InitAgent(Loop)
      BY Zenon, <1>0 DEF InitAgent
    <3> QED BY Zenon, <1>0, <1>1, <2>1, <3>1, LoopStep
  <2>2. CASE t \in dep.inits
    <3>1. \A s \in dep.inits : s = t
      BY Zenon, <2>2 DEF OneInitialiser, IInv, Types
    <3> QED BY Zenon, <1>d, <1>0, <1>1, <2>2, <3>1, InitialiserStep
  <2> QED BY Zenon, <2>1, <2>2
<1>2. CASE Stop
  <2>1. pc'[Loop] = "off" /\ \A t \in Inits : pc'[t] = pc[t]
    BY Zenon, <1>0, <1>2 DEF Stop, Goto, IInv, Types
  <2> QED BY Zenon, <1>0, <1>d, <1>2, <2>1 DEF Stop, InTurn, Applying
<1>3. CASE Restart
  <2>1. pc'[Loop] = "off" /\ \A t \in Inits : pc'[t] = "idle"
    BY Zenon, <1>0, <1>3 DEF Restart, Unstarted
  <2> QED BY Zenon, <1>3, <2>1 DEF Restart, InTurn, Applying
<1>4. CASE Publish \/ Tick \/ UNCHANGED vars
  <2>1. UNCHANGED <<pc, got, hydrated, current>>
    BY Zenon, <1>4 DEF Publish, Tick, vars, manager
  <2> QED BY Zenon, <1>0, <1>d, <2>1 DEF InTurn, ShouldUpdate
<1> QED BY Zenon, <1>1, <1>2, <1>3, <1>4 DEF Next

\* A rule is never replaced by an older version of itself, where no caller forces
\* updates and one task initialises the agent: the loop compares versions, and
\* hydration is over before it starts.
THEOREM VersionsDoNotRegress ==
  StopsBetweenApplies /\ OneInitialiser /\ Spec => VersionNeverRegresses
<1> SUFFICES ASSUME StopsBetweenApplies, OneInitialiser PROVE Spec => VersionNeverRegresses
  BY Zenon
<1>1. Init => VInv
  <2> SUFFICES ASSUME Init PROVE VInv
    BY Zenon
  <2>1. pc[Loop] = "off" /\ \A t \in Inits : pc[t] = "idle"
    BY Zenon, TasksAssumption DEF Init, Unstarted, Tasks, Updaters
  <2> QED BY Zenon, <2>1 DEF Init, VInv, InTurn, Applying
<1>2. IInv /\ VInv /\ [Next]_vars => VInv'
  BY Zenon, VInvStep
<1>3. ASSUME IInv, IInv', VInv, [Next]_vars, dep.callers = {}, current # None, current' # None,
             current'.id = current.id
      PROVE  current'.version >= current.version
  <2>1. current \in Rules /\ current' \in Rules
    BY Zenon, <1>3, DeploymentsAssumption DEF IInv, Types
  <2>2. current.version \in Nat /\ current'.version \in Nat
    BY Zenon, <2>1, RulesAssumption
  <2>3. CASE current' = current
    BY <2>2, <2>3
  <2>4. CASE current' # current
    <3>1. ShouldUpdate(current')
      BY Zenon, <1>3, <2>4, VInvStep
    <3>2. ~(current'.version <= current.version)
      BY Zenon, <1>3, <3>1 DEF ShouldUpdate
    <3> QED BY <2>2, <3>2
  <2> QED BY Zenon, <2>3, <2>4
<1>4. IInv /\ IInv' /\ VInv /\ [Next]_vars =>
        [dep.callers = {} /\ current # None /\ current' # None /\ current'.id = current.id
           => current'.version >= current.version]_vars
  BY Zenon, <1>3
<1>5. Spec => []IInv
  BY Zenon, IInvAlways
<1> QED BY <1>1, <1>2, <1>4, <1>5, PTL DEF Spec, VersionNeverRegresses

-----------------------------------------------------------------------------
(***************************************************************************)
(* Hydration.  With the file as a second store, Redis takes every rule and *)
(* the rules do not expire: else a rule Redis has lost, or one that has    *)
(* run out, uncovers an older one in the file.                             *)
(***************************************************************************)
StoresAgree ==
    \A d \in Deployments :
        d.file => "redis" \notin d.faults /\ \A r \in d.rules : r.expires = Never

\* Redis has the rule that was stored last; the file has none that Redis lacks.
SInv ==
    /\ redis = lastStored
    /\ UseFile => (file # None => redis # None)
    /\ \A t \in Tasks : UseFile /\ pc[t] = "finish" => redis = got[t]

\* A step that stores nothing takes nobody to the write of the file.
LEMMA StoresNothing ==
  ASSUME SInv, UNCHANGED <<redis, file, lastStored, dep>>,
         \A t \in Tasks : pc'[t] = "finish" => pc[t] = "finish" /\ got'[t] = got[t]
  PROVE  SInv'
BY Zenon DEF SInv, UseFile

LEMMA SInvStep == ASSUME StoresAgree, IInv, SInv, [Next]_vars PROVE SInv'
<1>1. ASSUME NEW t \in Tasks, NEW a \in Awaits, a # "finish", Goto(t, a), UNCHANGED <<stores, world>>,
             \A u \in Tasks : u # t => got'[u] = got[u]
      PROVE  SInv'
  <2>1. Moves(t, a)
    BY Zenon, <1>1, GotoMoves DEF IInv
  <2>2. \A u \in Tasks : pc'[u] = "finish" => pc[u] = "finish" /\ got'[u] = got[u]
    BY Zenon, <1>1, <2>1 DEF Moves
  <2> QED BY Zenon, <1>1, <2>2, StoresNothing DEF stores, world
<1>2. ASSUME NEW t \in Tasks, Done(t), UNCHANGED <<stores, world>> PROVE SInv'
  <2>1. Moves(t, "idle") /\ Holds(t, None, None)
    BY Zenon, <1>2, DoneMoves DEF IInv
  <2>2. \A u \in Tasks : pc'[u] = "finish" => pc[u] = "finish" /\ got'[u] = got[u]
    BY Zenon, <2>1 DEF Moves, Holds
  <2> QED BY Zenon, <1>2, <2>2, StoresNothing DEF stores, world
<1>3. ASSUME NEW t \in Tasks, InitAgent(t) PROVE SInv'
  <2>1. UNCHANGED <<got, redis, file, lastStored, dep>>
    BY Zenon, <1>3 DEF InitAgent, stores, world
  <2>2. \A u \in Tasks : pc'[u] = "finish" => pc[u] = "finish"
    BY Zenon, <1>3 DEF InitAgent, StartsLoop, IInv, Types
  <2> QED BY Zenon, <2>1, <2>2, StoresNothing
<1>4. ASSUME NEW t \in Tasks, Hydrate(t) \/ Fetch(t) PROVE SInv'
  <2>1. \/ Done(t)
        \/ \E a \in {"lock", "received"} : Goto(t, a) /\ \E r : got' = [got EXCEPT ![t] = r]
    BY Zenon, <1>4 DEF Hydrate, Fetch
  <2>2. UNCHANGED <<stores, world>>
    BY Zenon, <1>4 DEF Hydrate, Fetch
  <2>3. ASSUME NEW r, got' = [got EXCEPT ![t] = r] PROVE \A u \in Tasks : u # t => got'[u] = got[u]
    BY Zenon, <2>3 DEF IInv, Types
  <2> QED BY Zenon, <1>1, <1>2, <2>1, <2>2, <2>3 DEF Awaits
<1>5. ASSUME NEW t \in Tasks, BeginUpdate(t) \/ CheckExpiry(t) \/ BeginApply(t) \/ ApplyBlocking(t) \/ EmergencySent(t)
      PROVE  SInv'
  <2>1. \E a \in {"expiry", "fetch", "bans", "patterns", "store"} : Goto(t, a)
    BY Zenon, <1>5 DEF BeginUpdate, CheckExpiry, BeginApply, ApplyBlocking, EmergencySent
  <2>2. UNCHANGED <<got, stores, world>>
    BY Zenon, <1>5 DEF BeginUpdate, CheckExpiry, BeginApply, ApplyBlocking, EmergencySent
  <2> QED BY Zenon, <1>1, <2>1, <2>2 DEF Awaits
<1>6. ASSUME NEW t \in Tasks, Receive(t) \/ ApplyToggles(t) \/ ApplyRaises(t) PROVE SInv'
  <2>1. \/ Done(t)
        \/ \E a \in {"lock", "event", "store"} : Goto(t, a) /\ UNCHANGED got
    BY Zenon, <1>6 DEF Receive, ApplyToggles, ApplyRaises
  <2>2. UNCHANGED <<stores, world>>
    BY Zenon, <1>6 DEF Receive, ApplyToggles, ApplyRaises
  <2> QED BY Zenon, <1>1, <1>2, <2>1, <2>2 DEF Awaits
<1>7. ASSUME NEW t \in Tasks, StoreRedis(t) PROVE SInv'
  <2>1. /\ pc[t] = "store" /\ Moves(t, "finish") /\ UNCHANGED <<got, file, dep>>
        /\ \/ redis' = got[t] /\ lastStored' = got[t]
           \/ "redis" \in dep.faults /\ UNCHANGED <<redis, lastStored>>
    BY Zenon, <1>7, GotoMoves DEF StoreRedis, IInv, Awaits, world, Faults
  <2>2. lock = t /\ got[t] # None
    BY Zenon, <2>1, Inside DEF Applying
  <2>3. \A u \in Tasks : u # t => pc'[u] # "finish"
    BY Zenon, <2>1, <2>2 DEF Moves, IInv, Exclusive, Applying
  <2>4. UseFile => "redis" \notin dep.faults
    BY Zenon DEF StoresAgree, UseFile, IInv, Types
  <2> QED BY Zenon, <2>1, <2>2, <2>3, <2>4 DEF SInv, UseFile
<1>8. ASSUME NEW t \in Tasks, Finish(t) PROVE SInv'
  <2>1. /\ pc[t] = "finish" /\ Moves(t, "idle") /\ UNCHANGED <<redis, dep>>
        /\ \/ UseFile /\ file' = got[t] /\ lastStored' = got[t]
           \/ UNCHANGED <<file, lastStored>>
    BY Zenon, <1>8, DoneMoves DEF Finish, WriteFile, IInv, world
  <2>2. lock = t /\ got[t] # None
    BY Zenon, <2>1, Inside DEF Applying
  <2>3. \A u \in Tasks : pc'[u] # "finish"
    BY Zenon, <2>1, <2>2 DEF Moves, IInv, Exclusive, Applying
  <2> QED BY Zenon, <2>1, <2>2, <2>3 DEF SInv, UseFile
<1>9. CASE Stop
  <2>1. Loop \in Tasks
    BY Zenon DEF Tasks, Updaters
  <2>2. \A u \in Tasks : u # Loop => got'[u] = got[u]
    BY Zenon, <1>9 DEF Stop, IInv, Types
  <2> QED BY Zenon, <1>1, <1>9, <2>1, <2>2 DEF Stop, Awaits
<1>10. CASE Restart
  <2>1. \A u \in Tasks : pc'[u] # "finish"
    BY Zenon, <1>10 DEF Restart, Unstarted
  <2> QED BY Zenon, <1>10, <2>1, StoresNothing DEF Restart, stores, world
<1>11. CASE Publish \/ Tick \/ UNCHANGED vars
  BY Zenon, <1>11, StoresNothing DEF Publish, Tick, vars, stores, world
<1>12. ASSUME NEW t \in {Loop} \cup dep.callers \cup dep.inits, InitAgent(t) \/ BeginUpdate(t) \/ Step(t)
       PROVE  SInv'
  <2>1. t \in Tasks
    BY Zenon, DeploymentsAssumption DEF IInv, Types, Tasks, Updaters
  <2> QED BY Zenon, <1>3, <1>4, <1>5, <1>6, <1>7, <1>8, <1>12, <2>1 DEF Step
<1> QED BY Zenon, <1>9, <1>10, <1>11, <1>12 DEF Next

\* A restart brings back the rule that was stored last, never an older one, from
\* Redis alone or from two stores that agree.
THEOREM HydrationIsCurrent ==
  StopsBetweenApplies /\ StoresAgree /\ Spec => HydratesLastStored
<1> SUFFICES ASSUME StopsBetweenApplies, StoresAgree PROVE Spec => HydratesLastStored
  BY Zenon
<1>1. Init => SInv
  <2> SUFFICES ASSUME Init PROVE SInv
    BY Zenon
  <2>1. \A t \in Tasks : pc[t] # "finish"
    BY Zenon DEF Init, Unstarted
  <2> QED BY Zenon, <2>1 DEF Init, SInv
<1>2. IInv /\ SInv /\ [Next]_vars => SInv'
  BY Zenon, SInvStep
<1>3. ASSUME IInv, SInv, [Next]_vars, NEW t \in Inits, pc[t] = "load", pc'[t] = "lock"
      PROVE  got'[t] = lastStored
  <2>0. t \in Tasks /\ Types
    BY Zenon, <1>3 DEF IInv, Tasks
  <2>1. Hydrate(t)
    <3>1. ASSUME NEW u \in Tasks, InitAgent(u) \/ BeginUpdate(u) \/ Step(u) PROVE u = t /\ Hydrate(t)
      <4>1. u = t
        <5>1. ASSUME NEW a, Goto(u, a) PROVE u = t
          BY Zenon, <1>3, <2>0, <5>1 DEF Goto, Types
        <5>2. ASSUME Done(u) PROVE u = t
          <6>1. Moves(u, "idle")
            BY Zenon, <2>0, <5>2, DoneMoves
          <6> QED BY Zenon, <1>3, <2>0, <6>1 DEF Moves
        <5>3. ASSUME InitAgent(u) PROVE u = t
          BY Zenon, <1>3, <2>0, <5>3 DEF InitAgent, StartsLoop, Types
        <5> QED BY Zenon, <3>1, <5>1, <5>2, <5>3 DEF BeginUpdate, Step, Hydrate, CheckExpiry, Fetch, Receive,
                BeginApply, ApplyBlocking, ApplyToggles, EmergencySent, ApplyRaises, StoreRedis, Finish
      <4> QED BY Zenon, <1>3, <3>1, <4>1 DEF InitAgent, BeginUpdate, Step, CheckExpiry, Fetch, Receive,
              BeginApply, ApplyBlocking, ApplyToggles, EmergencySent, ApplyRaises, StoreRedis, Finish
    <3>2. ASSUME NEW u \in {Loop} \cup dep.callers \cup dep.inits PROVE u \in Tasks
      BY Zenon, <3>2, <2>0, DeploymentsAssumption DEF Types, Tasks, Updaters
    <3>3. ~Restart
      BY Zenon, <1>3, <2>0 DEF Restart, Unstarted
    <3>4. ~Stop
      BY Zenon, <1>3, <2>0 DEF Stop, Goto, Types
    <3> QED BY Zenon, <1>3, <3>1, <3>2, <3>3, <3>4 DEF Next, Publish, Tick, vars
  <2>2. PICK reply \in {redis} \cup (IF "redis" \in Faults THEN {None} ELSE {}) :
          IF LastKnown(reply) = None THEN Done(t) ELSE got' = [got EXCEPT ![t] = LastKnown(reply)]
    BY Zenon, <2>1 DEF Hydrate
  <2>3. LastKnown(reply) # None /\ got'[t] = LastKnown(reply)
    <3>1. ~Done(t)
      <4>1. Done(t) => Moves(t, "idle")
        BY Zenon, <2>0, DoneMoves
      <4> QED BY Zenon, <1>3, <4>1 DEF Moves
    <3> QED BY Zenon, <2>0, <2>2, <3>1 DEF Types
  <2>4. CASE Usable(reply)
    BY Zenon, <1>3, <2>2, <2>3, <2>4 DEF LastKnown, Usable, SInv
  <2>5. CASE ~Usable(reply)
    <3>1. UseFile /\ Usable(file)
      BY Zenon, <2>3, <2>5 DEF LastKnown
    <3>2. reply = redis /\ redis # None /\ redis \in dep.rules /\ redis.expires = Never
      BY Zenon, <1>3, <2>0, <2>2, <3>1 DEF StoresAgree, UseFile, Faults, Usable, SInv, Types
    <3> QED BY Zenon, <2>5, <3>2 DEF Usable, Expired
  <2> QED BY Zenon, <2>4, <2>5
<1>4. IInv /\ SInv /\ [Next]_vars =>
        [\A t \in Inits : pc[t] = "load" /\ pc'[t] = "lock" => got'[t] = lastStored]_vars
  BY Zenon, <1>3
<1>5. Spec => []IInv
  BY Zenon, IInvAlways
<1> QED BY <1>1, <1>2, <1>4, <1>5, PTL DEF Spec, HydratesLastStored

\* No update and no restart goes back to an earlier rule, where one task
\* initialises the agent, the stores agree and stop() catches no apply.
THEOREM RulesGoForward ==
  StopsBetweenApplies /\ OneInitialiser /\ StoresAgree /\ Spec => NeverAnEarlierRule
BY Zenon, VersionsDoNotRegress, HydrationIsCurrent DEF NeverAnEarlierRule

-----------------------------------------------------------------------------
(***************************************************************************)
(* For any number of callers, clients and calls: the client of             *)
(* RedisManager is never one that has been given up; and in the async tree *)
(* no client is lost, and the clients follow the abstract life cycle of    *)
(* ClientLifecycle.                                                        *)
(***************************************************************************)
\* Where a call holds the lock, a new client, a client it is closing.
RmLocked == {"swap", "discarding", "create", "ping", "established", "failed", "dropping"}
RmTrying == {"ping", "failed"}
RmGiving == {"discarding", "dropping", "closing"}

\* Where a thread is about to clear the client it has read.
RmSwapping == {"swap", "unset"}

\* What the lock holder and the holders of clients know, as tasks or threads.
RmShared ==
  /\ \A p \in RmProcs : rmPc[p] \in RmLocked => rmLock = p
  /\ rmClient # RmNone => rmLife[rmClient] = "serving"
  /\ \A p \in RmProcs : rmPc[p] \in RmTrying =>
       rmHeld[p] \in RmClients /\ rmLife[rmHeld[p]] = "trial"
  /\ \A p \in RmProcs : rmPc[p] \in RmGiving =>
       rmHeld[p] \in RmClients /\ rmLife[rmHeld[p]] \in {"leaving", "retired"}
  /\ \A p \in RmProcs : rmPc[p] \in RmSwapping =>
       rmHeld[p] \in RmClients /\ rmLife[rmHeld[p]] \in {"serving", "leaving", "retired"}

\* What tasks know besides. The manager has no client while one is being
\* replaced, so a client is never overwritten; no two calls close the same one.
RmOwned ==
  /\ \A p \in RmProcs : rmPc[p] \notin RmSwapping
  /\ \A p \in RmProcs : rmPc[p] \in RmLocked \ {"established"} => rmClient = RmNone
  /\ \A p \in RmProcs : rmPc[p] \in RmGiving => rmLife[rmHeld[p]] = "leaving"
  /\ \A p, q \in RmProcs : rmPc[p] \in RmGiving /\ rmPc[q] \in RmGiving
       /\ rmHeld[p] = rmHeld[q] => p = q

\* The types the argument needs.
RmTypes ==
  /\ rmMode \in {"tasks", "threads"}
  /\ rmClient \in RmClients \cup {RmNone}
  /\ rmLife \in [RmClients -> {"unborn", "trial", "serving", "leaving", "retired"}]
  /\ rmPc \in [RmProcs -> RmAwaits \cup RmSteps]
  /\ rmHeld \in [RmProcs -> RmClients \cup {RmNone}]

RmInv == RmTypes /\ RmShared /\ (rmMode = "tasks" => RmOwned /\ AllKept)

LEMMA RmInvInit == RmInit => RmInv
BY RmNoneAssumption, RmAssumption
   DEF RmInit, RmInv, RmTypes, RmShared, RmOwned, AllKept, RmLocked, RmTrying, RmGiving, RmSwapping,
       RmAwaits, RmSteps

\* A step that touches neither the clients nor their holders.
LEMMA PassiveStep ==
  ASSUME NEW p \in RmProcs,
         NEW l \in (RmAwaits \cup RmSteps) \ (RmLocked \cup RmGiving \cup RmSwapping),
         NEW client \in RmClients \cup {RmNone},
         RmInv, rmPc[p] \notin RmLocked \cup RmGiving \cup RmSwapping, RmGoto(p, l, client),
         UNCHANGED <<rmMode, rmClient, rmLock, rmLife>>
  PROVE  RmInv'
<1>1. RmTypes'
  BY Zenon DEF RmInv, RmTypes, RmGoto
<1>2. \A q \in RmProcs : q # p => rmPc'[q] = rmPc[q] /\ rmHeld'[q] = rmHeld[q]
  BY Zenon DEF RmInv, RmTypes, RmGoto
<1>3. rmPc'[p] = l /\ l \notin RmLocked \cup RmTrying \cup RmGiving \cup RmSwapping
      /\ rmPc[p] \notin RmLocked \cup RmTrying \cup RmGiving \cup RmSwapping
  BY Zenon DEF RmInv, RmTypes, RmGoto, RmLocked, RmTrying
<1>4. RmShared'
  BY Zenon, <1>2, <1>3 DEF RmInv, RmShared
<1>5. rmMode = "tasks" => RmOwned'
  BY Zenon, <1>2, <1>3 DEF RmInv, RmOwned
<1>6. rmMode = "tasks" => AllKept'
  BY <1>2, <1>3 DEF RmInv, AllKept, RmTrying, RmGiving
<1> QED
  BY Zenon, <1>1, <1>4, <1>5, <1>6 DEF RmInv

\* initialize and close, where clients change hands.
LEMMA OwnerStep ==
  ASSUME NEW p \in RmProcs, RmInv,
         \/ Acquire(p) \/ SwapClient(p) \/ Discarded(p) \/ Create(p) \/ Ping(p)
         \/ Established(p) \/ Failed(p) \/ Dropped(p) \/ CloseDiscard(p)
         \/ CloseAwait(p)
  PROVE  RmInv'
<1> USE RmNoneAssumption DEF RmLocked, RmTrying, RmGiving, RmSwapping, RmAwaits, RmSteps
<1>m. rmMode' = rmMode
  BY Zenon DEF Acquire, SwapClient, Discarded, Create, Ping, Established, Failed, Dropped,
         CloseDiscard, CloseAwait, rmFixed
<1>1. CASE Acquire(p)
  <2>1. RmTypes'
    BY <1>m, <1>1 DEF RmInv, RmTypes, RmShared, Acquire, DiscardClient, RmGoto, At
  <2>2. RmShared'
    BY <1>1 DEF RmInv, RmTypes, RmShared, Acquire, DiscardClient, RmGoto, At
  <2>3. rmMode = "tasks" => RmOwned'
    BY <1>1 DEF RmInv, RmTypes, RmShared, RmOwned, Acquire, DiscardClient, RmGoto, At
  <2>4. rmMode = "tasks" => AllKept'
    BY <1>1 DEF RmInv, RmTypes, RmShared, RmOwned, AllKept, Acquire, DiscardClient, RmGoto, At
  <2> QED
    BY Zenon, <1>m, <2>1, <2>2, <2>3, <2>4 DEF RmInv
<1>2. CASE Discarded(p)
  <2>1. RmTypes'
    BY Zenon, <1>m, <1>2 DEF RmInv, RmTypes, RmShared, Discarded, Closed, RmGoto, At
  <2>2. RmShared'
    BY <1>2 DEF RmInv, RmTypes, RmShared, Discarded, Closed, RmGoto, At
  <2>3. rmMode = "tasks" => RmOwned'
    BY <1>2 DEF RmInv, RmTypes, RmShared, RmOwned, Discarded, Closed, RmGoto, At
  <2>4. rmMode = "tasks" => AllKept'
    BY <1>2 DEF RmInv, RmTypes, RmShared, RmOwned, AllKept, Discarded, Closed, RmGoto, At
  <2> QED
    BY Zenon, <1>m, <2>1, <2>2, <2>3, <2>4 DEF RmInv
<1>3. CASE Create(p)
  <2>1. CASE rmLock' = RmNone /\ Leave(p, FALSE) /\ UNCHANGED rmLife
    <3>1. rmPc[p] = "create" /\ UNCHANGED rmClient
      BY Zenon, <1>3 DEF Create, At
    <3>2. RmGoto(p, "idle", RmNone) \/ RmGoto(p, "yield", RmNone)
      BY Zenon, <2>1 DEF Leave, RmGoto
    <3>3. RmTypes'
      BY Zenon, <1>m, <2>1, <3>1, <3>2 DEF RmInv, RmTypes, RmGoto
    <3>4. RmShared'
      BY <2>1, <3>1, <3>2 DEF RmInv, RmTypes, RmShared, RmGoto
    <3>5. rmMode = "tasks" => RmOwned'
      BY <2>1, <3>1, <3>2 DEF RmInv, RmTypes, RmShared, RmOwned, RmGoto
    <3>6. rmMode = "tasks" => AllKept'
      BY <2>1, <3>1, <3>2 DEF RmInv, RmTypes, RmShared, RmOwned, AllKept, RmGoto
    <3> QED
      BY Zenon, <1>m, <3>3, <3>4, <3>5, <3>6 DEF RmInv
  <2>2. ASSUME NEW c \in RmClients, rmLife[c] = "unborn", RmGoto(p, "ping", c),
               rmLife' = [rmLife EXCEPT ![c] = "trial"], UNCHANGED rmLock
        PROVE  RmInv'
    <3>1. rmPc[p] = "create" /\ UNCHANGED rmClient
      BY Zenon, <1>3 DEF Create, At
    <3>2. RmTypes'
      BY Zenon, <1>m, <2>2, <3>1 DEF RmInv, RmTypes, RmGoto
    <3>3. RmShared'
      BY <2>2, <3>1 DEF RmInv, RmTypes, RmShared, RmGoto
    <3>4. rmMode = "tasks" => RmOwned'
      BY <2>2, <3>1 DEF RmInv, RmTypes, RmShared, RmOwned, RmGoto
    <3>5. rmMode = "tasks" => AllKept'
      BY <2>2, <3>1 DEF RmInv, RmTypes, RmShared, RmOwned, AllKept, RmGoto
    <3> QED
      BY Zenon, <1>m, <3>2, <3>3, <3>4, <3>5 DEF RmInv
  <2>3. CASE rmSeen[p].enabled /\ rmSeen[p].url
    BY Zenon, <1>3, <2>2, <2>3 DEF Create
  <2> QED
    BY Zenon, <1>3, <2>1, <2>3 DEF Create
<1>4. CASE Ping(p)
  <2>1. RmTypes'
    BY <1>m, <1>4 DEF RmInv, RmTypes, RmShared, Ping, RmGoto, At
  <2>2. RmShared'
    BY <1>4 DEF RmInv, RmTypes, RmShared, Ping, RmGoto, At
  <2>3. rmMode = "tasks" => RmOwned'
    BY <1>4 DEF RmInv, RmTypes, RmShared, RmOwned, Ping, RmGoto, At
  <2>4. rmMode = "tasks" => AllKept'
    BY <1>4 DEF RmInv, RmTypes, RmShared, RmOwned, AllKept, Ping, RmGoto, At
  <2> QED
    BY Zenon, <1>m, <2>1, <2>2, <2>3, <2>4 DEF RmInv
<1>5. CASE Established(p)
  <2>1. RmTypes'
    BY Zenon, <1>m, <1>5 DEF RmInv, RmTypes, RmShared, Established, Leave, RmGoto, At
  <2>2. RmShared'
    BY <1>5 DEF RmInv, RmTypes, RmShared, Established, Leave, RmGoto, At
  <2>3. rmMode = "tasks" => RmOwned'
    BY <1>5 DEF RmInv, RmTypes, RmShared, RmOwned, Established, Leave, RmGoto, At
  <2>4. rmMode = "tasks" => AllKept'
    BY <1>5 DEF RmInv, RmTypes, RmShared, RmOwned, AllKept, Established, Leave, RmGoto, At
  <2> QED
    BY Zenon, <1>m, <2>1, <2>2, <2>3, <2>4 DEF RmInv
<1>6. CASE Failed(p)
  <2>1. RmTypes'
    BY Zenon, <1>m, <1>6 DEF RmInv, RmTypes, RmShared, Failed, RmGoto, At
  <2>2. RmShared'
    BY <1>6 DEF RmInv, RmTypes, RmShared, Failed, RmGoto, At
  <2>3. rmMode = "tasks" => RmOwned'
    BY <1>6 DEF RmInv, RmTypes, RmShared, RmOwned, Failed, RmGoto, At
  <2>4. rmMode = "tasks" => AllKept'
    BY <1>6 DEF RmInv, RmTypes, RmShared, RmOwned, AllKept, Failed, RmGoto, At
  <2> QED
    BY Zenon, <1>m, <2>1, <2>2, <2>3, <2>4 DEF RmInv
<1>7. CASE Dropped(p)
  <2>1. RmTypes'
    BY Zenon, <1>m, <1>7 DEF RmInv, RmTypes, RmShared, Dropped, Closed, Leave, RmGoto, At
  <2>2. RmShared'
    BY <1>7 DEF RmInv, RmTypes, RmShared, Dropped, Closed, Leave, RmGoto, At
  <2>3. rmMode = "tasks" => RmOwned'
    BY <1>7 DEF RmInv, RmTypes, RmShared, RmOwned, Dropped, Closed, Leave, RmGoto, At
  <2>4. rmMode = "tasks" => AllKept'
    BY <1>7 DEF RmInv, RmTypes, RmShared, RmOwned, AllKept, Dropped, Closed, Leave, RmGoto, At
  <2> QED
    BY Zenon, <1>m, <2>1, <2>2, <2>3, <2>4 DEF RmInv
<1>8. CASE CloseDiscard(p)
  <2>1. RmTypes'
    BY <1>m, <1>8 DEF RmInv, RmTypes, RmShared, CloseDiscard, DiscardClient, RmGoto, At
  <2>2. RmShared'
    BY <1>8 DEF RmInv, RmTypes, RmShared, CloseDiscard, DiscardClient, RmGoto, At
  <2>3. rmMode = "tasks" => RmOwned'
    BY <1>8 DEF RmInv, RmTypes, RmShared, RmOwned, CloseDiscard, DiscardClient, RmGoto, At
  <2>4. rmMode = "tasks" => AllKept'
    BY <1>8 DEF RmInv, RmTypes, RmShared, RmOwned, AllKept, CloseDiscard, DiscardClient, RmGoto, At
  <2> QED
    BY Zenon, <1>m, <2>1, <2>2, <2>3, <2>4 DEF RmInv
<1>9. CASE CloseAwait(p)
  <2>1. RmTypes'
    BY Zenon, <1>m, <1>9 DEF RmInv, RmTypes, RmShared, CloseAwait, Closed, RmGoto, At
  <2>2. RmShared'
    BY <1>9 DEF RmInv, RmTypes, RmShared, CloseAwait, Closed, RmGoto, At
  <2>3. rmMode = "tasks" => RmOwned'
    BY <1>9 DEF RmInv, RmTypes, RmShared, RmOwned, CloseAwait, Closed, RmGoto, At
  <2>4. rmMode = "tasks" => AllKept'
    BY <1>9 DEF RmInv, RmTypes, RmShared, RmOwned, AllKept, CloseAwait, Closed, RmGoto, At
  <2> QED
    BY Zenon, <1>m, <2>1, <2>2, <2>3, <2>4 DEF RmInv
<1>10. CASE SwapClient(p)
  <2>1. RmTypes'
    BY Zenon, <1>m, <1>10 DEF RmInv, RmTypes, RmShared, SwapClient, RmGoto, At
  <2>2. RmShared'
    BY <1>10 DEF RmInv, RmTypes, RmShared, SwapClient, RmGoto, At
  <2>3. rmMode = "tasks" => RmOwned'
    BY Zenon, <1>10 DEF RmInv, RmTypes, RmShared, RmOwned, SwapClient, RmGoto, At
  <2>4. rmMode = "tasks" => AllKept'
    BY <1>10 DEF RmInv, RmTypes, RmShared, RmOwned, AllKept, SwapClient, RmGoto, At
  <2> QED
    BY Zenon, <1>m, <2>1, <2>2, <2>3, <2>4 DEF RmInv
<1> QED
  BY Zenon, <1>1, <1>2, <1>3, <1>4, <1>5, <1>6, <1>7, <1>8, <1>9, <1>10

LEMMA RmInvStep == RmInv /\ [RmNext]_rmVars => RmInv'
<1> SUFFICES ASSUME RmInv, [RmNext]_rmVars
             PROVE  RmInv'
  BY Zenon
<1>1. ASSUME UNCHANGED <<rmMode, rmClient, rmLock, rmLife, rmPc, rmHeld>>
      PROVE  RmInv'
  BY <1>1 DEF RmInv, RmTypes, RmShared, RmOwned, AllKept
<1>2. ASSUME NEW p \in RmProcs, NEW call \in {"op", "init", "close"}, Enter(p, call)
      PROVE  RmInv'
  <2>1. PICK l \in {"start", "initialize", "discard?"} : RmGoto(p, l, RmNone)
    BY Zenon, <1>2 DEF Enter
  <2> QED
    BY Zenon, <1>2, <2>1, PassiveStep DEF Enter, At, RmLocked, RmGiving, RmSwapping, RmAwaits, RmSteps
<1>3. ASSUME NEW p \in RmProcs,
             \/ Operate(p) \/ CheckClosed(p) \/ CheckClient(p) \/ Command(p)
             \/ Raise(p) \/ Initialize(p) \/ CloseFlag(p)
      PROVE  RmInv'
  <2>1. /\ rmPc[p] \notin RmLocked \cup RmGiving \cup RmSwapping
        /\ UNCHANGED <<rmMode, rmClient, rmLock, rmLife>>
    BY Zenon, <1>3 DEF Operate, CheckClosed, CheckClient, Command, Raise, Initialize,
                CloseFlag, At, RmLocked, RmGiving, RmSwapping, rmFixed
  <2>2. PICK l \in {"idle", "closed?", "client?", "raise", "initialize", "yield",
                     "acquire", "lock"} : RmGoto(p, l, RmNone)
    BY Zenon, <1>3 DEF Operate, CheckClosed, CheckClient, Command, Raise, Initialize, CloseFlag
  <2> QED
    BY Zenon, <2>1, <2>2, PassiveStep DEF RmLocked, RmGiving, RmSwapping, RmAwaits, RmSteps
<1>4. ASSUME NEW p \in RmProcs, Yield(p)
      PROVE  RmInv'
  <2>1. PICK l \in {"raise", "using"} : RmGoto(p, l, rmClient)
    BY Zenon, <1>4 DEF Yield
  <2> QED
    BY Zenon, <1>4, <2>1, PassiveStep
       DEF Yield, At, RmInv, RmTypes, RmLocked, RmGiving, RmSwapping, RmAwaits, RmSteps,
           rmFixed
<1>5. CASE UNCHANGED rmVars
  BY Zenon, <1>1, <1>5 DEF rmVars
<1>6. ASSUME NEW p \in RmProcs, NEW c \in RmConfigs, Construct(p, c)
      PROVE  RmInv'
  BY Zenon, <1>1, <1>6 DEF Construct
<1>7. ASSUME NEW p \in RmProcs, RmStep(p)
      PROVE  RmInv'
  BY Zenon, <1>3, <1>4, <1>7, OwnerStep DEF RmStep
<1> QED
  BY Zenon, <1>2, <1>5, <1>6, <1>7 DEF RmNext

\* RedisManager's client is never one it has given up, and in the async tree no
\* client it creates is lost, whatever calls of initialize, close and operations
\* overlap.
THEOREM NoClientIsLost == RmSpec => []NoLostClient
<1>1. RmInv => NoLostClient
  BY Zenon DEF RmInv, RmShared, NoLostClient
<1> QED
  BY <1>1, RmInvInit, RmInvStep, PTL DEF RmSpec

\* The image of the clients' lives in the abstract specification.
Image == [c \in RmClients |->
            IF rmMode = "threads" THEN "unborn"
            ELSE IF rmLife[c] = "leaving" THEN "retired" ELSE rmLife[c]]

\* A step that leaves the clients alone, or only finishes an aclose, is a
\* stutter of the life cycle; the others create, admit or retire one client.
LEMMA LifecycleStep ==
  ASSUME RmInv, [RmNext]_rmVars
  PROVE  Lifecycle!Next \/ UNCHANGED Image
<1> USE RmNoneAssumption DEF RmLocked, RmTrying, RmGiving, RmSwapping
<1>m. rmMode' = rmMode
  <2>1. ASSUME NEW p \in RmProcs, RmStep(p)
        PROVE  rmMode' = rmMode
    BY <2>1, Zenon DEF RmStep, Operate, CheckClosed, CheckClient, Yield, Command, Raise,
       Initialize, Acquire, SwapClient, Discarded, Create, Ping, Established, Failed,
       Dropped, CloseDiscard, CloseAwait, CloseFlag, rmFixed
  <2> QED
    BY Zenon, <2>1 DEF RmNext, rmVars, Construct, Enter, rmFixed
<1>1. CASE UNCHANGED rmLife
  BY Zenon, <1>m, <1>1 DEF Image
<1>t. CASE rmMode = "threads"
  <2> DEFINE Unborn == [c \in RmClients |-> "unborn"]
  <2>1. Image = Unborn
    BY Zenon, <1>t DEF Image
  <2>2. Image' = Unborn
    BY Zenon, <1>m, <1>t DEF Image
  <2> QED
    BY Zenon, <2>1, <2>2
<1> SUFFICES ASSUME rmMode = "tasks"
             PROVE  Lifecycle!Next \/ UNCHANGED Image
  BY Zenon, <1>t DEF RmInv, RmTypes
<1> DEFINE M == [c \in RmClients |-> IF rmLife[c] = "leaving" THEN "retired" ELSE rmLife[c]]
<1>i. Image = M /\ Image' = M'
  BY Zenon, <1>m DEF Image
<1>n. \A c \in RmClients :
        \/ /\ M[c] \in {"trial", "serving"} /\ M' = [M EXCEPT ![c] = "retired"]
        \/ /\ M[c] = "trial" /\ M' = [M EXCEPT ![c] = "serving"]
        \/ /\ \A d \in RmClients : M[d] \in {"unborn", "retired"}
           /\ M[c] = "unborn" /\ M' = [M EXCEPT ![c] = "trial"]
        => Lifecycle!Next
  BY Zenon, <1>i DEF Image, Lifecycle!Next, Lifecycle!Create, Lifecycle!Admit, Lifecycle!Retire
<1>2. ASSUME NEW p \in RmProcs, Acquire(p) \/ CloseDiscard(p), rmClient # RmNone
      PROVE  Lifecycle!Next
  <2>1. rmClient \in RmClients /\ rmLife[rmClient] = "serving"
    BY Zenon, <1>2 DEF RmInv, RmTypes, RmShared
  <2>2. rmLife' = [c \in RmClients |-> IF c = rmClient THEN "leaving" ELSE rmLife[c]]
    BY Zenon, <1>2 DEF Acquire, CloseDiscard, DiscardClient
  <2> QED
    BY Zenon, <1>n, <2>1, <2>2
<1>3. ASSUME NEW p \in RmProcs, Acquire(p) \/ CloseDiscard(p), rmClient = RmNone
      PROVE  UNCHANGED M
  BY Zenon, <1>3 DEF Acquire, CloseDiscard, DiscardClient, RmInv, RmTypes
<1>4. ASSUME NEW p \in RmProcs, Discarded(p) \/ CloseAwait(p) \/ Dropped(p)
      PROVE  UNCHANGED M
  BY Zenon, <1>4 DEF Discarded, CloseAwait, Dropped, At, Closed, RmInv, RmTypes, RmOwned, RmShared
<1>5. ASSUME NEW p \in RmProcs, Failed(p)
      PROVE  Lifecycle!Next
  <2>1. rmHeld[p] \in RmClients /\ rmLife[rmHeld[p]] = "trial"
    BY Zenon, <1>5 DEF Failed, At, RmInv, RmShared
  <2>2. rmLife' = [rmLife EXCEPT ![rmHeld[p]] = "leaving"]
    BY Zenon, <1>5 DEF Failed
  <2> QED
    BY Zenon, <1>n, <2>1, <2>2 DEF RmInv, RmTypes
<1>6. ASSUME NEW p \in RmProcs, Ping(p), ~UNCHANGED rmLife
      PROVE  Lifecycle!Next
  <2>1. rmHeld[p] \in RmClients /\ rmLife[rmHeld[p]] = "trial"
    BY Zenon, <1>6 DEF Ping, At, RmInv, RmShared
  <2>2. rmLife' = [rmLife EXCEPT ![rmHeld[p]] = "serving"]
    BY Zenon, <1>6 DEF Ping
  <2> QED
    BY Zenon, <1>n, <2>1, <2>2 DEF RmInv, RmTypes
<1>7. ASSUME NEW p \in RmProcs, Create(p), ~UNCHANGED rmLife
      PROVE  Lifecycle!Next
  <2>1. rmPc[p] = "create"
    BY Zenon, <1>7 DEF Create, At
  <2>2. \A d \in RmClients : rmLife[d] \notin {"trial", "serving"}
    BY <2>1 DEF RmInv, RmTypes, RmShared, RmOwned, AllKept
  <2>3. PICK c \in RmClients : rmLife[c] = "unborn" /\ rmLife' = [rmLife EXCEPT ![c] = "trial"]
    BY Zenon, <1>7 DEF Create
  <2> QED
    BY Zenon, <1>n, <2>2, <2>3 DEF RmInv, RmTypes
<1>8. ASSUME NEW p \in RmProcs, RmStep(p), ~UNCHANGED rmLife
      PROVE  \/ Acquire(p) \/ CloseDiscard(p) \/ Discarded(p) \/ CloseAwait(p)
             \/ Dropped(p) \/ Failed(p) \/ Ping(p) \/ Create(p)
  BY Zenon, <1>8 DEF RmStep, Operate, CheckClosed, CheckClient, Yield, Command, Raise,
              Initialize, Established, CloseFlag, SwapClient, At, RmInv, RmOwned
<1>9. ASSUME NEW p \in RmProcs, RmStep(p), ~UNCHANGED rmLife
      PROVE  Lifecycle!Next \/ UNCHANGED Image
  BY Zenon, <1>i, <1>2, <1>3, <1>4, <1>5, <1>6, <1>7, <1>8, <1>9
<1> QED
  BY Zenon, <1>1, <1>9 DEF RmNext, rmVars, Construct, Enter

\* In the async tree RedisManager implements ClientLifecycle: it never has two
\* clients on trial or serving, and a client it gave up is never used again as its own.
THEOREM ImplementsLifecycle == RmSpec => OneClientAtATime
<1>1. RmInit => Lifecycle!Init
  BY Zenon, RmAssumption DEF RmInit, Lifecycle!Init
<1>2. RmInv /\ [RmNext]_rmVars => [Lifecycle!Next]_Image
  BY Zenon, LifecycleStep DEF Image
<1> QED
  BY <1>1, <1>2, RmInvInit, RmInvStep, PTL
     DEF RmSpec, OneClientAtATime, Lifecycle!Spec, Image

\* Tasks that are about to open the manager without having been asked to: it
\* has been open since they looked, for they have not awaited since.
RmOpen ==
  \A p \in RmProcs :
    /\ rmPc[p] = "client?" => ~rmClosed
    /\ rmPc[p] = "initialize" => rmCall[p] = "init" \/ ~rmClosed

RmOpenInv ==
  /\ rmPc \in [RmProcs -> RmAwaits \cup RmSteps]
  /\ rmCall \in [RmProcs -> {"op", "init", "close"}]
  /\ rmMode = "tasks" => RmOpen

LEMMA RmOpenInit == RmInit => RmOpenInv
  BY Zenon DEF RmInit, RmOpenInv, RmOpen, RmAwaits, RmSteps

\* Where a step takes its caller, and what it does to the flag.
LEMMA RmMoves ==
  ASSUME NEW p \in RmProcs, RmStep(p), RmOpenInv
  PROVE  /\ RmMay(p) /\ rmMode' = rmMode /\ rmCall' = rmCall
         /\ \E l \in RmAwaits \cup RmSteps : rmPc' = [rmPc EXCEPT ![p] = l]
         /\ rmPc'[p] # "client?" \/ ~rmClosed'
         /\ rmPc'[p] = "initialize" => rmPc[p] = "client?"
         /\ rmClosed' # rmClosed => rmPc[p] \in {"initialize", "flag"}
  <1> USE DEF At, RmGoto, RmOpenInv
  <1>1. CASE Operate(p) \/ CheckClient(p) \/ Yield(p) \/ Raise(p)
    BY Zenon, <1>1 DEF Operate, CheckClient, Yield, Raise, rmFixed, rmCaller, RmAwaits, RmSteps
  <1>9. CASE CheckClosed(p)
    BY Zenon, <1>9 DEF CheckClosed, rmFixed, rmCaller, RmAwaits, RmSteps
  <1>2. CASE Command(p)
    BY Zenon, <1>2 DEF Command, rmFixed, rmCaller, RmAwaits, RmSteps
  <1>3. CASE Initialize(p)
    BY Zenon, <1>3 DEF Initialize, RmAwaits, RmSteps
  <1>4. CASE Acquire(p) \/ CloseDiscard(p)
    BY Zenon, <1>4 DEF Acquire, CloseDiscard, DiscardClient, rmFixed, rmCaller, RmAwaits, RmSteps
  <1>5. CASE SwapClient(p) \/ Discarded(p) \/ Ping(p) \/ Failed(p)
    BY Zenon, <1>5 DEF SwapClient, Discarded, Ping, Failed, rmFixed, rmCaller,
                       RmAwaits, RmSteps
  <1>6. CASE Create(p)
    BY Zenon, <1>6 DEF Create, Leave, rmFixed, rmCaller, RmAwaits, RmSteps
  <1>7. CASE Established(p) \/ Dropped(p)
    BY Zenon, <1>7 DEF Established, Dropped, Leave, rmFixed, rmCaller, RmAwaits, RmSteps
  <1>8. CASE CloseAwait(p) \/ CloseFlag(p)
    BY Zenon, <1>8 DEF CloseAwait, CloseFlag, rmFixed, rmCaller, RmAwaits, RmSteps
  <1> QED BY Zenon, <1>1, <1>2, <1>3, <1>4, <1>5, <1>6, <1>7, <1>8, <1>9 DEF RmStep

LEMMA RmOpenStep == RmOpenInv /\ [RmNext]_rmVars => RmOpenInv'
  <1> SUFFICES ASSUME RmOpenInv, [RmNext]_rmVars PROVE RmOpenInv'
    BY Zenon
  <1>1. ASSUME NEW p \in RmProcs, RmStep(p) PROVE RmOpenInv'
    <2>1. PICK l \in RmAwaits \cup RmSteps : rmPc' = [rmPc EXCEPT ![p] = l]
      BY Zenon, <1>1, RmMoves
    <2>2. /\ rmPc' \in [RmProcs -> RmAwaits \cup RmSteps] /\ rmPc'[p] = l
          /\ \A q \in RmProcs \ {p} : rmPc'[q] = rmPc[q]
      BY Zenon, <2>1 DEF RmOpenInv
    <2>3. ASSUME rmMode = "tasks", NEW q \in RmProcs, q # p
          PROVE  rmPc'[q] # "client?" /\ rmPc'[q] # "initialize"
      BY Zenon, <1>1, <2>2, <2>3, RmMoves DEF RmMay, RmAwaits
    <2>4. ASSUME rmMode = "tasks"
          PROVE  /\ rmPc'[p] = "client?" => ~rmClosed'
                 /\ rmPc'[p] = "initialize" => ~rmClosed'
      <3>1. rmPc[p] = "client?" => ~rmClosed /\ ~rmClosed'
        BY Zenon, <1>1, <2>4, RmMoves DEF RmOpenInv, RmOpen
      <3> QED BY Zenon, <1>1, <3>1, RmMoves
    <2>5. rmMode = "tasks" => RmOpen'
      BY Zenon, <2>3, <2>4 DEF RmOpen
    <2> QED BY Zenon, <1>1, <2>2, <2>5, RmMoves DEF RmOpenInv
  <1>2. ASSUME NEW p \in RmProcs, NEW c \in RmConfigs, Construct(p, c) PROVE RmOpenInv'
    BY Zenon, <1>2 DEF Construct, RmOpenInv, RmOpen
  <1>3. ASSUME NEW p \in RmProcs, NEW call \in {"op", "init", "close"}, Enter(p, call)
        PROVE  RmOpenInv'
    <2>1. PICK l \in {"start", "initialize", "discard?"} :
            /\ rmPc' = [rmPc EXCEPT ![p] = l]
            /\ l = "initialize" => call = "init"
      BY Zenon, <1>3 DEF Enter, RmGoto
    <2>2. /\ rmPc' \in [RmProcs -> RmAwaits \cup RmSteps]
          /\ rmCall' \in [RmProcs -> {"op", "init", "close"}]
          /\ rmPc'[p] = l /\ rmCall'[p] = call
          /\ \A q \in RmProcs \ {p} : rmPc'[q] = rmPc[q] /\ rmCall'[q] = rmCall[q]
      BY Zenon, <1>3, <2>1 DEF Enter, RmOpenInv, RmSteps
    <2> QED BY Zenon, <1>3, <2>1, <2>2 DEF Enter, RmOpenInv, RmOpen
  <1>4. CASE UNCHANGED rmVars
    BY Zenon, <1>4 DEF rmVars, RmOpenInv, RmOpen
  <1> QED BY Zenon, <1>1, <1>2, <1>3, <1>4 DEF RmNext

\* In the async tree close() is undone only on request: an operation that finds
\* no client and goes on to initialize the manager has seen it open, and nothing
\* could close it in between.
THEOREM ClosedStaysClosed == RmSpec => ReopenedOnlyOnRequest
  <1>1. ASSUME RmOpenInv, [RmNext]_rmVars, rmMode = "tasks", rmClosed, ~rmClosed'
        PROVE  \/ rmPc' = rmPc
               \/ \E p \in RmProcs : rmCall[p] = "init" /\ rmPc[p] = "initialize"
    <2>1. ASSUME NEW p \in RmProcs, RmStep(p) PROVE rmCall[p] = "init" /\ rmPc[p] = "initialize"
      <3>1. rmPc[p] \in {"initialize", "flag"}
        BY Zenon, <1>1, <2>1, RmMoves
      <3>2. rmPc[p] # "flag"
        <4>1. ASSUME rmPc[p] = "flag" PROVE FALSE
          BY Zenon, <1>1, <2>1, <4>1 DEF RmStep, Operate, CheckClosed, CheckClient, Yield, Command, Raise,
             Initialize, Acquire, SwapClient, Discarded, Create, Ping, Established, Failed,
             Dropped, CloseDiscard, CloseAwait, CloseFlag, At
        <4> QED BY Zenon, <4>1
      <3> QED BY Zenon, <1>1, <3>1, <3>2 DEF RmOpenInv, RmOpen
    <2> QED BY Zenon, <1>1, <2>1 DEF RmNext, Construct, Enter, rmVars
  <1>2. RmOpenInv /\ [RmNext]_rmVars =>
          [rmMode = "tasks" /\ rmClosed /\ ~rmClosed' =>
             \/ rmPc' = rmPc
             \/ \E p \in RmProcs : rmCall[p] = "init" /\ rmPc[p] = "initialize"]_rmVars
    BY Zenon, <1>1
  <1> QED BY <1>2, RmOpenInit, RmOpenStep, PTL DEF RmSpec, ReopenedOnlyOnRequest

-----------------------------------------------------------------------------
(***************************************************************************)
(* For any workers and spellings, and any number of migrations that        *)
(* overlap, stop half way or start again: a migration that comes to its    *)
(* end has left no ban under another spelling.                             *)
(***************************************************************************)
MkLabels == {"idle", "scan", "read", "compare", "set", "delete"}
MkBans == [value: Nat, until: Int]

MkTypes ==
  /\ mkNow \in Nat
  /\ mkKey \in [MkKeys -> MkBans]
  /\ mkPc \in [MkWorkers -> MkLabels]
  /\ mkTodo \in [MkWorkers -> SUBSET MkKeys]
  /\ mkAt \in [MkWorkers -> MkKeys]
  /\ mkOld \in [MkWorkers -> [value: Nat, pttl: Int]]
  /\ mkDone \in [MkWorkers -> BOOLEAN]

Gone(k) == mkKey[k].until <= mkNow

\* What a migration on its way still has to do: nobody else adds such a key.
StillToDo ==
  \A w \in MkWorkers, k \in MkLegacy :
    mkPc[w] # "idle"
      => \/ Gone(k)
         \/ k \in mkTodo[w]
         \/ mkPc[w] # "scan" /\ k = mkAt[w]

MkInv == MkTypes /\ StillToDo /\ NoLegacyLeft

LEMMA MkInvInit == MkInit => MkInv
<1> SUFFICES ASSUME MkInit PROVE MkInv
  BY Zenon
<1>1. MkTypes
  BY MkAssumption DEF MkInit, MkTypes, MkLabels, MkBans, MkKeys, MkNone
<1> QED BY Zenon, <1>1 DEF MkInit, MkInv, StillToDo, NoLegacyLeft

\* A spelling that is gone stays so: only the canonical key is ever written.
LEMMA GoneForGood == ASSUME MkInv, [MkNext]_mkVars, NEW k \in MkLegacy, Gone(k) PROVE Gone(k)'
<1>1. k \in MkKeys /\ k # MkCanonical /\ mkNow \in Nat /\ mkKey[k].until \in Int
  BY Zenon, MkLegacyAssumption DEF MkKeys, MkInv, MkTypes, MkBans
<1>2. /\ mkNow' = mkNow \/ mkNow' = mkNow + 1
      /\ mkKey'[k] = mkKey[k] \/ mkKey'[k] = MkNone
  <2>1. ASSUME NEW w \in MkWorkers, MigrateLegacyBanKeys(w) \/ NextKey(w) \/ Read(w) \/ Compare(w) \/ Abandon(w)
        PROVE  UNCHANGED <<mkNow, mkKey>>
    BY Zenon, <2>1 DEF MigrateLegacyBanKeys, NextKey, Read, Compare, Abandon
  <2>2. ASSUME NEW w \in MkWorkers, SetCanonical(w) PROVE mkNow' = mkNow /\ mkKey'[k] = mkKey[k]
    BY Zenon, <1>1, <2>2 DEF SetCanonical, MkInv, MkTypes
  <2>3. ASSUME NEW w \in MkWorkers, DeleteOld(w)
        PROVE  mkNow' = mkNow /\ (mkKey'[k] = mkKey[k] \/ mkKey'[k] = MkNone)
    BY Zenon, <1>1, <2>3 DEF DeleteOld, MkInv, MkTypes
  <2>4. CASE MkUnbanIp \/ \E t \in mkNow + 1..MkMaxTime : MkBanIp(t)
    BY Zenon, <1>1, <2>4 DEF MkUnbanIp, MkBanIp, MkInv, MkTypes
  <2>5. CASE MkTick \/ UNCHANGED mkVars
    BY Zenon, <2>5 DEF MkTick, mkVars
  <2> QED BY Zenon, <2>1, <2>2, <2>3, <2>4, <2>5 DEF MkNext, MkMigrate
<1> QED BY <1>1, <1>2 DEF Gone, MkNone

LEMMA MkTypesStep == ASSUME MkInv, [MkNext]_mkVars PROVE MkTypes'
<1> USE DEF MkInv, MkTypes, MkGoto
<1>0. /\ MkCanonical \in MkKeys /\ MkNone \in MkBans
      /\ \A key \in MkKeys : mkKey[key].value \in Nat /\ Pttl(key) \in Int
  BY DEF MkKeys, MkNone, MkBans, Pttl
<1>1. ASSUME NEW w \in MkWorkers, MigrateLegacyBanKeys(w) PROVE MkTypes'
  BY Zenon, <1>1 DEF MigrateLegacyBanKeys, MkLabels
<1>2. ASSUME NEW w \in MkWorkers, NextKey(w) PROVE MkTypes'
  <2>1. /\ \E l \in MkLabels : mkPc' = [mkPc EXCEPT ![w] = l]
        /\ mkTodo' = mkTodo \/ \E key \in MkKeys : mkTodo' = [mkTodo EXCEPT ![w] = @ \ {key}]
        /\ mkAt' = mkAt \/ \E key \in MkKeys : mkAt' = [mkAt EXCEPT ![w] = key]
        /\ mkDone' = mkDone \/ mkDone' = [mkDone EXCEPT ![w] = TRUE]
        /\ UNCHANGED <<mkNow, mkKey, mkOld>>
    BY Zenon, <1>2 DEF NextKey, MkLabels
  <2>2. mkTodo' \in [MkWorkers -> SUBSET MkKeys]
    BY <2>1
  <2>3. mkAt' \in [MkWorkers -> MkKeys]
    BY Zenon, <2>1
  <2>4. mkPc' \in [MkWorkers -> MkLabels]
    BY Zenon, <2>1
  <2>5. mkDone' \in [MkWorkers -> BOOLEAN]
    BY Zenon, <2>1
  <2> QED BY Zenon, <2>1, <2>2, <2>3, <2>4, <2>5
<1>3. ASSUME NEW w \in MkWorkers, Read(w) PROVE MkTypes'
  BY Zenon, <1>0, <1>3 DEF Read, MkLabels
<1>4. ASSUME NEW w \in MkWorkers, Compare(w) PROVE MkTypes'
  BY Zenon, <1>4 DEF Compare, MkLabels, mkLocal
<1>5. ASSUME NEW w \in MkWorkers, SetCanonical(w) PROVE MkTypes'
  <2>1. [value |-> mkOld[w].value, until |-> mkNow + mkOld[w].pttl] \in MkBans
    BY <1>5 DEF MkBans
  <2> QED BY Zenon, <1>0, <1>5, <2>1 DEF SetCanonical, MkLabels, mkLocal
<1>6. ASSUME NEW w \in MkWorkers, DeleteOld(w) PROVE MkTypes'
  BY <1>0, <1>6 DEF DeleteOld, Forget, MkLabels
<1>7. ASSUME NEW w \in MkWorkers, Abandon(w) PROVE MkTypes'
  BY <1>0, <1>7 DEF Abandon, Forget, MkLabels
<1>8. ASSUME NEW t \in mkNow + 1..MkMaxTime, MkBanIp(t) PROVE MkTypes'
  <2>1. [value |-> t, until |-> t] \in MkBans
    BY <1>8, MkAssumption DEF MkBans
  <2> QED BY Zenon, <1>0, <1>8, <2>1 DEF MkBanIp, mkLocal
<1>9. CASE MkUnbanIp
  BY Zenon, <1>0, <1>9 DEF MkUnbanIp, mkLocal
<1>10. CASE MkTick
  BY <1>10 DEF MkTick, mkLocal
<1>11. CASE UNCHANGED mkVars
  BY Zenon, <1>11 DEF mkVars, mkLocal
<1> QED
  BY Zenon, <1>1, <1>2, <1>3, <1>4, <1>5, <1>6, <1>7, <1>8, <1>9, <1>10, <1>11 DEF MkNext, MkMigrate

LEMMA MkInvStep == MkInv /\ [MkNext]_mkVars => MkInv'
<1> SUFFICES ASSUME MkInv, [MkNext]_mkVars PROVE MkInv'
  BY Zenon
<1>1. \A k \in MkLegacy : Gone(k) => Gone(k)'
  BY Zenon, GoneForGood
<1>2. StillToDo'
  <2> SUFFICES ASSUME NEW w \in MkWorkers, NEW k \in MkLegacy, mkPc'[w] # "idle", ~Gone(k)'
               PROVE  k \in mkTodo'[w] \/ (mkPc'[w] # "scan" /\ k = mkAt'[w])
    BY Zenon DEF StillToDo
  <2>1. ~Gone(k) /\ k \in MkKeys /\ k # MkCanonical
    BY Zenon, <1>1, MkLegacyAssumption DEF MkKeys
  <2>2. mkPc[w] # "idle" => k \in mkTodo[w] \/ (mkPc[w] # "scan" /\ k = mkAt[w])
    BY Zenon, <2>1 DEF MkInv, StillToDo
  <2> USE DEF MkInv, MkTypes, MkGoto
  <2>3. CASE MigrateLegacyBanKeys(w)
    BY <2>1, <2>3 DEF MigrateLegacyBanKeys, Gone, MkBans
  <2>4. CASE NextKey(w)
    BY <2>1, <2>2, <2>4 DEF NextKey
  <2>5. CASE Read(w) \/ Compare(w) \/ SetCanonical(w)
    BY Zenon, <2>2, <2>5 DEF Read, Compare, SetCanonical, mkLocal
  <2>6. CASE DeleteOld(w)
    \* The key that was being moved is gone.
    <3>1. mkKey'[mkAt[w]] = MkNone /\ UNCHANGED <<mkNow, mkTodo>> /\ mkPc[w] # "idle"
      BY Zenon, <2>6 DEF DeleteOld
    <3>2. k # mkAt[w]
      BY <3>1 DEF Gone, MkNone
    <3> QED BY Zenon, <2>2, <3>1, <3>2
  <2>7. CASE Abandon(w)
    BY Zenon, <2>7 DEF Abandon
  <2>8. CASE UNCHANGED <<mkPc, mkTodo, mkAt>>
    BY Zenon, <2>2, <2>8
  <2>9. ASSUME NEW v \in MkWorkers, v # w, MigrateLegacyBanKeys(v) \/ MkMigrate(v) \/ Abandon(v)
        PROVE  mkPc'[w] = mkPc[w] /\ mkTodo'[w] = mkTodo[w] /\ mkAt'[w] = mkAt[w]
    BY Zenon, <2>9 DEF MigrateLegacyBanKeys, MkMigrate, NextKey, Read, Compare, SetCanonical, DeleteOld,
                Abandon, Forget, mkLocal
  <2> QED BY Zenon, <2>2, <2>3, <2>4, <2>5, <2>6, <2>7, <2>8, <2>9
          DEF MkNext, MkMigrate, MkBanIp, MkUnbanIp, MkTick, mkLocal, mkVars
<1>3. NoLegacyLeft'
  <2> SUFFICES ASSUME NEW w \in MkWorkers, mkDone'[w], NEW k \in MkLegacy PROVE Gone(k)'
    BY Zenon DEF NoLegacyLeft, Gone
  <2>1. CASE mkDone[w]
    BY Zenon, <1>1, <2>1 DEF MkInv, NoLegacyLeft, Gone
  <2>2. CASE ~mkDone[w]
    <3>1. NextKey(w) /\ mkPc[w] = "scan" /\ mkTodo[w] = {}
      BY Zenon, <2>2 DEF MkNext, MkMigrate, MigrateLegacyBanKeys, NextKey, Read, Compare, SetCanonical,
                  DeleteOld, Abandon, MkBanIp, MkUnbanIp, MkTick, mkVars, MkInv, MkTypes
    <3> QED BY Zenon, <1>1, <3>1 DEF MkInv, StillToDo
  <2> QED BY Zenon, <2>1, <2>2
<1> QED BY Zenon, <1>2, <1>3, MkTypesStep DEF MkInv

\* migrate_legacy_ban_keys, when it reaches its end, has left no ban under
\* another spelling, whatever other workers migrate, ban and unban meanwhile.
THEOREM MigrationIsComplete == MkSpec => []NoLegacyLeft
<1>1. MkInv => NoLegacyLeft
  BY Zenon DEF MkInv
<1> QED BY <1>1, MkInvInit, MkInvStep, PTL DEF MkSpec

-----------------------------------------------------------------------------
\* A bounded set of numbers has a greatest one.
LEMMA GreatestIsMember ==
  ASSUME NEW B \in Nat, NEW S, S \subseteq 0..B, S # {}
  PROVE  Max(S) \in S /\ \A y \in S : Max(S) >= y
<1> DEFINE less == {ss \in Nat \X Nat : ss[1] < ss[2]}
           Gaps == {B - y : y \in S}
<1>1. IsWellFoundedOn(less, Nat)
  BY NatLessThanWellFounded, Zenon DEF OpToRel
<1>2. Gaps \subseteq Nat
  OBVIOUS
<1>2a. Gaps # {}
  BY Zenon
<1>3. PICK x \in Gaps : \A y \in Gaps : ~(<<y, x>> \in less)
  <2> HIDE DEF less, Gaps
  <2> QED BY <1>1, <1>2, <1>2a, WFMin, Zenon
<1>4. PICK m \in S : x = B - m
  BY Zenon, <1>3
<1>5. ASSUME NEW y \in S PROVE m >= y
  <2>1. ~(<<B - y, B - m>> \in less)
    BY Zenon, <1>3, <1>4, <1>5
  <2>2. B - y \in Nat /\ B - m \in Nat
    BY <1>4
  <2>3. ~(B - y < B - m)
    BY Zenon, <2>1, <2>2
  <2> QED BY <1>4, <2>3
<1> QED BY <1>5, Zenon DEF Max

\* What a key is worth: the value of its ban while the key is there.
Worth(k) == IF mkKey[k].until > mkNow THEN mkKey[k].value ELSE 0

\* The bans' values and when Redis drops them.
MkSound ==
  /\ \A k \in MkKeys : mkKey[k].value \in 0..MkMaxTime /\ mkKey[k].value <= mkKey[k].until
  /\ \A k \in MkLegacy : mkKey[k].until = mkKey[k].value

\* What a worker knows of the key it is moving: until it sets the canonical key
\* that one is due to go sooner, and when it deletes the old key the canonical
\* one stays for as long.
MkMoving ==
  \A w \in MkWorkers :
    /\ mkPc[w] \in {"read", "compare", "set", "delete"} => mkAt[w] \in MkLegacy
    /\ mkPc[w] \in {"compare", "set"} =>
         /\ mkOld[w].pttl > 0 /\ mkOld[w].value \in 0..MkMaxTime
         /\ mkOld[w].value <= mkNow + mkOld[w].pttl
         /\ mkKey[mkAt[w]].until <= mkNow + mkOld[w].pttl
    /\ mkPc[w] = "set" /\ ~mkRaced[w] => mkKey[MkCanonical].until < mkNow + mkOld[w].pttl
    /\ mkPc[w] = "delete" /\ ~mkRaced[w] =>
         Gone(mkAt[w]) \/ mkKey[MkCanonical].until >= mkKey[mkAt[w]].until

MkKeeps == MkInv /\ mkRaced \in [MkWorkers -> BOOLEAN] /\ MkSound /\ MkMoving

\* The protection is that of the key that is worth most.
BestProtects ==
  /\ Protection \in Nat
  /\ \E k \in MkKeys : Protection = Worth(k)
  /\ \A k \in MkKeys : Worth(k) \in Nat /\ Worth(k) <= Protection

LEMMA ProtectionIsBest == MkSound => BestProtects
<1> SUFFICES ASSUME MkSound PROVE BestProtects
  BY Zenon
<1> DEFINE S == {Worth(k) : k \in MkKeys}
<1>1. \A k \in MkKeys : Worth(k) \in 0..MkMaxTime
  BY MkAssumption DEF MkSound, Worth
<1>2. S \subseteq 0..MkMaxTime /\ S # {}
  BY Zenon, <1>1 DEF MkKeys
<1>3. Max(S) \in S /\ \A y \in S : Max(S) >= y
  <2> HIDE DEF S
  <2> QED BY Zenon, <1>2, MkAssumption, GreatestIsMember
<1>4. Protection = Max(S)
  BY Zenon DEF Protection, Worth
<1>5. Protection \in S /\ Protection \in 0..MkMaxTime /\ \A k \in MkKeys : Protection >= Worth(k)
  BY Zenon, <1>2, <1>3, <1>4
<1>6. \A k \in MkKeys : Worth(k) \in Nat /\ Worth(k) <= Protection
  BY <1>1, <1>5, MkAssumption
<1>7. Protection \in Nat
  BY <1>5, MkAssumption
<1> QED BY <1>5, <1>6, <1>7, Zenon DEF BestProtects

LEMMA MkKeepsInit == MkInit => MkKeeps
<1> SUFFICES ASSUME MkInit PROVE MkKeeps
  BY Zenon
<1>1. mkKey \in [MkKeys -> {MkNone} \cup {[value |-> t, until |-> t] : t \in 1..MkMaxTime}]
  BY Zenon DEF MkInit
<1>2. ASSUME NEW k \in MkKeys
      PROVE  mkKey[k].value \in 0..MkMaxTime /\ mkKey[k].until = mkKey[k].value
  <2>1. mkKey[k] = MkNone \/ \E t \in 1..MkMaxTime : mkKey[k] = [value |-> t, until |-> t]
    BY Zenon, <1>1, <1>2
  <2>2. CASE mkKey[k] = MkNone
    BY <2>2, MkAssumption DEF MkNone
  <2>3. ASSUME NEW t \in 1..MkMaxTime, mkKey[k] = [value |-> t, until |-> t]
        PROVE  mkKey[k].value \in 0..MkMaxTime /\ mkKey[k].until = mkKey[k].value
    BY <2>3, MkAssumption
  <2> QED BY Zenon, <2>1, <2>2, <2>3
<1>3. MkSound
  BY <1>2, MkAssumption DEF MkSound, MkKeys
<1>4. MkMoving /\ mkRaced \in [MkWorkers -> BOOLEAN]
  BY Zenon DEF MkInit, MkMoving
<1> QED BY Zenon, <1>3, <1>4, MkInvInit DEF MkKeeps
\* What a step does to the clock and the keys.
LEMMA MkKeyStep ==
  ASSUME MkKeeps, [MkNext]_mkVars
  PROVE  /\ mkNow' = mkNow \/ mkNow' = mkNow + 1
         /\ \A k \in MkLegacy : mkKey'[k] = mkKey[k] \/ mkKey'[k] = MkNone
         /\ \/ mkKey'[MkCanonical] = mkKey[MkCanonical]
            \/ mkKey'[MkCanonical] = MkNone
            \/ \E t \in 1..MkMaxTime : mkKey'[MkCanonical] = [value |-> t, until |-> t]
            \/ \E w \in MkWorkers :
                 /\ mkPc[w] = "set"
                 /\ mkKey'[MkCanonical] =
                      [value |-> mkOld[w].value, until |-> mkNow + mkOld[w].pttl]
<1>0. MkCanonical \in MkKeys /\ \A k \in MkLegacy : k \in MkKeys /\ k # MkCanonical
  BY Zenon, MkLegacyAssumption DEF MkKeys
<1>1. ASSUME NEW w \in MkWorkers, MigrateLegacyBanKeys(w) \/ NextKey(w) \/ Read(w) \/ Compare(w) \/ Abandon(w)
      PROVE  UNCHANGED <<mkNow, mkKey>>
  BY Zenon, <1>1 DEF MigrateLegacyBanKeys, NextKey, Read, Compare, Abandon
<1>2. ASSUME NEW w \in MkWorkers, SetCanonical(w)
      PROVE  /\ mkNow' = mkNow /\ \A k \in MkLegacy : mkKey'[k] = mkKey[k]
             /\ mkPc[w] = "set"
             /\ mkKey'[MkCanonical] = [value |-> mkOld[w].value, until |-> mkNow + mkOld[w].pttl]
  BY Zenon, <1>0, <1>2 DEF SetCanonical, MkKeeps, MkInv, MkTypes
<1>3. ASSUME NEW w \in MkWorkers, DeleteOld(w)
      PROVE  mkNow' = mkNow /\ \A k \in MkKeys : mkKey'[k] = mkKey[k] \/ mkKey'[k] = MkNone
  BY Zenon, <1>3 DEF DeleteOld, MkKeeps, MkInv, MkTypes
<1>4. CASE MkUnbanIp
  BY Zenon, <1>0, <1>4 DEF MkUnbanIp, MkKeeps, MkInv, MkTypes
<1>5. ASSUME NEW t \in mkNow + 1..MkMaxTime, MkBanIp(t)
      PROVE  /\ mkNow' = mkNow /\ \A k \in MkLegacy : mkKey'[k] = mkKey[k]
             /\ t \in 1..MkMaxTime
             /\ mkKey'[MkCanonical] = [value |-> t, until |-> t]
  <2>1. t \in 1..MkMaxTime
    BY MkAssumption DEF MkKeeps, MkInv, MkTypes
  <2> QED BY Zenon, <1>0, <1>5, <2>1 DEF MkBanIp, MkKeeps, MkInv, MkTypes
<1>6. CASE MkTick \/ UNCHANGED mkVars
  BY Zenon, <1>6 DEF MkTick, mkVars
<1> QED BY Zenon, <1>0, <1>1, <1>2, <1>3, <1>4, <1>5, <1>6 DEF MkNext, MkMigrate

LEMMA MkSoundStep == ASSUME MkKeeps, [MkNext]_mkVars PROVE MkSound'
<1> USE DEF MkKeeps, MkSound
<1>1. ASSUME NEW k \in MkLegacy
      PROVE  /\ mkKey'[k].value \in 0..MkMaxTime /\ mkKey'[k].value <= mkKey'[k].until
             /\ mkKey'[k].until = mkKey'[k].value
  <2>1. mkKey'[k] = mkKey[k] \/ mkKey'[k] = MkNone
    BY Zenon, MkKeyStep
  <2> QED BY <2>1, MkAssumption DEF MkKeys, MkNone
<1>2. mkKey'[MkCanonical].value \in 0..MkMaxTime
      /\ mkKey'[MkCanonical].value <= mkKey'[MkCanonical].until
  <2>1. CASE mkKey'[MkCanonical] = mkKey[MkCanonical]
    BY Zenon, <2>1 DEF MkKeys
  <2>2. CASE mkKey'[MkCanonical] = MkNone
    BY <2>2, MkAssumption DEF MkNone
  <2>3. ASSUME NEW t \in 1..MkMaxTime, mkKey'[MkCanonical] = [value |-> t, until |-> t]
        PROVE  mkKey'[MkCanonical].value \in 0..MkMaxTime
               /\ mkKey'[MkCanonical].value <= mkKey'[MkCanonical].until
    BY <2>3, MkAssumption
  <2>4. ASSUME NEW w \in MkWorkers, mkPc[w] = "set",
               mkKey'[MkCanonical] = [value |-> mkOld[w].value, until |-> mkNow + mkOld[w].pttl]
        PROVE  mkKey'[MkCanonical].value \in 0..MkMaxTime
               /\ mkKey'[MkCanonical].value <= mkKey'[MkCanonical].until
    <3>1. mkOld[w].value \in 0..MkMaxTime /\ mkOld[w].value <= mkNow + mkOld[w].pttl
      BY Zenon, <2>4 DEF MkMoving
    <3>2. /\ mkKey'[MkCanonical].value = mkOld[w].value
          /\ mkKey'[MkCanonical].until = mkNow + mkOld[w].pttl
      BY <2>4
    <3> QED BY Zenon, <3>1, <3>2
  <2> QED BY Zenon, <2>1, <2>2, <2>3, <2>4, MkKeyStep
<1> QED BY Zenon, <1>1, <1>2 DEF MkKeys

\* The numbers MkMoving speaks of.
LEMMA MkNumbers ==
  ASSUME MkInv, NEW w \in MkWorkers
  PROVE  /\ mkNow \in Nat /\ mkKey[MkCanonical].until \in Int /\ mkOld[w].pttl \in Int
         /\ \A k \in MkLegacy : k \in MkKeys /\ mkKey[k].until \in Int
<1>1. MkCanonical \in MkKeys /\ \A k \in MkLegacy : k \in MkKeys
  BY Zenon DEF MkKeys
<1> QED BY <1>1 DEF MkInv, MkTypes, MkBans

\* What PTTL says of a key, n being the time and u the key's expiry.
LEMMA TimeLeft ==
  ASSUME NEW n \in Nat, NEW u \in Int
  PROVE  LET p == IF u > n THEN u - n ELSE -2
         IN  IF p <= 0 THEN u <= n ELSE p > 0 /\ u <= n + p
OBVIOUS

\* A second later, with the key still there or gone.
LEMMA TimePasses ==
  ASSUME NEW n \in Nat, NEW m, m = n \/ m = n + 1, NEW p \in Int
  PROVE  /\ \A u \in Int : \A v : p > 0 /\ u <= n + p /\ (v = u \/ v = 0) => v <= m + p
         /\ \A u \in Int : u < n + p => u < m + p
OBVIOUS

LEMMA CoverStays ==
  ASSUME NEW n \in Nat, NEW m, m = n \/ m = n + 1, NEW u \in Int, NEW v, v = u \/ v = 0,
         NEW c \in Int, u <= n \/ c >= u
  PROVE  v <= m \/ c >= v
OBVIOUS

LEMMA MkMovingStep == ASSUME MkKeeps, [MkNext]_mkVars PROVE MkMoving'
<1> SUFFICES ASSUME NEW w \in MkWorkers
             PROVE  /\ mkPc'[w] \in {"read", "compare", "set", "delete"} => mkAt'[w] \in MkLegacy
                    /\ mkPc'[w] \in {"compare", "set"} =>
                         /\ mkOld'[w].pttl > 0 /\ mkOld'[w].value \in 0..MkMaxTime
                         /\ mkOld'[w].value <= mkNow' + mkOld'[w].pttl
                         /\ mkKey'[mkAt'[w]].until <= mkNow' + mkOld'[w].pttl
                    /\ mkPc'[w] = "set" /\ ~mkRaced'[w] =>
                         mkKey'[MkCanonical].until < mkNow' + mkOld'[w].pttl
                    /\ mkPc'[w] = "delete" /\ ~mkRaced'[w] =>
                         \/ mkKey'[mkAt'[w]].until <= mkNow'
                         \/ mkKey'[MkCanonical].until >= mkKey'[mkAt'[w]].until
  BY Zenon DEF MkMoving, Gone
<1>0. /\ mkPc[w] \in {"read", "compare", "set", "delete"} => mkAt[w] \in MkLegacy
      /\ mkPc[w] \in {"compare", "set"} =>
           /\ mkOld[w].pttl > 0 /\ mkOld[w].value \in 0..MkMaxTime
           /\ mkOld[w].value <= mkNow + mkOld[w].pttl
           /\ mkKey[mkAt[w]].until <= mkNow + mkOld[w].pttl
      /\ mkPc[w] = "set" /\ ~mkRaced[w] => mkKey[MkCanonical].until < mkNow + mkOld[w].pttl
      /\ mkPc[w] = "delete" /\ ~mkRaced[w] =>
           mkKey[mkAt[w]].until <= mkNow \/ mkKey[MkCanonical].until >= mkKey[mkAt[w]].until
  BY Zenon DEF MkKeeps, MkMoving, Gone
<1>n. /\ mkNow \in Nat /\ mkKey[MkCanonical].until \in Int /\ mkOld[w].pttl \in Int
      /\ \A k \in MkLegacy : k \in MkKeys /\ mkKey[k].until \in Int
  BY Zenon, MkNumbers DEF MkKeeps
<1>t. mkPc \in [MkWorkers -> MkLabels] /\ mkAt \in [MkWorkers -> MkKeys]
      /\ mkOld \in [MkWorkers -> [value: Nat, pttl: Int]] /\ mkRaced \in [MkWorkers -> BOOLEAN]
  BY Zenon DEF MkKeeps, MkInv, MkTypes
<1>c. MkCanonical \in MkKeys /\ MkCanonical \notin MkLegacy /\ \A k \in MkKeys : k # MkCanonical => k \in MkLegacy
  BY Zenon, MkLegacyAssumption DEF MkKeys
<1>1. CASE MigrateLegacyBanKeys(w)
  BY Zenon, <1>1, <1>t DEF MigrateLegacyBanKeys, MkGoto
<1>2. CASE NextKey(w)
  <2>1. \/ mkPc'[w] \in {"idle", "scan"}
        \/ mkPc'[w] = "read" /\ mkAt'[w] \in MkLegacy
    <3>1. CASE mkPc' = [mkPc EXCEPT ![w] = "idle"]
      BY Zenon, <1>t, <3>1
    <3>2. ASSUME NEW key \in mkTodo[w], mkAt' = [mkAt EXCEPT ![w] = key],
                 mkPc' = [mkPc EXCEPT ![w] = IF key = MkCanonical THEN "scan" ELSE "read"]
          PROVE  \/ mkPc'[w] \in {"idle", "scan"}
                 \/ mkPc'[w] = "read" /\ mkAt'[w] \in MkLegacy
      <4>1. key \in MkKeys
        BY Zenon, <3>2 DEF MkKeeps, MkInv, MkTypes
      <4> QED BY Zenon, <1>t, <1>c, <3>2, <4>1
    <3> QED BY Zenon, <1>2, <3>1, <3>2 DEF NextKey, MkGoto
  <2> QED BY Zenon, <2>1
<1>3. CASE Read(w)
  <2>1. /\ mkAt[w] \in MkLegacy /\ mkAt'[w] = mkAt[w] /\ mkNow' = mkNow /\ mkKey' = mkKey
        /\ mkOld'[w] = [value |-> mkKey[mkAt[w]].value, pttl |-> Pttl(mkAt[w])]
        /\ mkPc'[w] = IF Pttl(mkAt[w]) <= 0 THEN "delete" ELSE "compare"
    BY Zenon, <1>0, <1>3, <1>t DEF Read, MkGoto
  <2>2. /\ mkOld'[w].value = mkKey[mkAt[w]].value
        /\ mkOld'[w].pttl = Pttl(mkAt[w])
    BY <2>1
  <2>3. /\ mkKey[mkAt[w]].value \in 0..MkMaxTime
        /\ mkKey[mkAt[w]].until = mkKey[mkAt[w]].value
    BY Zenon, <1>n, <2>1 DEF MkKeeps, MkSound
  <2>4. IF Pttl(mkAt[w]) <= 0 THEN mkKey[mkAt[w]].until <= mkNow
        ELSE Pttl(mkAt[w]) > 0 /\ mkKey[mkAt[w]].until <= mkNow + Pttl(mkAt[w])
    BY Zenon, <1>n, <2>1, TimeLeft DEF Pttl
  <2>5. CASE Pttl(mkAt[w]) <= 0
    BY Zenon, <2>1, <2>4, <2>5
  <2>6. CASE ~(Pttl(mkAt[w]) <= 0)
    BY Zenon, <2>1, <2>2, <2>3, <2>4, <2>6
  <2> QED BY Zenon, <2>5, <2>6
<1>4. CASE Compare(w)
  <2>1. /\ mkPc[w] = "compare" /\ mkAt'[w] = mkAt[w] /\ mkOld'[w] = mkOld[w]
        /\ mkNow' = mkNow /\ mkKey' = mkKey
        /\ mkPc'[w] = IF Pttl(MkCanonical) < mkOld[w].pttl THEN "set" ELSE "delete"
    BY Zenon, <1>4, <1>t DEF Compare, MkGoto, mkLocal
  <2>2. mkAt[w] \in MkLegacy /\ mkKey[mkAt[w]].until \in Int
    BY Zenon, <1>0, <1>n, <2>1
  <2>3. CASE Pttl(MkCanonical) < mkOld[w].pttl
    <3>1. mkKey[MkCanonical].until < mkNow + mkOld[w].pttl
      BY <1>0, <1>n, <2>1, <2>3 DEF Pttl
    <3> QED BY Zenon, <1>0, <2>1, <2>3, <3>1
  <2>4. CASE ~(Pttl(MkCanonical) < mkOld[w].pttl)
    <3>1. mkKey[MkCanonical].until >= mkKey[mkAt[w]].until
      BY <1>0, <1>n, <2>1, <2>2, <2>4 DEF Pttl
    <3> QED BY Zenon, <1>0, <2>1, <2>4, <3>1
  <2> QED BY Zenon, <2>3, <2>4
<1>5. CASE SetCanonical(w)
  <2>1. /\ mkPc[w] = "set" /\ mkPc'[w] = "delete" /\ mkAt'[w] = mkAt[w]
        /\ mkKey'[MkCanonical] = [value |-> mkOld[w].value, until |-> mkNow + mkOld[w].pttl]
        /\ \A k \in MkLegacy : mkKey'[k] = mkKey[k]
    BY Zenon, <1>5, <1>t, <1>c, <1>n DEF SetCanonical, MkGoto, mkLocal, MkKeeps, MkInv, MkTypes
  <2>2. mkKey'[MkCanonical].until = mkNow + mkOld[w].pttl
    BY <2>1
  <2>3. mkKey'[MkCanonical].until >= mkKey'[mkAt'[w]].until
    BY <1>0, <1>n, <2>1, <2>2
  <2> QED BY Zenon, <1>0, <2>1, <2>3
<1>6. CASE DeleteOld(w) \/ Abandon(w)
  BY Zenon, <1>6, <1>t DEF DeleteOld, Abandon, MkGoto
<1>7. CASE /\ mkPc'[w] = mkPc[w] /\ mkAt'[w] = mkAt[w] /\ mkOld'[w] = mkOld[w]
           /\ \/ mkRaced'[w]
              \/ mkPc[w] \notin {"set", "delete"}
              \/ mkRaced'[w] = mkRaced[w] /\ mkKey'[MkCanonical] = mkKey[MkCanonical]
  <2>1. mkNow' = mkNow \/ mkNow' = mkNow + 1
    BY Zenon, MkKeyStep
  <2>2. mkAt[w] \in MkLegacy =>
          \/ mkKey'[mkAt[w]].until = mkKey[mkAt[w]].until
          \/ mkKey'[mkAt[w]].until = 0
    BY MkKeyStep DEF MkNone
  <2>3. mkPc[w] \in {"compare", "set"} =>
          /\ mkOld[w].value <= mkNow' + mkOld[w].pttl
          /\ mkKey'[mkAt[w]].until <= mkNow' + mkOld[w].pttl
    <3>1. mkOld[w].value \in Int
      BY <1>t
    <3>2. \A u \in Int : \A v : mkOld[w].pttl > 0 /\ u <= mkNow + mkOld[w].pttl /\ (v = u \/ v = 0)
            => v <= mkNow' + mkOld[w].pttl
      BY Zenon, <1>n, <2>1, TimePasses
    <3> QED BY Zenon, <1>0, <1>n, <2>2, <3>1, <3>2
  <2>4. mkKey[MkCanonical].until < mkNow + mkOld[w].pttl
        => mkKey[MkCanonical].until < mkNow' + mkOld[w].pttl
    BY Zenon, <1>n, <2>1, TimePasses
  <2>5. /\ mkAt[w] \in MkLegacy
        /\ mkKey[mkAt[w]].until <= mkNow \/ mkKey[MkCanonical].until >= mkKey[mkAt[w]].until
        => \/ mkKey'[mkAt[w]].until <= mkNow'
           \/ mkKey[MkCanonical].until >= mkKey'[mkAt[w]].until
    <3> SUFFICES ASSUME mkAt[w] \in MkLegacy,
                        mkKey[mkAt[w]].until <= mkNow \/ mkKey[MkCanonical].until >= mkKey[mkAt[w]].until
                 PROVE  \/ mkKey'[mkAt[w]].until <= mkNow'
                        \/ mkKey[MkCanonical].until >= mkKey'[mkAt[w]].until
      BY Zenon
    <3> DEFINE u == mkKey[mkAt[w]].until
               v == mkKey'[mkAt[w]].until
               c == mkKey[MkCanonical].until
    <3>1. mkNow \in Nat /\ u \in Int /\ c \in Int /\ (v = u \/ v = 0) /\ (u <= mkNow \/ c >= u)
      BY Zenon, <1>n, <2>2
    <3> HIDE DEF u, v, c
    <3>2. v <= mkNow' \/ c >= v
      BY Zenon, <2>1, <3>1, CoverStays
    <3> QED BY Zenon, <3>2 DEF u, v, c
  <2> QED BY Zenon, <1>0, <1>7, <2>3, <2>4, <2>5
<1>8. ASSUME NEW v \in MkWorkers, v # w, MigrateLegacyBanKeys(v) \/ MkMigrate(v) \/ Abandon(v)
      PROVE  /\ mkPc'[w] = mkPc[w] /\ mkAt'[w] = mkAt[w] /\ mkOld'[w] = mkOld[w]
             /\ \/ mkRaced'[w]
                \/ mkPc[w] \notin {"set", "delete"}
                \/ mkRaced'[w] = mkRaced[w] /\ mkKey'[MkCanonical] = mkKey[MkCanonical]
  <2>1. CASE MigrateLegacyBanKeys(v) \/ NextKey(v) \/ Read(v) \/ Compare(v) \/ Abandon(v)
    BY Zenon, <1>8, <1>t, <2>1 DEF MigrateLegacyBanKeys, NextKey, Read, Compare, Abandon, Forget, MkGoto, mkLocal
  <2>2. CASE SetCanonical(v)
    BY Zenon, <1>8, <1>t, <2>2 DEF SetCanonical, Race, MkGoto, mkLocal
  <2>3. CASE DeleteOld(v)
    <3>1. mkAt[v] # MkCanonical
      BY Zenon, <1>c, <2>3 DEF DeleteOld, MkKeeps, MkMoving
    <3> QED BY Zenon, <1>8, <1>c, <1>t, <2>3, <3>1 DEF DeleteOld, Forget, MkGoto, MkKeeps, MkInv, MkTypes
  <2> QED BY Zenon, <1>8, <2>1, <2>2, <2>3 DEF MkMigrate
<1>9. CASE MkUnbanIp \/ \E t \in mkNow + 1..MkMaxTime : MkBanIp(t)
  <2>1. UNCHANGED <<mkPc, mkAt, mkOld>> /\ Race(MkCanonical)
    BY Zenon, <1>9 DEF MkUnbanIp, MkBanIp, mkLocal
  <2>2. mkPc[w] \in {"set", "delete"} => mkRaced'[w]
    <3>1. w # MkCanonical
      BY Zenon, MkLegacyAssumption
    <3> QED BY Zenon, <2>1, <3>1 DEF Race
  <2> QED BY Zenon, <1>7, <2>1, <2>2
<1>10. CASE MkTick \/ UNCHANGED mkVars
  BY Zenon, <1>7, <1>10 DEF MkTick, mkVars, mkLocal
<1> QED
  BY Zenon, <1>1, <1>2, <1>3, <1>4, <1>5, <1>6, <1>7, <1>8, <1>9, <1>10 DEF MkNext, MkMigrate
LEMMA MkKeepsStep == MkKeeps /\ [MkNext]_mkVars => MkKeeps'
<1> SUFFICES ASSUME MkKeeps, [MkNext]_mkVars PROVE MkKeeps'
  BY Zenon
<1>1. mkRaced' \in [MkWorkers -> BOOLEAN]
  <2> USE DEF MkKeeps
  <2>1. ASSUME NEW w \in MkWorkers, MigrateLegacyBanKeys(w) \/ MkMigrate(w) \/ Abandon(w)
        PROVE  mkRaced' \in [MkWorkers -> BOOLEAN]
    BY Zenon, <2>1 DEF MigrateLegacyBanKeys, MkMigrate, NextKey, Read, Compare, SetCanonical, DeleteOld, Abandon,
                       Race, Forget
  <2> QED BY Zenon, <2>1 DEF MkNext, MkBanIp, MkUnbanIp, MkTick, Race, mkVars
<1> QED BY Zenon, <1>1, MkInvStep, MkSoundStep, MkMovingStep DEF MkKeeps

\* A step in which one key goes, but the canonical one stays for as long, or in
\* which the canonical one changes, but for one that is worth as much.
LEMMA ProtectionStep ==
  ASSUME MkKeeps, MkKeeps', mkNow' = mkNow,
         NEW k \in MkKeys,
         \A j \in MkKeys \ {k} : mkKey'[j] = mkKey[j],
         Worth(k) <= Worth(MkCanonical)' + Drift'
  PROVE  Protection' >= Protection - Drift'
<1>0. BestProtects /\ BestProtects'
  <2>1. MkSound /\ MkSound'
    BY Zenon DEF MkKeeps
  <2> QED BY <2>1, ProtectionIsBest, PTL
<1>1. /\ Protection \in Nat /\ Protection' \in Nat
      /\ \A j \in MkKeys : Worth(j) \in Nat /\ Worth(j)' \in Nat /\ Worth(j)' <= Protection'
  BY Zenon, <1>0 DEF BestProtects
<1>2. PICK j \in MkKeys : Protection = Worth(j)
  BY Zenon, <1>0 DEF BestProtects
<1>3. MkCanonical \in MkKeys
  BY Zenon DEF MkKeys
<1>4. Drift' \in Nat
  <2>1. /\ mkKey'[MkCanonical].value \in 0..MkMaxTime
        /\ mkKey'[MkCanonical].value <= mkKey'[MkCanonical].until
    BY Zenon, <1>3 DEF MkKeeps, MkSound
  <2>2. mkKey'[MkCanonical].until \in Int
    BY <1>3 DEF MkKeeps, MkInv, MkTypes, MkBans
  <2> QED BY <2>1, <2>2, MkAssumption DEF Drift
<1>5. CASE j = k
  BY <1>1, <1>2, <1>3, <1>4, <1>5
<1>6. CASE j # k
  <2>1. Worth(j)' = Worth(j)
    BY Zenon, <1>6 DEF Worth
  <2> QED BY <1>1, <1>2, <1>4, <2>1
<1> QED BY Zenon, <1>5, <1>6

\* A migration of ban keys never shortens a ban by more than the canonical key
\* outlives it, however many workers migrate, stop half way, ban and unban,
\* unless another writes the canonical key between its comparison and its end.
THEOREM MigrationLosesNoBan == MkSpec => MigrationKeepsBans
<1>1. ASSUME MkKeeps, MkKeeps', [MkNext]_mkVars, NEW w \in MkWorkers,
             mkPc'[w] # mkPc[w], ~mkRaced[w], mkNow' = mkNow
      PROVE  Protection' >= Protection - Drift'
  <2>0. MkCanonical \in MkKeys /\ \A k \in MkLegacy : k \in MkKeys /\ k # MkCanonical
    BY Zenon, MkLegacyAssumption DEF MkKeys
  <2>n. /\ mkNow \in Nat /\ mkKey[MkCanonical].until \in Int /\ mkOld[w].pttl \in Int
        /\ \A k \in MkLegacy : k \in MkKeys /\ mkKey[k].until \in Int
    BY Zenon, <1>1, MkNumbers DEF MkKeeps
  <2>v. \A k \in MkKeys : mkKey[k].value \in 0..MkMaxTime /\ mkKey[k].value <= mkKey[k].until
    BY Zenon, <1>1 DEF MkKeeps, MkSound
  <2>1. CASE SetCanonical(w)
    <3>1. /\ mkPc[w] = "set"
          /\ mkKey' = [mkKey EXCEPT ![MkCanonical] =
                         [value |-> mkOld[w].value, until |-> mkNow + mkOld[w].pttl]]
      BY Zenon, <2>1 DEF SetCanonical
    <3>2. /\ \A j \in MkKeys \ {MkCanonical} : mkKey'[j] = mkKey[j]
          /\ mkKey'[MkCanonical] = [value |-> mkOld[w].value, until |-> mkNow + mkOld[w].pttl]
      BY Zenon, <1>1, <2>0, <3>1 DEF MkKeeps, MkInv, MkTypes
    <3>3. /\ mkKey'[MkCanonical].value = mkOld[w].value
          /\ mkKey'[MkCanonical].until = mkNow + mkOld[w].pttl
      BY <3>2
    <3>4. /\ mkOld[w].pttl > 0 /\ mkOld[w].value \in 0..MkMaxTime
          /\ mkKey[MkCanonical].until < mkNow + mkOld[w].pttl
      BY Zenon, <1>1, <3>1 DEF MkKeeps, MkMoving
    <3>5. Worth(MkCanonical)' + Drift' = mkNow + mkOld[w].pttl
      BY <1>1, <2>n, <3>3, <3>4, MkAssumption DEF Worth, Drift
    <3>6. Worth(MkCanonical) <= mkNow + mkOld[w].pttl
      BY <2>0, <2>n, <2>v, <3>4, MkAssumption DEF Worth
    <3>7. Worth(MkCanonical) <= Worth(MkCanonical)' + Drift'
      BY Zenon, <3>5, <3>6
    <3> QED BY Zenon, <1>1, <2>0, <3>2, <3>7, ProtectionStep
  <2>2. CASE DeleteOld(w)
    <3>1. /\ mkPc[w] = "delete" /\ mkAt[w] \in MkLegacy
          /\ mkKey' = [mkKey EXCEPT ![mkAt[w]] = MkNone]
          /\ Gone(mkAt[w]) \/ mkKey[MkCanonical].until >= mkKey[mkAt[w]].until
      BY Zenon, <1>1, <2>2 DEF DeleteOld, MkKeeps, MkMoving
    <3>2. \A j \in MkKeys \ {mkAt[w]} : mkKey'[j] = mkKey[j]
      BY Zenon, <1>1, <3>1 DEF MkKeeps, MkInv, MkTypes
    <3>3. mkKey'[MkCanonical] = mkKey[MkCanonical]
      BY Zenon, <2>0, <3>1, <3>2
    <3>4. mkKey[mkAt[w]].until = mkKey[mkAt[w]].value
      BY Zenon, <1>1, <3>1 DEF MkKeeps, MkSound
    <3>5. Worth(mkAt[w]) <= Worth(MkCanonical)' + Drift'
      BY <1>1, <2>0, <2>n, <2>v, <3>1, <3>3, <3>4, MkAssumption DEF Worth, Drift, Gone
    <3> QED BY Zenon, <1>1, <2>0, <2>n, <3>1, <3>2, <3>5, ProtectionStep
  <2>3. CASE UNCHANGED mkKey
    <3>1. Worth(MkCanonical) <= Worth(MkCanonical)' + Drift'
      BY <1>1, <2>0, <2>n, <2>v, <2>3, MkAssumption DEF Worth, Drift
    <3> QED BY Zenon, <1>1, <2>0, <2>3, <3>1, ProtectionStep
  <2>4. ASSUME NEW v \in MkWorkers, MigrateLegacyBanKeys(v) \/ MkMigrate(v) \/ Abandon(v)
        PROVE  v = w
    BY Zenon, <1>1, <2>4 DEF MigrateLegacyBanKeys, MkMigrate, NextKey, Read, Compare, SetCanonical, DeleteOld,
                Abandon, MkGoto, MkKeeps, MkInv, MkTypes
  <2> QED BY Zenon, <1>1, <2>1, <2>2, <2>3, <2>4
          DEF MkNext, MkMigrate, MigrateLegacyBanKeys, NextKey, Read, Compare, Abandon,
              MkBanIp, MkUnbanIp, MkTick, mkVars
<1>2. MkKeeps /\ MkKeeps' /\ [MkNext]_mkVars =>
        [\A w \in MkWorkers :
           mkPc'[w] # mkPc[w] /\ ~mkRaced[w] /\ mkNow' = mkNow
             => Protection' >= Protection - Drift']_mkVars
  BY Zenon, <1>1
<1> QED BY <1>2, MkKeepsInit, MkKeepsStep, PTL DEF MkSpec, MigrationKeepsBans
=============================================================================
