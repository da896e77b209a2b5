---------------------------- MODULE IpBanProofs ----------------------------
(***************************************************************************)
(* For any number of workers, addresses, networks and overlapping calls,   *)
(* with Redis present, absent or failing, and through restarts: a stored   *)
(* ban stays until it runs out or is lifted, every lookup that nothing     *)
(* overlaps finds it, no answer extends it, and an unban sticks.           *)
(***************************************************************************)
EXTENDS IpBan, TLAPS

-----------------------------------------------------------------------------
(* The inductive invariant.                                                *)

Types ==
  /\ dep \in Deployments
  /\ now \in Nat /\ now >= 1
  /\ local \in [Workers -> [Ips -> [expiry: Nat, born: Nat]]]
  /\ nets \in [Workers -> SUBSET ((SUBSET Ips) \X Nat)]
  /\ redis \in [Ips -> [value: Nat, dies: Nat]]
  /\ until \in [Ips -> Nat]
  /\ horizon \in [Ips -> Nat]
  /\ shield \in [Workers -> [Ips -> Nat]]
  /\ netShield \in [Workers -> [Ips -> Nat]]
  /\ lifted \in [Ips -> SUBSET Workers]
  /\ raced \subseteq Ips

\* A call: where it is, and what it carries.
IsCheck(t) == t = [op |-> "check", pc |-> t.pc, w |-> t.w, ip |-> t.ip, t0 |-> t.t0,
                   calm |-> t.calm, val |-> t.val]

IsCall(t) ==
  /\ t.op \in {"none", "ban", "check", "unban", "reset"}
  /\ t.op = "none" <=> t.pc = "idle"
  /\ t.op = "ban" <=> t.pc = "set"
  /\ t.op = "check" <=> t.pc \in {"get", "reply", "delete"}
  /\ t.op = "unban" <=> t.pc = "del"
  /\ t.op # "none" => shared
  /\ t.op \in {"ban", "check", "unban"} => t.w \in Workers /\ t.ip \in Ips
  /\ t.op = "ban" => t.d \in Nat /\ t.exp \in Nat
  /\ t.op = "check" => IsCheck(t) /\ t.t0 \in Nat /\ t.val \in Nat

\* A ban that is being stored runs out no later than its key will.  A lookup
\* finds its value within what was granted; when it goes to delete, it has read
\* an expired one; and as long as it is calm, no ban of its worker is in force,
\* and what it has read is the last ban.
CallOk(t) ==
  /\ IsCall(t)
  /\ t.op = "ban" => t.exp <= now + t.d /\ t.exp <= horizon[t.ip]
  /\ t.op = "check" =>
       /\ t.t0 <= now /\ t.val <= horizon[t.ip]
       /\ t.pc = "delete" => t.val < t.t0
       /\ t.calm /\ t.ip \notin raced =>
            /\ shield[t.w][t.ip] <= now /\ netShield[t.w][t.ip] <= now
            /\ t.pc # "get" /\ until[t.ip] > now => t.val = until[t.ip]

\* Nothing that is stored outlasts what was granted.
Granted ==
  \A ip \in Ips :
    /\ redis[ip].value <= horizon[ip]
    /\ \A w \in Workers :
         /\ local[w][ip].expiry <= horizon[ip]
         /\ \A n \in nets[w] : ip \in n[1] => n[2] <= horizon[ip]

\* The last ban is in Redis, under a key that lives as long.
Kept ==
  \A ip \in Ips \ raced :
    until[ip] > now => redis[ip].value = until[ip] /\ redis[ip].dies >= until[ip]

\* What a worker owes its own bans is in its caches.
Guarded ==
  \A w \in Workers, ip \in Ips :
    /\ ip \notin raced /\ shield[w][ip] > now =>
         /\ local[w][ip].expiry >= shield[w][ip]
         /\ local[w][ip].born + LocalCap >= shield[w][ip]
    /\ shield[w][ip] <= now + LocalCap
    /\ netShield[w][ip] > now => \E n \in nets[w] : ip \in n[1] /\ n[2] >= netShield[w][ip]

\* A lifted ban has left both places.
Lifted ==
  \A ip \in Ips \ raced : \A w \in lifted[ip] : local[w][ip] = Absent /\ redis[ip].value = 0

\* Without Redis there is nothing in it.
Unshared == ~shared => \A ip \in Ips : until[ip] = 0 /\ redis[ip] = NoKey

StateInv == Types /\ Granted /\ Kept /\ Guarded /\ Lifted /\ Unshared
CallsOk == DOMAIN task = Tasks /\ \A c \in Tasks : CallOk(task[c])
ReplyOk == BansEnd /\ BanIsFound
IInv == StateInv /\ CallsOk /\ ReplyOk

-----------------------------------------------------------------------------
(* What the operators of the model do to the state.                        *)

\* Every deployment takes part of the workers, addresses, networks and calls.
LEMMA DeploymentParts ==
  ASSUME Types
  PROVE  /\ dep.workers \subseteq Workers /\ dep.ips \subseteq Ips
         /\ dep.networks \subseteq SUBSET Ips /\ dep.tasks \subseteq Tasks
         /\ shared \in BOOLEAN
  BY ConstantsAssumption DEF Types, shared

\* banned_ips[ip] = e puts the entry in the worker's cache; any other entry
\* stays as it is or is gone, and with it what it protected.
Inserted(w, ip, e, guards) ==
  /\ local' \in [Workers -> [Ips -> [expiry: Nat, born: Nat]]]
  /\ shield' \in [Workers -> [Ips -> Nat]]
  /\ local'[w][ip] = [expiry |-> e, born |-> now] /\ shield'[w][ip] = guards
  /\ \A v \in Workers, i \in Ips : v # w \/ i # ip =>
       \/ local'[v][i] = local[v][i] /\ shield'[v][i] = shield[v][i]
       \/ local'[v][i] = Absent /\ shield'[v][i] = 0

\* That is what Insert does, whichever entry it evicts.
LEMMA InsertFacts ==
  ASSUME Types, NEW w \in Workers, NEW ip \in Ips, NEW e \in Nat, NEW guards \in Nat,
         Insert(w, ip, e, guards)
  PROVE  Inserted(w, ip, e, guards)
<1>1. PICK cache \in Caches(w, ip, e) :
        /\ local' = [local EXCEPT ![w] = cache]
        /\ shield' = [shield EXCEPT ![w] = [i \in Ips |->
             CASE i = ip -> guards [] cache[i] = Absent -> 0 [] OTHER -> shield[w][i]]]
  BY Zenon DEF Insert, Types
<1>2. PICK kept \in SUBSET (Ips \ {ip}) :
                  cache = [i \in Ips |-> CASE i = ip -> [expiry |-> e, born |-> now]
                                            [] i \in kept -> local[w][i]
                                            [] OTHER -> Absent]
  BY Zenon, <1>1 DEF Caches
<1>3. /\ cache \in [Ips -> [expiry: Nat, born: Nat]]
      /\ cache[ip] = [expiry |-> e, born |-> now] /\ cache[ip] # Absent
      /\ \A i \in Ips : i # ip => cache[i] = local[w][i] \/ cache[i] = Absent
  BY <1>2 DEF Types, Absent
<1>4. local'[w] = cache /\ \A v \in Workers : v # w => local'[v] = local[v] /\ shield'[v] = shield[v]
  BY Zenon, <1>1 DEF Types
<1>5. /\ shield'[w][ip] = guards
      /\ \A i \in Ips : i # ip => shield'[w][i] = IF cache[i] = Absent THEN 0 ELSE shield[w][i]
  BY Zenon, <1>1, <1>3 DEF Types
<1>6. local' \in [Workers -> [Ips -> [expiry: Nat, born: Nat]]] /\ shield' \in [Workers -> [Ips -> Nat]]
  BY Zenon, <1>1, <1>3 DEF Types
<1>7. ASSUME NEW v \in Workers, NEW i \in Ips, v # w \/ i # ip
      PROVE  \/ local'[v][i] = local[v][i] /\ shield'[v][i] = shield[v][i]
             \/ local'[v][i] = Absent /\ shield'[v][i] = 0
  BY Zenon, <1>3, <1>4, <1>5, <1>7
<1>. QED
  BY Zenon, <1>3, <1>4, <1>5, <1>6, <1>7 DEF Inserted

\* A step that passes the state on to calls under way: time and what was
\* granted only grow, and but for the changed addresses no ban comes in force.
Onward(changed) ==
  /\ dep' = dep /\ now' >= now /\ raced \subseteq raced'
  /\ \A ip \in Ips : horizon'[ip] >= horizon[ip]
  /\ \A ip \in Ips \ changed :
       /\ until'[ip] > now' => until'[ip] = until[ip]
       /\ \A w \in Workers : /\ shield[w][ip] <= now => shield'[w][ip] <= now'
                             /\ netShield[w][ip] <= now => netShield'[w][ip] <= now'

\* A call that the step leaves alone: a lookup of a changed address is no
\* longer calm.
Followed(k, changed) ==
  task'[k] = IF task[k].op = "check" /\ task[k].ip \in changed
               THEN [task[k] EXCEPT !.calm = FALSE] ELSE task[k]

\* What is known of a call stays true when the state goes onward under it.
LEMMA CallFollows ==
  ASSUME Types, Types', NEW k \in Tasks, CallOk(task[k]),
         NEW changed, Onward(changed), Followed(k, changed)
  PROVE  CallOk(task[k])'
<1>1. /\ now \in Nat /\ now' \in Nat /\ now' >= now /\ dep' = dep /\ raced \subseteq raced'
      /\ horizon \in [Ips -> Nat] /\ horizon' \in [Ips -> Nat]
      /\ \A ip \in Ips : horizon'[ip] >= horizon[ip]
  BY Zenon DEF Types, Onward
<1>2. CASE task[k].op = "check" /\ task[k].ip \in changed
  <2>1. /\ task'[k].op = "check" /\ task'[k].pc = task[k].pc /\ task'[k].w = task[k].w
        /\ task'[k].ip = task[k].ip /\ task'[k].t0 = task[k].t0 /\ task'[k].val = task[k].val
        /\ ~task'[k].calm /\ IsCheck(task'[k])
    BY Zenon, <1>2 DEF CallOk, IsCall, IsCheck, Followed
  <2>2. IsCall(task[k])'
    BY Zenon, <1>1, <1>2, <2>1 DEF CallOk, IsCall, shared, IsCheck
  <2>3. task'[k].t0 <= now' /\ task'[k].val <= horizon'[task'[k].ip]
    BY <1>1, <1>2, <2>1 DEF CallOk, IsCall
  <2>. QED
    BY Zenon, <1>2, <2>1, <2>2, <2>3 DEF CallOk
<1>3. CASE ~(task[k].op = "check" /\ task[k].ip \in changed)
  <2>1. task'[k] = task[k]
    BY Zenon, <1>3 DEF Followed
  <2>2. IsCall(task[k])'
    BY Zenon, <1>1, <2>1 DEF CallOk, IsCall, shared, IsCheck
  <2>3. CASE task[k].op = "ban"
    BY <1>1, <2>1, <2>2, <2>3 DEF CallOk, IsCall
  <2>4. CASE task[k].op = "check"
    <3>1. task[k].ip \in Ips /\ task[k].ip \notin changed /\ task[k].w \in Workers
          /\ task[k].t0 \in Nat /\ task[k].val \in Nat
      BY Zenon, <2>4, <1>3 DEF CallOk, IsCall
    <3>2. task'[k].t0 <= now' /\ task'[k].val <= horizon'[task'[k].ip]
      BY <1>1, <2>1, <2>4, <3>1 DEF CallOk
    <3>3. task[k].calm /\ task[k].ip \notin raced' =>
            /\ shield'[task[k].w][task[k].ip] <= now'
            /\ netShield'[task[k].w][task[k].ip] <= now'
      BY Zenon, <1>1, <2>4, <3>1 DEF CallOk, Onward
    <3>4. task[k].calm /\ task[k].ip \notin raced' /\ task[k].pc # "get" /\ until'[task[k].ip] > now'
            => task[k].val = until'[task[k].ip]
      <4>1. until'[task[k].ip] > now' => until'[task[k].ip] = until[task[k].ip] /\ until[task[k].ip] > now
        BY <1>1, <3>1 DEF Onward, Types
      <4>. QED
        BY Zenon, <1>1, <2>4, <3>1, <4>1 DEF CallOk
    <3>. QED
      BY Zenon, <2>1, <2>2, <2>4, <3>2, <3>3, <3>4 DEF CallOk
  <2>. QED
    BY Zenon, <2>1, <2>2, <2>3, <2>4 DEF CallOk
<1>. QED
  BY Zenon, <1>2, <1>3

\* A call that has ended carries nothing.
LEMMA IdleIsOk ==
  ASSUME NEW c, task'[c] = Idle
  PROVE  CallOk(task[c])'
<1>1. task'[c].op = "none" /\ task'[c].pc = "idle"
  BY DEF Idle
<1>. QED
  BY Zenon, <1>1 DEF CallOk, IsCall

\* Nothing is asked of the time when no answer has been given.
LEMMA SilenceIsOk ==
  ASSUME reply' = NoReply
  PROVE  ReplyOk'
<1>1. reply'.res = FALSE
  BY Zenon DEF NoReply
<1>. QED
  BY Zenon, <1>1 DEF ReplyOk, BansEnd, BanIsFound, BanSeenEverywhere, LocalProtection

\* A call that moves on without an answer keeps the invariant, when the stored
\* state does, goes onward, and the call itself is in order.
LEMMA MovesKeep ==
  ASSUME IInv, StateInv', NEW c \in Tasks, NEW t, NEW changed, Moves(c, t, changed),
         Onward(changed), CallOk(task[c])'
  PROVE  IInv'
<1>1. reply' = NoReply /\ DOMAIN task' = Tasks
  BY Zenon DEF Moves
<1>2. ASSUME NEW k \in Tasks, k # c PROVE Followed(k, changed)
  BY Zenon, <1>2 DEF Moves, Followed
<1>3. ASSUME NEW k \in Tasks PROVE CallOk(task[k])'
  BY Zenon, <1>2, CallFollows DEF IInv, StateInv, CallsOk
<1>. QED
  BY Zenon, <1>1, <1>3, SilenceIsOk DEF IInv, CallsOk

\* So does a lookup that ends with an answer, when the answer is right.
LEMMA AnswerKeeps ==
  ASSUME IInv, StateInv', NEW c \in Tasks, NEW w, NEW ip, NEW t0, NEW res, NEW calm,
         NEW expired, Answer(c, w, ip, t0, res, calm, expired), Onward({}), ReplyOk'
  PROVE  IInv'
<1>1. DOMAIN task' = Tasks /\ task'[c] = Idle /\ \A k \in Tasks : k # c => task'[k] = task[k]
  BY Zenon DEF Answer, IInv, CallsOk
<1>2. ASSUME NEW k \in Tasks, k # c PROVE Followed(k, {})
  BY Zenon, <1>1, <1>2 DEF Followed
<1>3. ASSUME NEW k \in Tasks PROVE CallOk(task[k])'
  BY Zenon, <1>1, <1>2, CallFollows, IdleIsOk DEF IInv, StateInv, CallsOk
<1>. QED
  BY Zenon, <1>1, <1>3 DEF IInv, CallsOk

stored == <<dep, now, local, nets, redis, history>>

\* A step that touches calls only leaves the stored state in order.
LEMMA StoredUntouched ==
  ASSUME StateInv, UNCHANGED stored
  PROVE  StateInv' /\ \A changed : Onward(changed)
<1>1. /\ dep' = dep /\ now' = now /\ local' = local /\ nets' = nets /\ redis' = redis
      /\ until' = until /\ horizon' = horizon /\ shield' = shield /\ netShield' = netShield
      /\ lifted' = lifted /\ raced' = raced
  BY Zenon DEF stored, history
<1>2. StateInv'
  BY Zenon, <1>1 DEF StateInv, Types, Granted, Kept, Guarded, Lifted, Unshared, shared
<1>3. now >= now /\ \A ip \in Ips : horizon[ip] >= horizon[ip]
  BY DEF StateInv, Types
<1>. QED
  BY Zenon, <1>1, <1>2, <1>3 DEF Onward

\* Redis takes a ban whole, and a local one up to the cap.
LEMMA ClampFacts ==
  ASSUME NEW d \in Durations
  PROVE  d \in Nat /\ Clamp(d) \in Nat /\ Clamp(d) <= d /\ Clamp(d) <= LocalCap
  BY ConstantsAssumption DEF Clamp
-----------------------------------------------------------------------------
(* ban_ip *)

\* A ban put in a worker's cache, with the horizon raised and any lift of the
\* address over, keeps what is stored in order, but for Redis.
LEMMA InsertKeeps ==
  ASSUME Types, Granted, Guarded, Lifted,
         NEW w \in Workers, NEW ip \in Ips, NEW e \in Nat, NEW guards \in Nat,
         guards <= e, guards <= now + LocalCap, Insert(w, ip, e, guards),
         horizon' = [horizon EXCEPT ![ip] = Larger(@, e)],
         lifted' = [lifted EXCEPT ![ip] = {}],
         dep' = dep, now' = now, nets' = nets, netShield' = netShield, raced' = raced
  PROVE  /\ \A i \in Ips : horizon'[i] >= horizon[i]
         /\ horizon' \in [Ips -> Nat] /\ horizon'[ip] >= e
         /\ lifted' \in [Ips -> SUBSET Workers] /\ lifted'[ip] = {}
         /\ \A i \in Ips \ {ip} : lifted'[i] = lifted[i]
         /\ \A i \in Ips, v \in Workers :
              /\ local'[v][i].expiry <= horizon'[i]
              /\ \A n \in nets'[v] : i \in n[1] => n[2] <= horizon'[i]
         /\ Guarded'
         /\ \A i \in Ips \ raced : \A v \in lifted'[i] : local'[v][i] = Absent
<1>1. /\ local' \in [Workers -> [Ips -> [expiry: Nat, born: Nat]]]
      /\ shield' \in [Workers -> [Ips -> Nat]]
      /\ local'[w][ip] = [expiry |-> e, born |-> now] /\ shield'[w][ip] = guards
      /\ \A v \in Workers, i \in Ips : v # w \/ i # ip =>
           \/ local'[v][i] = local[v][i] /\ shield'[v][i] = shield[v][i]
           \/ local'[v][i] = Absent /\ shield'[v][i] = 0
  <2>1. Inserted(w, ip, e, guards)
    BY Zenon, InsertFacts
  <2>. QED
    BY Zenon, <2>1 DEF Inserted
<1>2. /\ \A i \in Ips : horizon'[i] >= horizon[i]
      /\ horizon' \in [Ips -> Nat] /\ horizon'[ip] >= e
  BY DEF Types, Larger
<1>3. /\ lifted' \in [Ips -> SUBSET Workers] /\ lifted'[ip] = {}
      /\ \A i \in Ips \ {ip} : lifted'[i] = lifted[i]
  BY Zenon DEF Types
<1>4. ASSUME NEW i \in Ips, NEW v \in Workers
      PROVE  /\ local'[v][i].expiry <= horizon'[i]
             /\ \A n \in nets'[v] : i \in n[1] => n[2] <= horizon'[i]
  <2>1. /\ local[v][i].expiry \in Nat /\ local[v][i].expiry <= horizon[i]
        /\ \A n \in nets[v] : n[2] \in Nat /\ (i \in n[1] => n[2] <= horizon[i])
    BY DEF Types, Granted
  <2>2. horizon[i] \in Nat /\ horizon'[i] \in Nat /\ horizon'[i] >= horizon[i]
    BY Zenon, <1>2 DEF Types
  <2>3. \/ local'[v][i].expiry = e /\ i = ip
        \/ local'[v][i].expiry = local[v][i].expiry
        \/ local'[v][i].expiry = 0
    <3>1. [expiry |-> e, born |-> now].expiry = e /\ Absent.expiry = 0
      BY Zenon DEF Absent
    <3>2. CASE v = w /\ i = ip
      BY Zenon, <1>1, <3>1, <3>2
    <3>3. CASE v # w \/ i # ip
      BY Zenon, <1>1, <3>1, <3>3
    <3>. QED
      BY Zenon, <3>2, <3>3
  <2>. QED
    BY <1>2, <2>1, <2>2, <2>3
<1>5. Guarded'
  <2>. SUFFICES ASSUME NEW v \in Workers, NEW i \in Ips
                PROVE  /\ i \notin raced /\ shield'[v][i] > now =>
                            /\ local'[v][i].expiry >= shield'[v][i]
                            /\ local'[v][i].born + LocalCap >= shield'[v][i]
                       /\ shield'[v][i] <= now + LocalCap
                       /\ netShield[v][i] > now =>
                            \E n \in nets[v] : i \in n[1] /\ n[2] >= netShield[v][i]
    BY Zenon DEF Guarded
  <2>1. CASE v = w /\ i = ip
    BY <1>1, <2>1 DEF Guarded, Types
  <2>2. CASE v # w \/ i # ip
    <3>1. CASE local'[v][i] = local[v][i] /\ shield'[v][i] = shield[v][i]
      BY Zenon, <3>1 DEF Guarded
    <3>2. CASE local'[v][i] = Absent /\ shield'[v][i] = 0
      <4>1. ~(0 > now) /\ 0 <= now + LocalCap
        BY ConstantsAssumption DEF Types
      <4>. QED
        BY Zenon, <3>2, <4>1 DEF Guarded
    <3>. QED
      BY Zenon, <1>1, <2>2, <3>1, <3>2
  <2>. QED
    BY Zenon, <2>1, <2>2
<1>6. ASSUME NEW i \in Ips \ raced, NEW v \in lifted'[i] PROVE local'[v][i] = Absent
  <2>1. i # ip /\ v \in lifted[i] /\ v \in Workers /\ i \in Ips
    BY Zenon, <1>3, <1>6 DEF Types
  <2>2. local[v][i] = Absent
    BY Zenon, <2>1, <1>6 DEF Lifted
  <2>. QED
    BY Zenon, <1>1, <2>1, <2>2
<1>. QED
  BY Zenon, <1>2, <1>3, <1>4, <1>5, <1>6

\* The key that a stored ban leaves holds its expiry and lives as long.
LEMMA PutFacts ==
  ASSUME StateInv, NEW c \in Tasks, CallOk(task[c]), task[c].pc = "set",
         Put(task[c], task[c].d), now' = now, raced' = raced
  PROVE  /\ task[c].ip \in Ips /\ shared
         /\ redis' \in [Ips -> [value: Nat, dies: Nat]] /\ until' \in [Ips -> Nat]
         /\ \A i \in Ips : redis'[i].value <= horizon[i]
         /\ \A i \in Ips : i # task[c].ip => redis'[i] = redis[i] /\ until'[i] = until[i]
         /\ Kept'
<1>. DEFINE ip == task[c].ip
            x == task[c].exp
            d == task[c].d
<1>1. /\ ip \in Ips /\ x \in Nat /\ d \in Nat /\ x <= now + d /\ x <= horizon[ip] /\ shared
  BY Zenon DEF CallOk, IsCall
<1>2. /\ redis' = [redis EXCEPT ![ip] = [value |-> x, dies |-> now + d]]
      /\ until' = [until EXCEPT ![ip] = x]
  BY Zenon DEF Put
<1>. HIDE DEF ip, x, d
<1>3. now \in Nat /\ redis \in [Ips -> [value: Nat, dies: Nat]] /\ until \in [Ips -> Nat]
  BY Zenon DEF StateInv, Types
<1>4. /\ redis' \in [Ips -> [value: Nat, dies: Nat]] /\ until' \in [Ips -> Nat]
      /\ redis'[ip].value = x /\ redis'[ip].dies = now + d /\ until'[ip] = x
      /\ \A i \in Ips : i # ip => redis'[i] = redis[i] /\ until'[i] = until[i]
  BY <1>1, <1>2, <1>3
<1>5. \A i \in Ips : redis'[i].value <= horizon[i]
  BY Zenon, <1>1, <1>4 DEF StateInv, Granted
<1>6. Kept'
  <2>. SUFFICES ASSUME NEW i \in Ips \ raced, until'[i] > now
                PROVE  redis'[i].value = until'[i] /\ redis'[i].dies >= until'[i]
    BY Zenon DEF Kept
  <2>1. CASE i = ip
    BY Zenon, <1>1, <1>3, <1>4, <2>1
  <2>2. CASE i # ip
    BY Zenon, <1>4, <2>2 DEF StateInv, Kept
  <2>. QED
    BY Zenon, <2>1, <2>2
<1>. QED
  BY Zenon, <1>1, <1>4, <1>5, <1>6 DEF ip

\* _ban_exact_ip before it awaits Redis.
LEMMA BanIpKeeps ==
  ASSUME IInv, NEW c \in Tasks, NEW w \in Workers, NEW ip \in Ips, NEW d \in Durations,
         BanIp(c, w, ip, d)
  PROVE  IInv'
<1>. DEFINE e == now + (IF shared THEN d ELSE Clamp(d))
            t == IF ~shared THEN Idle
                 ELSE [op |-> "ban", pc |-> "set", w |-> w, ip |-> ip, d |-> d, exp |-> e]
<1>1. /\ Insert(w, ip, e, now + Clamp(d)) /\ Moves(c, t, {ip})
      /\ horizon' = [horizon EXCEPT ![ip] = Larger(@, e)]
      /\ lifted' = [lifted EXCEPT ![ip] = {}]
      /\ dep' = dep /\ now' = now /\ nets' = nets /\ redis' = redis /\ until' = until
      /\ netShield' = netShield /\ raced' = raced
  BY Zenon DEF BanIp
<1>2. /\ Types /\ Granted /\ Kept /\ Guarded /\ Lifted /\ Unshared /\ now \in Nat
      /\ shared \in BOOLEAN
  BY Zenon, DeploymentParts DEF IInv, StateInv, Types
<1>3. /\ e \in Nat /\ now + Clamp(d) \in Nat /\ now + Clamp(d) <= e /\ d \in Nat
      /\ now + Clamp(d) <= now + LocalCap /\ e <= now + d
  BY <1>2, ClampFacts, ConstantsAssumption
<1>4. /\ t.op = "none" /\ t.pc = "idle"
      \/ /\ t.op = "ban" /\ t.pc = "set" /\ t.w = w /\ t.ip = ip /\ t.d = d /\ t.exp = e /\ shared
  BY Zenon DEF Idle
<1>5. task'[c] = t
  BY Zenon, <1>1 DEF Moves
<1>. HIDE DEF e, t
<1>6. /\ local' \in [Workers -> [Ips -> [expiry: Nat, born: Nat]]]
      /\ shield' \in [Workers -> [Ips -> Nat]]
      /\ \A v \in Workers, i \in Ips : v # w \/ i # ip =>
           \/ local'[v][i] = local[v][i] /\ shield'[v][i] = shield[v][i]
           \/ local'[v][i] = Absent /\ shield'[v][i] = 0
  <2>1. Inserted(w, ip, e, now + Clamp(d))
    BY Zenon, <1>1, <1>2, <1>3, InsertFacts
  <2>. QED
    BY Zenon, <2>1 DEF Inserted
<1>7. /\ \A i \in Ips : horizon'[i] >= horizon[i]
      /\ horizon' \in [Ips -> Nat] /\ horizon'[ip] >= e
      /\ lifted' \in [Ips -> SUBSET Workers] /\ lifted'[ip] = {}
      /\ \A i \in Ips \ {ip} : lifted'[i] = lifted[i]
      /\ \A i \in Ips, v \in Workers :
           /\ local'[v][i].expiry <= horizon'[i]
           /\ \A n \in nets'[v] : i \in n[1] => n[2] <= horizon'[i]
      /\ Guarded'
      /\ \A i \in Ips \ raced : \A v \in lifted'[i] : local'[v][i] = Absent
  BY Zenon, <1>1, <1>2, <1>3, InsertKeeps
<1>8. StateInv'
  <2>1. Types'
    BY Zenon, <1>1, <1>2, <1>6, <1>7 DEF Types
  <2>2. Granted'
    <3>1. \A i \in Ips : redis'[i].value <= horizon'[i]
      BY <1>1, <1>2, <1>7 DEF Types, Granted
    <3>. QED
      BY Zenon, <1>7, <3>1 DEF Granted
  <2>3. Kept' /\ Unshared'
    BY Zenon, <1>1, <1>2 DEF Kept, Unshared, shared
  <2>4. Lifted'
    BY Zenon, <1>1, <1>2, <1>7 DEF Lifted, Types
  <2>. QED
    BY Zenon, <1>7, <2>1, <2>2, <2>3, <2>4 DEF StateInv
<1>9. Onward({ip})
  <2>1. now >= now
    BY <1>2
  <2>2. ASSUME NEW i \in Ips \ {ip}, NEW v \in Workers, shield[v][i] <= now PROVE shield'[v][i] <= now
    <3>1. shield'[v][i] = shield[v][i] \/ shield'[v][i] = 0
      BY Zenon, <1>6
    <3>. QED
      BY <1>2, <2>2, <3>1
  <2>. QED
    BY Zenon, <1>1, <1>7, <2>1, <2>2 DEF Onward
<1>10. CallOk(task[c])'
  BY Zenon, <1>1, <1>3, <1>4, <1>5, <1>7 DEF CallOk, IsCall, shared
<1>. QED
  BY Zenon, <1>1, <1>8, <1>9, <1>10, MovesKeep

\* set_key has stored the ban.
LEMMA BanStoreKeeps ==
  ASSUME IInv, NEW c \in Tasks, BanStore(c)
  PROVE  IInv'
<1>. DEFINE ip == task[c].ip
<1>1. /\ task[c].pc = "set" /\ Put(task[c], task[c].d) /\ Moves(c, Idle, {ip})
      /\ lifted' = [lifted EXCEPT ![ip] = {}]
      /\ dep' = dep /\ now' = now /\ local' = local /\ nets' = nets /\ horizon' = horizon
      /\ shield' = shield /\ netShield' = netShield /\ raced' = raced
  BY Zenon DEF BanStore
<1>2. StateInv /\ Types /\ Granted /\ Guarded /\ Lifted /\ CallOk(task[c])
  BY Zenon DEF IInv, StateInv, CallsOk
<1>3. /\ ip \in Ips /\ shared
      /\ redis' \in [Ips -> [value: Nat, dies: Nat]] /\ until' \in [Ips -> Nat]
      /\ \A i \in Ips : redis'[i].value <= horizon[i]
      /\ \A i \in Ips : i # ip => redis'[i] = redis[i] /\ until'[i] = until[i]
      /\ Kept'
  BY Zenon, <1>1, <1>2, PutFacts
<1>. HIDE DEF ip
<1>4. /\ lifted' \in [Ips -> SUBSET Workers] /\ lifted'[ip] = {}
      /\ \A i \in Ips : i # ip => lifted'[i] = lifted[i]
  BY Zenon, <1>1, <1>2, <1>3 DEF Types
<1>5. StateInv'
  <2>1. Types'
    BY Zenon, <1>1, <1>2, <1>3, <1>4 DEF Types
  <2>2. Granted' /\ Guarded' /\ Unshared'
    BY Zenon, <1>1, <1>2, <1>3 DEF Granted, Guarded, Unshared, shared
  <2>3. Lifted'
    BY Zenon, <1>1, <1>2, <1>3, <1>4 DEF Lifted
  <2>. QED
    BY Zenon, <1>3, <2>1, <2>2, <2>3 DEF StateInv
<1>6. Onward({ip})
  <2>1. now >= now /\ \A i \in Ips : horizon[i] >= horizon[i]
    BY <1>2 DEF Types
  <2>. QED
    BY Zenon, <1>1, <1>3, <2>1 DEF Onward
<1>7. CallOk(task[c])'
  BY Zenon, <1>1, IdleIsOk DEF Moves
<1>. QED
  BY Zenon, <1>1, <1>5, <1>6, <1>7, MovesKeep

\* set_key has raised: the ban is kept in the worker's cache, up to the cap.
LEMMA BanStoreFailsKeeps ==
  ASSUME IInv, NEW c \in Tasks, BanStoreFails(c)
  PROVE  IInv'
<1>. DEFINE ip == task[c].ip
            w == task[c].w
            e == now + Clamp(task[c].d)
<1>1. /\ task[c].pc = "set" /\ Moves(c, Idle, {ip}) /\ Insert(w, ip, e, e)
      /\ Put(task[c], task[c].d) \/ (redis' = redis /\ until' = until)
      /\ horizon' = [horizon EXCEPT ![ip] = Larger(@, e)]
      /\ lifted' = [lifted EXCEPT ![ip] = {}]
      /\ dep' = dep /\ now' = now /\ nets' = nets /\ netShield' = netShield /\ raced' = raced
  BY Zenon DEF BanStoreFails
<1>2. /\ StateInv /\ Types /\ Granted /\ Kept /\ Guarded /\ Lifted /\ CallOk(task[c])
      /\ now \in Nat
  BY Zenon DEF IInv, StateInv, CallsOk, Types
<1>3. ip \in Ips /\ w \in Workers /\ task[c].d \in Nat /\ shared
  BY Zenon, <1>1, <1>2 DEF CallOk, IsCall
<1>4. e \in Nat /\ e <= e /\ e <= now + LocalCap
  BY <1>2, <1>3, ConstantsAssumption DEF Clamp
<1>5. /\ redis' \in [Ips -> [value: Nat, dies: Nat]] /\ until' \in [Ips -> Nat]
      /\ \A i \in Ips : redis'[i].value <= horizon[i]
      /\ \A i \in Ips : i # ip => redis'[i] = redis[i] /\ until'[i] = until[i]
      /\ Kept'
  <2>1. CASE Put(task[c], task[c].d)
    BY Zenon, <1>1, <1>2, <2>1, PutFacts
  <2>2. CASE redis' = redis /\ until' = until
    BY Zenon, <1>1, <1>2, <2>2 DEF Types, Granted, Kept
  <2>. QED
    BY Zenon, <1>1, <2>1, <2>2
<1>. HIDE DEF ip, w, e
<1>6. /\ local' \in [Workers -> [Ips -> [expiry: Nat, born: Nat]]]
      /\ shield' \in [Workers -> [Ips -> Nat]]
      /\ \A v \in Workers, i \in Ips : v # w \/ i # ip =>
           \/ local'[v][i] = local[v][i] /\ shield'[v][i] = shield[v][i]
           \/ local'[v][i] = Absent /\ shield'[v][i] = 0
  <2>1. Inserted(w, ip, e, e)
    BY Zenon, <1>1, <1>2, <1>3, <1>4, InsertFacts
  <2>. QED
    BY Zenon, <2>1 DEF Inserted
<1>7. /\ \A i \in Ips : horizon'[i] >= horizon[i]
      /\ horizon' \in [Ips -> Nat] /\ horizon'[ip] >= e
      /\ lifted' \in [Ips -> SUBSET Workers] /\ lifted'[ip] = {}
      /\ \A i \in Ips \ {ip} : lifted'[i] = lifted[i]
      /\ \A i \in Ips, v \in Workers :
           /\ local'[v][i].expiry <= horizon'[i]
           /\ \A n \in nets'[v] : i \in n[1] => n[2] <= horizon'[i]
      /\ Guarded'
      /\ \A i \in Ips \ raced : \A v \in lifted'[i] : local'[v][i] = Absent
  BY Zenon, <1>1, <1>2, <1>3, <1>4, InsertKeeps
<1>8. StateInv'
  <2>1. Types'
    BY Zenon, <1>1, <1>2, <1>5, <1>6, <1>7 DEF Types
  <2>2. Granted'
    <3>1. \A i \in Ips : redis'[i].value <= horizon'[i]
      BY <1>2, <1>5, <1>7 DEF Types
    <3>. QED
      BY Zenon, <1>7, <3>1 DEF Granted
  <2>3. Unshared'
    BY Zenon, <1>1, <1>3 DEF Unshared, shared
  <2>4. Lifted'
    <3>1. ASSUME NEW i \in Ips \ raced, NEW v \in lifted'[i] PROVE redis'[i].value = 0
      <4>1. i # ip /\ v \in lifted[i]
        BY Zenon, <1>3, <1>7
      <4>. QED
        BY Zenon, <1>2, <1>5, <4>1 DEF Lifted
    <3>. QED
      BY Zenon, <1>1, <1>7, <3>1 DEF Lifted
  <2>. QED
    BY Zenon, <1>5, <1>7, <2>1, <2>2, <2>3, <2>4 DEF StateInv
<1>9. Onward({ip})
  <2>1. now >= now
    BY <1>2
  <2>2. ASSUME NEW i \in Ips \ {ip}, NEW v \in Workers, shield[v][i] <= now PROVE shield'[v][i] <= now
    <3>1. shield'[v][i] = shield[v][i] \/ shield'[v][i] = 0
      BY Zenon, <1>6
    <3>. QED
      BY <1>2, <2>2, <3>1
  <2>. QED
    BY Zenon, <1>1, <1>5, <1>7, <2>1, <2>2 DEF Onward
<1>10. CallOk(task[c])'
  BY Zenon, <1>1, IdleIsOk DEF Moves
<1>. QED
  BY Zenon, <1>1, <1>8, <1>9, <1>10, MovesKeep

\* A network ban kept in the worker's own list.
LEMMA LocalCidrKeeps ==
  ASSUME IInv, NEW c \in Tasks, NEW w \in Workers, NEW n \in SUBSET Ips, NEW e \in Nat,
         nets' = [nets EXCEPT ![w] = @ \cup {<<n, e>>}],
         horizon' = [ip \in Ips |-> IF ip \in n THEN Larger(horizon[ip], e) ELSE horizon[ip]],
         netShield' = [netShield EXCEPT ![w] = [ip \in Ips |->
           IF ip \in n THEN Larger(@[ip], e) ELSE @[ip]]],
         Moves(c, Idle, n),
         UNCHANGED <<dep, now, local, redis, until, shield, lifted, raced>>
  PROVE  IInv'
<1>1. /\ dep' = dep /\ now' = now /\ local' = local /\ redis' = redis /\ until' = until
      /\ shield' = shield /\ lifted' = lifted /\ raced' = raced
  BY Zenon
<1>2. StateInv /\ Types /\ Granted /\ Kept /\ Guarded /\ Lifted /\ Unshared /\ now \in Nat
  BY Zenon DEF IInv, StateInv, Types
<1>3. /\ nets' \in [Workers -> SUBSET ((SUBSET Ips) \X Nat)]
      /\ \A v \in Workers : \A m \in nets'[v] : m \in nets[v] \/ m = <<n, e>>
      /\ \A v \in Workers : nets[v] \subseteq nets'[v]
      /\ <<n, e>> \in nets'[w]
  BY <1>2 DEF Types
<1>4. /\ horizon' \in [Ips -> Nat] /\ \A i \in Ips : horizon'[i] >= horizon[i]
      /\ \A i \in n : horizon'[i] >= e
  BY <1>2 DEF Types, Larger
<1>5. /\ netShield' \in [Workers -> [Ips -> Nat]]
      /\ \A v \in Workers, i \in Ips : netShield'[v][i] = netShield[v][i]
                                       \/ (v = w /\ i \in n /\ netShield'[v][i] = e)
  BY Zenon, <1>2 DEF Types, Larger
<1>6. StateInv'
  <2>1. Types'
    <3>1. /\ nets' \in [Workers -> SUBSET ((SUBSET Ips) \X Nat)]
          /\ horizon' \in [Ips -> Nat] /\ netShield' \in [Workers -> [Ips -> Nat]]
      BY Zenon, <1>3, <1>4, <1>5
    <3>. QED
      BY Zenon, <1>1, <1>2, <3>1 DEF Types
  <2>2. Granted'
    <3>. SUFFICES ASSUME NEW i \in Ips, NEW v \in Workers
                  PROVE  /\ redis[i].value <= horizon'[i] /\ local[v][i].expiry <= horizon'[i]
                         /\ \A m \in nets'[v] : i \in m[1] => m[2] <= horizon'[i]
      <4>1. \A i \in Ips : redis[i].value <= horizon'[i]
        BY Zenon, <1>2, <1>4 DEF Types, Granted
      <4>. QED
        BY Zenon, <1>1, <4>1 DEF Granted
    <3>1. /\ horizon[i] \in Nat /\ horizon'[i] \in Nat /\ horizon'[i] >= horizon[i]
          /\ redis[i].value \in Nat /\ redis[i].value <= horizon[i]
          /\ local[v][i].expiry \in Nat /\ local[v][i].expiry <= horizon[i]
      BY <1>2, <1>4 DEF Types, Granted
    <3>2. ASSUME NEW m \in nets'[v], i \in m[1] PROVE m[2] <= horizon'[i]
      <4>1. CASE m \in nets[v]
        <5>1. m[2] \in Nat /\ m[2] <= horizon[i]
          BY <1>2, <3>2, <4>1 DEF Types, Granted
        <5>. QED
          BY <3>1, <5>1
      <4>2. CASE m = <<n, e>>
        BY Zenon, <1>4, <3>1, <3>2, <4>2
      <4>. QED
        BY Zenon, <1>3, <4>1, <4>2
    <3>. QED
      BY <3>1, <3>2
  <2>3. Guarded'
    <3>. SUFFICES ASSUME NEW v \in Workers, NEW i \in Ips, netShield'[v][i] > now
                  PROVE  \E m \in nets'[v] : i \in m[1] /\ m[2] >= netShield'[v][i]
      BY Zenon, <1>1, <1>2 DEF Guarded
    <3>1. CASE netShield'[v][i] = netShield[v][i]
      BY Zenon, <1>2, <1>3, <3>1 DEF Guarded
    <3>2. CASE v = w /\ i \in n /\ netShield'[v][i] = e
      <4>1. <<n, e>>[1] = n /\ <<n, e>>[2] >= e
        OBVIOUS
      <4>. QED
        BY Zenon, <1>3, <3>2, <4>1
    <3>. QED
      BY Zenon, <1>5, <3>1, <3>2
  <2>4. Kept' /\ Lifted' /\ Unshared'
    BY Zenon, <1>1, <1>2 DEF Kept, Lifted, Unshared, shared
  <2>. QED
    BY Zenon, <2>1, <2>2, <2>3, <2>4 DEF StateInv
<1>7. Onward(n)
  <2>1. now >= now
    BY <1>2
  <2>. QED
    BY Zenon, <1>1, <1>4, <1>5, <2>1 DEF Onward
<1>8. CallOk(task[c])'
  BY Zenon, IdleIsOk DEF Moves
<1>. QED
  BY Zenon, <1>6, <1>7, <1>8, MovesKeep

\* _ban_cidr.
LEMMA BanCidrKeeps ==
  ASSUME IInv, NEW c \in Tasks, NEW w \in Workers, NEW n \in SUBSET Ips, NEW d \in Durations,
         BanCidr(c, w, n, d)
  PROVE  IInv'
<1>1. /\ Moves(c, Idle, n)
      /\ UNCHANGED <<dep, now, local, redis, until, shield, lifted, raced>>
  BY Zenon DEF BanCidr
<1>2. now + Clamp(d) \in Nat
  BY ClampFacts DEF IInv, StateInv, Types
<1>3. CASE UNCHANGED <<nets, horizon, netShield>>
  <2>1. StateInv' /\ Onward(n)
    BY Zenon, <1>1, <1>3, StoredUntouched DEF stored, history, IInv
  <2>2. CallOk(task[c])'
    BY Zenon, <1>1, IdleIsOk DEF Moves
  <2>. QED
    BY Zenon, <1>1, <2>1, <2>2, MovesKeep
<1>4. CASE LET e == now + Clamp(d) IN
             /\ nets' = [nets EXCEPT ![w] = @ \cup {<<n, e>>}]
             /\ horizon' = [ip \in Ips |->
                  IF ip \in n THEN Larger(horizon[ip], e) ELSE horizon[ip]]
             /\ netShield' = [netShield EXCEPT ![w] = [ip \in Ips |->
                  IF ip \in n THEN Larger(@[ip], e) ELSE @[ip]]]
  BY Zenon, <1>1, <1>2, <1>4, LocalCidrKeeps
<1>. QED
  BY Zenon, <1>3, <1>4 DEF BanCidr
-----------------------------------------------------------------------------
(* is_ip_banned *)

\* An address that is not in the worker's cache is owed nothing by it.
LEMMA AbsentOwesNothing ==
  ASSUME StateInv, NEW w \in Workers, NEW ip \in Ips \ raced, local[w][ip] = Absent
  PROVE  shield[w][ip] <= now
<1>1. local[w][ip].expiry = 0
  BY DEF Absent
<1>2. now \in Nat /\ shield[w][ip] \in Nat
  BY Zenon DEF StateInv, Types
<1>3. shield[w][ip] > now => 0 >= shield[w][ip]
  BY Zenon, <1>1 DEF StateInv, Guarded
<1>. QED
  BY <1>2, <1>3

\* A local entry answers, or is purged.
LEMMA CheckLocalKeeps ==
  ASSUME IInv, NEW c \in Tasks, NEW w \in Workers, NEW ip \in Ips, CheckLocal(c, w, ip)
  PROVE  IInv'
<1>. DEFINE expired == now > local[w][ip].expiry
<1>1. /\ local' = IF expired THEN [local EXCEPT ![w][ip] = Absent] ELSE local
      /\ Answer(c, w, ip, now, ~expired, ~Changing(ip), expired)
      /\ dep' = dep /\ now' = now /\ nets' = nets /\ redis' = redis /\ until' = until
      /\ horizon' = horizon /\ shield' = shield /\ netShield' = netShield
      /\ lifted' = lifted /\ raced' = raced
  BY Zenon DEF CheckLocal, history
<1>2. StateInv /\ Types /\ Granted /\ Kept /\ Guarded /\ Lifted /\ Unshared
  BY Zenon DEF IInv, StateInv
<1>3. /\ now \in Nat /\ local \in [Workers -> [Ips -> [expiry: Nat, born: Nat]]]
      /\ horizon \in [Ips -> Nat] /\ shield \in [Workers -> [Ips -> Nat]]
  BY Zenon, <1>2 DEF Types
<1>4. /\ local' \in [Workers -> [Ips -> [expiry: Nat, born: Nat]]]
      /\ \A v \in Workers, i \in Ips :
           local'[v][i] = local[v][i] \/ (v = w /\ i = ip /\ expired /\ local'[v][i] = Absent)
  BY Zenon, <1>1, <1>3 DEF Absent
<1>5. StateInv'
  <2>1. Types'
    BY Zenon, <1>1, <1>2, <1>4 DEF Types
  <2>2. Granted'
    <3>1. Absent.expiry = 0 /\ \A i \in Ips : 0 <= horizon[i]
      BY <1>3 DEF Absent
    <3>2. \A v \in Workers, i \in Ips : local'[v][i].expiry <= horizon[i]
      BY Zenon, <1>2, <1>4, <3>1 DEF Granted
    <3>. QED
      BY Zenon, <1>1, <1>2, <3>2 DEF Granted
  <2>3. Guarded'
    <3>. SUFFICES ASSUME NEW v \in Workers, NEW i \in Ips
                  PROVE  i \notin raced /\ shield[v][i] > now =>
                           /\ local'[v][i].expiry >= shield[v][i]
                           /\ local'[v][i].born + LocalCap >= shield[v][i]
      BY Zenon, <1>1, <1>2 DEF Guarded
    <3>1. expired /\ ip \notin raced => ~(shield[w][ip] > now)
      BY <1>2, <1>3 DEF Guarded
    <3>2. i \notin raced /\ shield[v][i] > now => local'[v][i] = local[v][i]
      BY Zenon, <1>4, <3>1
    <3>. QED
      BY Zenon, <1>2, <3>2 DEF Guarded
  <2>4. Kept' /\ Unshared'
    BY Zenon, <1>1, <1>2 DEF Kept, Unshared, shared
  <2>5. Lifted'
    <3>1. \A i \in Ips : lifted[i] \subseteq Workers
      BY Zenon, <1>2 DEF Types
    <3>2. \A v \in Workers, i \in Ips : local[v][i] = Absent => local'[v][i] = Absent
      BY Zenon, <1>4
    <3>. QED
      BY Zenon, <1>1, <1>2, <3>1, <3>2 DEF Lifted
  <2>. QED
    BY Zenon, <2>1, <2>2, <2>3, <2>4, <2>5 DEF StateInv
<1>6. Onward({})
  <2>1. now >= now /\ \A i \in Ips : horizon[i] >= horizon[i]
    BY <1>3
  <2>. QED
    BY Zenon, <1>1, <2>1 DEF Onward
<1>7. ReplyOk'
  <2>1. /\ reply'.res = ~expired /\ reply'.expired = expired
        /\ reply'.t0 = now /\ reply'.ip = ip
    BY Zenon, <1>1 DEF Answer
  <2>2. ~expired => now <= horizon[ip]
    BY <1>2, <1>3 DEF Granted
  <2>. HIDE DEF expired
  <2>. QED
    BY Zenon, <1>1, <2>1, <2>2 DEF ReplyOk, BansEnd, BanIsFound, BanSeenEverywhere, LocalProtection
<1>. QED
  BY Zenon, <1>1, <1>5, <1>6, <1>7, AnswerKeeps

\* The worker's networks answer, or nothing does without Redis, or the lookup
\* goes on to Redis.
LEMMA CheckNetworksKeeps ==
  ASSUME IInv, NEW c \in Tasks, NEW w \in Workers, NEW ip \in Ips, CheckNetworks(c, w, ip)
  PROVE  IInv'
<1>. DEFINE hit == \E n \in nets'[w] : ip \in n[1]
            calm == ~Changing(ip)
            t == [op |-> "check", pc |-> "get", w |-> w, ip |-> ip, t0 |-> now,
                  calm |-> calm, val |-> 0]
<1>1. /\ local[w][ip] = Absent
      /\ nets' = [nets EXCEPT ![w] = {n \in @ : n[2] > now}]
      /\ \/ (hit \/ ~shared) /\ Answer(c, w, ip, now, hit, calm, FALSE)
         \/ ~hit /\ shared /\ Moves(c, t, {})
      /\ dep' = dep /\ now' = now /\ local' = local /\ redis' = redis /\ until' = until
      /\ horizon' = horizon /\ shield' = shield /\ netShield' = netShield
      /\ lifted' = lifted /\ raced' = raced
  BY Zenon DEF CheckNetworks, Present, history
<1>2. StateInv /\ Types /\ Granted /\ Kept /\ Guarded /\ Lifted /\ Unshared
  BY Zenon DEF IInv, StateInv
<1>3. /\ now \in Nat /\ nets \in [Workers -> SUBSET ((SUBSET Ips) \X Nat)]
      /\ horizon \in [Ips -> Nat] /\ netShield \in [Workers -> [Ips -> Nat]]
  BY Zenon, <1>2 DEF Types
<1>4. /\ nets' \in [Workers -> SUBSET ((SUBSET Ips) \X Nat)]
      /\ \A v \in Workers : nets'[v] \subseteq nets[v]
      /\ \A v \in Workers : \A n \in nets[v] : n[2] > now => n \in nets'[v]
      /\ \A n \in nets'[w] : n[2] > now
  BY Zenon, <1>1, <1>3
<1>5. StateInv'
  <2>1. Types'
    BY Zenon, <1>1, <1>2, <1>4 DEF Types
  <2>2. Granted' /\ Kept' /\ Lifted' /\ Unshared'
    BY Zenon, <1>1, <1>2, <1>4 DEF Granted, Kept, Lifted, Unshared, shared
  <2>3. Guarded'
    <3>1. ASSUME NEW v \in Workers, NEW i \in Ips, netShield[v][i] > now
          PROVE  \E n \in nets'[v] : i \in n[1] /\ n[2] >= netShield[v][i]
      <4>1. PICK n \in nets[v] : i \in n[1] /\ n[2] >= netShield[v][i]
        BY Zenon, <1>2, <3>1 DEF Guarded
      <4>2. n[2] > now
        BY <1>3, <3>1, <4>1
      <4>. QED
        BY Zenon, <1>4, <4>1, <4>2
    <3>. QED
      BY Zenon, <1>1, <1>2, <3>1 DEF Guarded
  <2>. QED
    BY Zenon, <2>1, <2>2, <2>3 DEF StateInv
<1>6. Onward({})
  <2>1. now >= now /\ \A i \in Ips : horizon[i] >= horizon[i]
    BY <1>3
  <2>. QED
    BY Zenon, <1>1, <2>1 DEF Onward
<1>7. ~hit => ~(netShield[w][ip] > now)
  BY Zenon, <1>1, <1>5 DEF StateInv, Guarded
<1>8. ip \notin raced => shield[w][ip] <= now
  BY Zenon, <1>1, <1>2, AbsentOwesNothing
<1>9. hit => now <= horizon[ip]
  <2>. SUFFICES ASSUME NEW n \in nets'[w], ip \in n[1] PROVE now <= horizon[ip]
    BY Zenon
  <2>1. n[2] > now /\ n[2] <= horizon[ip] /\ n[2] \in Nat
    BY <1>2, <1>3, <1>4 DEF Granted
  <2>. QED
    BY <1>3, <2>1
<1>. HIDE DEF hit, calm
<1>10. CASE (hit \/ ~shared) /\ Answer(c, w, ip, now, hit, calm, FALSE)
  <2>1. /\ reply'.res = hit /\ reply'.t0 = now /\ reply'.ip = ip /\ reply'.w = w
        /\ reply'.calm = calm /\ reply'.expired = FALSE
    BY Zenon, <1>10 DEF Answer
  <2>2. ~hit => /\ ~(until[ip] > now) /\ ~(now < netShield[w][ip])
                /\ ip \notin raced => ~(now < shield[w][ip])
    <3>1. shield \in [Workers -> [Ips -> Nat]]
      BY Zenon, <1>2 DEF Types
    <3>2. shield[w][ip] \in Nat /\ netShield[w][ip] \in Nat
      BY Zenon, <1>3, <3>1
    <3>. QED
      BY <1>2, <1>3, <1>7, <1>8, <1>10, <3>2 DEF Unshared
  <2>3. ReplyOk'
    BY Zenon, <1>1, <1>9, <2>1, <2>2 DEF ReplyOk, BansEnd, BanIsFound, BanSeenEverywhere, LocalProtection
  <2>. QED
    BY Zenon, <1>5, <1>6, <1>10, <2>3, AnswerKeeps
<1>11. CASE ~hit /\ shared /\ Moves(c, t, {})
  <2>1. /\ t.op = "check" /\ t.pc = "get" /\ t.w = w /\ t.ip = ip /\ t.t0 = now /\ t.calm = calm
        /\ t.val = 0 /\ IsCheck(t)
    BY Zenon DEF IsCheck
  <2>2. task'[c] = t
    BY Zenon, <1>11 DEF Moves
  <2>. HIDE DEF t
  <2>3. IsCall(task[c])'
    <3>1. now \in Nat /\ 0 \in Nat
      BY Zenon, <1>3
    <3>. QED
      BY Zenon, <1>1, <1>11, <2>1, <2>2, <3>1 DEF IsCall, IsCheck, shared
  <2>4. 0 <= horizon[ip] /\ now <= now /\ netShield[w][ip] <= now
    BY <1>3, <1>7, <1>11
  <2>5. CallOk(task[c])'
    BY Zenon, <1>1, <1>8, <2>1, <2>2, <2>3, <2>4 DEF CallOk
  <2>. QED
    BY Zenon, <1>5, <1>6, <1>11, <2>5, MovesKeep
<1>. QED
  BY Zenon, <1>1, <1>10, <1>11

\* What a lookup under way carries.
LEMMA CheckFacts ==
  ASSUME IInv, NEW c \in Tasks, task[c].pc \in {"get", "reply", "delete"}
  PROVE  /\ StateInv /\ Types /\ Granted /\ Kept /\ Guarded /\ Lifted /\ Unshared
         /\ CallOk(task[c]) /\ IsCheck(task[c]) /\ task[c].op = "check" /\ shared
         /\ task[c].w \in Workers /\ task[c].ip \in Ips
         /\ task[c].t0 \in Nat /\ task[c].val \in Nat
         /\ now \in Nat /\ horizon \in [Ips -> Nat] /\ until \in [Ips -> Nat]
         /\ redis \in [Ips -> [value: Nat, dies: Nat]]
         /\ shield \in [Workers -> [Ips -> Nat]] /\ netShield \in [Workers -> [Ips -> Nat]]
  BY Zenon DEF IInv, StateInv, CallsOk, CallOk, IsCall, Types

\* The call of a lookup that has read v.
LEMMA ReadCall ==
  ASSUME NEW q, NEW v, IsCheck(q)
  PROVE  LET t == [q EXCEPT !.pc = "reply", !.val = v]
         IN  /\ t.op = "check" /\ t.pc = "reply" /\ t.w = q.w /\ t.ip = q.ip /\ t.t0 = q.t0
             /\ t.calm = q.calm /\ t.val = v /\ IsCheck(t)
<1>. DEFINE t == [q EXCEPT !.pc = "reply", !.val = v]
<1>1. q = [op |-> "check", pc |-> q.pc, w |-> q.w, ip |-> q.ip, t0 |-> q.t0, calm |-> q.calm,
           val |-> q.val]
  BY Zenon DEF IsCheck
<1>2. t = [op |-> "check", pc |-> "reply", w |-> q.w, ip |-> q.ip, t0 |-> q.t0, calm |-> q.calm,
           val |-> v]
  <2>. DEFINE p == [q EXCEPT !.pc = "reply"]
  <2>1. p = [op |-> "check", pc |-> "reply", w |-> q.w, ip |-> q.ip, t0 |-> q.t0, calm |-> q.calm,
             val |-> q.val]
    BY <1>1
  <2>2. t = [p EXCEPT !.val = v]
    BY Zenon
  <2>. HIDE DEF p, t
  <2>. QED
    BY Zenon, <2>1, <2>2
<1>. HIDE DEF t
<1>3. /\ t.op = "check" /\ t.pc = "reply" /\ t.w = q.w /\ t.ip = q.ip /\ t.t0 = q.t0
      /\ t.calm = q.calm /\ t.val = v
  BY Zenon, <1>2
<1>4. IsCheck(t)
  BY Zenon, <1>2, <1>3 DEF IsCheck
<1>. QED
  BY Zenon, <1>3, <1>4 DEF t

\* get_key has been answered.
LEMMA CheckGetKeeps ==
  ASSUME IInv, NEW c \in Tasks, CheckGet(c)
  PROVE  IInv'
<1>. DEFINE q == task[c]
            ip == task[c].ip
            t == [task[c] EXCEPT !.pc = "reply", !.val = Stored(task[c].ip)]
<1>1. q.pc = "get" /\ Moves(c, t, {}) /\ UNCHANGED stored
  BY Zenon DEF CheckGet, stored
<1>2. /\ StateInv /\ Granted /\ Kept /\ CallOk(q) /\ IsCheck(q) /\ q.op = "check" /\ shared
      /\ q.w \in Workers /\ ip \in Ips /\ q.t0 \in Nat
      /\ redis \in [Ips -> [value: Nat, dies: Nat]]
  BY Zenon, <1>1, CheckFacts
<1>3. StateInv' /\ Onward({})
  BY Zenon, <1>1, <1>2, StoredUntouched
<1>4. /\ t.op = "check" /\ t.pc = "reply" /\ t.w = q.w /\ t.ip = ip /\ t.t0 = q.t0
      /\ t.calm = q.calm /\ t.val = redis[ip].value /\ IsCheck(t)
  BY Zenon, <1>2, ReadCall DEF Stored
<1>5. task'[c] = t
  BY Zenon, <1>1 DEF Moves
<1>6. redis[ip].value \in Nat
  BY Zenon, <1>2
<1>7. /\ dep' = dep /\ now' = now /\ until' = until /\ horizon' = horizon /\ shield' = shield
      /\ netShield' = netShield /\ raced' = raced
  BY Zenon, <1>1 DEF stored, history
<1>. HIDE DEF q, ip, t
<1>8. IsCall(task[c])'
  BY Zenon, <1>2, <1>4, <1>5, <1>6, <1>7 DEF IsCall, IsCheck, shared
<1>9. redis[ip].value <= horizon[ip] /\ q.t0 <= now
  BY Zenon, <1>2 DEF Granted, CallOk
<1>10. q.calm /\ ip \notin raced =>
         /\ shield[q.w][ip] <= now /\ netShield[q.w][ip] <= now
         /\ until[ip] > now => redis[ip].value = until[ip]
  BY Zenon, <1>2 DEF CallOk, Kept, q, ip
<1>11. CallOk(task[c])'
  BY Zenon, <1>4, <1>5, <1>7, <1>8, <1>9, <1>10 DEF CallOk
<1>. QED
  BY Zenon, <1>1, <1>3, <1>11, MovesKeep

\* A calm lookup that reads no ban in force, or one that has run out, misses
\* nothing.
LEMMA NothingMissed ==
  ASSUME IInv, NEW c \in Tasks, task[c].pc \in {"reply", "delete"},
         task[c].val = 0 \/ task[c].val < task[c].t0, task[c].calm, task[c].ip \notin raced
  PROVE  /\ ~(until[task[c].ip] > now)
         /\ ~(now < shield[task[c].w][task[c].ip])
         /\ ~(now < netShield[task[c].w][task[c].ip])
<1>1. /\ CallOk(task[c]) /\ task[c].op = "check" /\ task[c].w \in Workers /\ task[c].ip \in Ips
      /\ task[c].t0 \in Nat /\ task[c].val \in Nat /\ now \in Nat
      /\ until \in [Ips -> Nat]
      /\ shield \in [Workers -> [Ips -> Nat]] /\ netShield \in [Workers -> [Ips -> Nat]]
  BY Zenon, CheckFacts
<1>2. /\ task[c].t0 <= now
      /\ shield[task[c].w][task[c].ip] <= now /\ netShield[task[c].w][task[c].ip] <= now
      /\ until[task[c].ip] > now => task[c].val = until[task[c].ip]
  BY Zenon, <1>1 DEF CallOk
<1>. QED
  BY <1>1, <1>2

\* get_key found nothing, or a ban that has run out and is to be deleted.
LEMMA CheckReplyKeeps ==
  ASSUME IInv, NEW c \in Tasks, CheckReply(c), UNCHANGED <<local, shield, raced>>,
         \/ task[c].val = 0 /\ Answer(c, task[c].w, task[c].ip, task[c].t0, FALSE, task[c].calm, FALSE)
         \/ task[c].t0 > task[c].val /\ Moves(c, [task[c] EXCEPT !.pc = "delete"], {})
  PROVE  IInv'
<1>. DEFINE q == task[c]
            ip == task[c].ip
            t == [task[c] EXCEPT !.pc = "delete"]
<1>1. q.pc = "reply" /\ UNCHANGED stored
  BY Zenon DEF CheckReply, stored, history
<1>2. /\ StateInv /\ CallOk(q) /\ IsCheck(q) /\ q.op = "check" /\ shared
      /\ q.w \in Workers /\ ip \in Ips /\ q.t0 \in Nat /\ q.val \in Nat /\ now \in Nat
  BY Zenon, <1>1, CheckFacts
<1>3. StateInv' /\ Onward({})
  BY Zenon, <1>1, <1>2, StoredUntouched
<1>4. /\ dep' = dep /\ now' = now /\ until' = until /\ horizon' = horizon /\ shield' = shield
      /\ netShield' = netShield /\ raced' = raced
  BY Zenon, <1>1 DEF stored, history
<1>5. CASE q.val = 0 /\ Answer(c, q.w, q.ip, q.t0, FALSE, q.calm, FALSE)
  <2>1. reply'.res = FALSE /\ reply'.ip = ip /\ reply'.w = q.w /\ reply'.calm = q.calm
    BY Zenon, <1>5 DEF Answer
  <2>2. q.calm /\ ip \notin raced => /\ ~(until[ip] > now) /\ ~(now < shield[q.w][ip])
                                     /\ ~(now < netShield[q.w][ip])
    BY Zenon, <1>1, <1>5, NothingMissed
  <2>3. ReplyOk'
    BY Zenon, <1>4, <2>1, <2>2 DEF ReplyOk, BansEnd, BanIsFound, BanSeenEverywhere, LocalProtection
  <2>. QED
    BY Zenon, <1>3, <1>5, <2>3, AnswerKeeps
<1>6. CASE q.t0 > q.val /\ Moves(c, t, {})
  <2>1. /\ t.op = "check" /\ t.pc = "delete" /\ t.w = q.w /\ t.ip = ip /\ t.t0 = q.t0
        /\ t.calm = q.calm /\ t.val = q.val /\ IsCheck(t)
    BY <1>2 DEF IsCheck
  <2>2. task'[c] = t
    BY Zenon, <1>6 DEF Moves
  <2>3. q.val < q.t0
    BY Zenon, <1>2, <1>6
  <2>4. /\ q.t0 <= now /\ q.val <= horizon[ip]
        /\ q.calm /\ ip \notin raced =>
             /\ shield[q.w][ip] <= now /\ netShield[q.w][ip] <= now
             /\ until[ip] > now => q.val = until[ip]
    BY Zenon, <1>1, <1>2 DEF CallOk
  <2>. HIDE DEF q, ip, t
  <2>5. IsCall(task[c])'
    BY Zenon, <1>2, <1>4, <2>1, <2>2 DEF IsCall, IsCheck, shared
  <2>6. CallOk(task[c])'
    BY Zenon, <1>4, <2>1, <2>2, <2>3, <2>4, <2>5 DEF CallOk
  <2>. QED
    BY Zenon, <1>3, <1>6, <2>6, MovesKeep
<1>. QED
  BY Zenon, <1>5, <1>6

\* get_key found a ban in force: it goes into the worker's cache.
LEMMA PromotionKeeps ==
  ASSUME IInv, NEW c \in Tasks, task[c].pc = "reply",
         task[c].val # 0, task[c].t0 <= task[c].val,
         Insert(task[c].w, task[c].ip, task[c].val, shield[task[c].w][task[c].ip]),
         Answer(c, task[c].w, task[c].ip, task[c].t0, TRUE, task[c].calm, FALSE),
         Outdated(task[c]),
         UNCHANGED <<dep, now, nets, redis, until, horizon, netShield, lifted>>
  PROVE  IInv'
<1>. DEFINE w == task[c].w
            ip == task[c].ip
            x == task[c].val
<1>1. /\ StateInv /\ Types /\ Granted /\ Kept /\ Guarded /\ Lifted /\ Unshared
      /\ w \in Workers /\ ip \in Ips /\ task[c].t0 \in Nat /\ x \in Nat
      /\ now \in Nat /\ horizon \in [Ips -> Nat] /\ CallOk(task[c]) /\ task[c].op = "check"
      /\ shield \in [Workers -> [Ips -> Nat]]
  BY Zenon, CheckFacts
<1>2. /\ dep' = dep /\ now' = now /\ nets' = nets /\ redis' = redis /\ until' = until
      /\ horizon' = horizon /\ netShield' = netShield /\ lifted' = lifted
  BY Zenon
<1>3. /\ raced \subseteq raced' /\ raced' \subseteq Ips
      /\ ip \notin raced' => redis[ip].value = x /\ local[w][ip].expiry <= x
  BY Zenon, <1>1 DEF Outdated, Stored, Types
<1>4. x # 0 /\ x <= horizon[ip]
  BY Zenon, <1>1 DEF CallOk
<1>5. reply'.res = TRUE /\ reply'.ip = ip /\ reply'.t0 = task[c].t0
  BY Zenon DEF Answer
<1>6. task[c].t0 <= horizon[ip]
  BY <1>1, <1>4
<1>7. shield[w][ip] \in Nat
  BY Zenon, <1>1
<1>8. /\ local' \in [Workers -> [Ips -> [expiry: Nat, born: Nat]]]
      /\ shield' \in [Workers -> [Ips -> Nat]]
      /\ local'[w][ip] = [expiry |-> x, born |-> now] /\ shield'[w][ip] = shield[w][ip]
      /\ \A v \in Workers, i \in Ips : v # w \/ i # ip =>
           \/ local'[v][i] = local[v][i] /\ shield'[v][i] = shield[v][i]
           \/ local'[v][i] = Absent /\ shield'[v][i] = 0
  <2>1. Inserted(w, ip, x, shield[w][ip])
    BY Zenon, <1>1, <1>7, InsertFacts
  <2>. QED
    BY Zenon, <2>1 DEF Inserted
<1>. HIDE DEF w, ip, x
<1>9. local'[w][ip].expiry = x /\ local'[w][ip].born = now
  <2>1. \A e : [expiry |-> e, born |-> now].expiry = e /\ [expiry |-> e, born |-> now].born = now
    OBVIOUS
  <2>. QED
    BY Zenon, <1>8, <2>1
<1>10. StateInv'
  <2>1. Types'
    BY Zenon, <1>1, <1>2, <1>3, <1>8 DEF Types
  <2>2. Granted'
    <3>1. Absent.expiry = 0 /\ \A i \in Ips : 0 <= horizon[i]
      BY <1>1 DEF Absent
    <3>2. ASSUME NEW v \in Workers, NEW i \in Ips PROVE local'[v][i].expiry <= horizon[i]
      <4>1. CASE v = w /\ i = ip
        BY Zenon, <1>4, <1>9, <4>1
      <4>2. CASE v # w \/ i # ip
        BY Zenon, <1>1, <1>8, <3>1, <4>2 DEF Granted
      <4>. QED
        BY Zenon, <4>1, <4>2
    <3>. QED
      BY Zenon, <1>1, <1>2, <3>2 DEF Granted
  <2>3. Kept' /\ Unshared'
    BY Zenon, <1>1, <1>2, <1>3 DEF Kept, Unshared, shared
  <2>4. Guarded'
    <3>. SUFFICES ASSUME NEW v \in Workers, NEW i \in Ips
                  PROVE  /\ i \notin raced' /\ shield'[v][i] > now =>
                              /\ local'[v][i].expiry >= shield'[v][i]
                              /\ local'[v][i].born + LocalCap >= shield'[v][i]
                         /\ shield'[v][i] <= now + LocalCap
      BY Zenon, <1>1, <1>2 DEF Guarded
    <3>1. CASE v = w /\ i = ip
      <4>1. /\ shield[w][ip] <= now + LocalCap
            /\ ip \notin raced /\ shield[w][ip] > now => local[w][ip].expiry >= shield[w][ip]
        BY Zenon, <1>1 DEF Guarded
      <4>2. local \in [Workers -> [Ips -> [expiry: Nat, born: Nat]]] /\ LocalCap \in Nat
        BY Zenon, <1>1, ConstantsAssumption DEF Types
      <4>3. w \in Workers /\ ip \in Ips /\ x \in Nat /\ now \in Nat
        BY Zenon, <1>1
      <4>4. local[w][ip].expiry \in Nat
        BY <4>2, <4>3
      <4>5. ip \notin raced' => ip \notin raced /\ local[w][ip].expiry <= x
        BY Zenon, <1>3
      <4>6. ip \notin raced' /\ shield[w][ip] > now => x >= shield[w][ip]
        BY <1>7, <4>1, <4>3, <4>4, <4>5
      <4>. QED
        BY Zenon, <1>8, <1>9, <3>1, <4>1, <4>6
    <3>2. CASE v # w \/ i # ip
      <4>1. CASE local'[v][i] = local[v][i] /\ shield'[v][i] = shield[v][i]
        BY Zenon, <1>1, <1>3, <4>1 DEF Guarded
      <4>2. CASE local'[v][i] = Absent /\ shield'[v][i] = 0
        <5>1. \A m \in Nat, k \in Nat : ~(0 > m) /\ 0 <= m + k
          OBVIOUS
        <5>2. ~(0 > now) /\ 0 <= now + LocalCap
          BY Zenon, <1>1, <5>1, ConstantsAssumption
        <5>. QED
          BY Zenon, <4>2, <5>2
      <4>. QED
        BY Zenon, <1>8, <3>2, <4>1, <4>2
    <3>. QED
      BY Zenon, <3>1, <3>2
  <2>5. Lifted'
    <3>. SUFFICES ASSUME NEW i \in Ips \ raced', NEW v \in lifted[i]
                  PROVE  local'[v][i] = Absent /\ redis[i].value = 0
      BY Zenon, <1>2 DEF Lifted
    <3>1. v \in Workers /\ local[v][i] = Absent /\ redis[i].value = 0
      BY Zenon, <1>1, <1>3 DEF Lifted, Types
    <3>2. i # ip
      BY Zenon, <1>3, <1>4, <3>1
    <3>. QED
      BY Zenon, <1>8, <3>1, <3>2
  <2>. QED
    BY Zenon, <2>1, <2>2, <2>3, <2>4, <2>5 DEF StateInv
<1>11. Onward({})
  <2>1. now >= now /\ \A i \in Ips : horizon[i] >= horizon[i]
    BY <1>1
  <2>2. ASSUME NEW i \in Ips, NEW v \in Workers, shield[v][i] <= now PROVE shield'[v][i] <= now
    <3>1. shield'[v][i] = shield[v][i] \/ shield'[v][i] = 0
      BY Zenon, <1>8
    <3>. QED
      BY <1>1, <2>2, <3>1
  <2>. QED
    BY Zenon, <1>2, <1>3, <2>1, <2>2 DEF Onward
<1>12. ReplyOk'
  BY Zenon, <1>2, <1>5, <1>6 DEF ReplyOk, BansEnd, BanIsFound, BanSeenEverywhere, LocalProtection
<1>. QED
  BY Zenon, <1>10, <1>11, <1>12, AnswerKeeps

\* The reply to get_key, whatever it was.
LEMMA AnyReplyKeeps ==
  ASSUME IInv, NEW c \in Tasks, CheckReply(c)
  PROVE  IInv'
<1>1. /\ task[c].pc = "reply"
      /\ UNCHANGED <<dep, now, nets, redis, until, horizon, netShield, lifted>>
  BY Zenon DEF CheckReply
<1>2. CASE /\ task[c].val # 0 /\ task[c].t0 <= task[c].val
           /\ Insert(task[c].w, task[c].ip, task[c].val, shield[task[c].w][task[c].ip])
           /\ Answer(c, task[c].w, task[c].ip, task[c].t0, TRUE, task[c].calm, FALSE)
           /\ Outdated(task[c])
  BY Zenon, <1>1, <1>2, PromotionKeeps
<1>3. CASE /\ UNCHANGED <<local, shield, raced>>
           /\ \/ /\ task[c].val = 0
                 /\ Answer(c, task[c].w, task[c].ip, task[c].t0, FALSE, task[c].calm, FALSE)
              \/ task[c].t0 > task[c].val /\ Moves(c, [task[c] EXCEPT !.pc = "delete"], {})
  BY Zenon, <1>3, CheckReplyKeeps
<1>. QED
  BY Zenon, <1>2, <1>3 DEF CheckReply, NotFound, Promoted

\* The expired key is deleted.
LEMMA CheckDeleteKeeps ==
  ASSUME IInv, NEW c \in Tasks, CheckDelete(c)
  PROVE  IInv'
<1>. DEFINE w == task[c].w
            ip == task[c].ip
            x == task[c].val
            t0 == task[c].t0
            calm == task[c].calm
<1>1. /\ task[c].pc = "delete" /\ Outdated(task[c])
      /\ redis' = [redis EXCEPT ![ip] = NoKey]
      /\ Answer(c, w, ip, t0, FALSE, calm, FALSE)
      /\ dep' = dep /\ now' = now /\ local' = local /\ nets' = nets /\ until' = until
      /\ horizon' = horizon /\ shield' = shield /\ netShield' = netShield /\ lifted' = lifted
  BY Zenon DEF CheckDelete
<1>2. /\ StateInv /\ Types /\ Granted /\ Kept /\ Guarded /\ Lifted /\ Unshared
      /\ w \in Workers /\ ip \in Ips /\ t0 \in Nat /\ x \in Nat
      /\ now \in Nat /\ horizon \in [Ips -> Nat] /\ CallOk(task[c]) /\ task[c].op = "check"
      /\ until \in [Ips -> Nat] /\ redis \in [Ips -> [value: Nat, dies: Nat]] /\ shared
  BY Zenon, <1>1, CheckFacts
<1>3. /\ raced \subseteq raced' /\ raced' \subseteq Ips
      /\ ip \notin raced' => redis[ip].value = x
  BY Zenon, <1>1, <1>2 DEF Outdated, Stored, Types
<1>4. x < t0 /\ t0 <= now
  BY Zenon, <1>1, <1>2 DEF CallOk
<1>5. reply'.res = FALSE /\ reply'.ip = ip /\ reply'.w = w /\ reply'.calm = calm
  BY Zenon, <1>1 DEF Answer
<1>6. calm /\ ip \notin raced => /\ ~(until[ip] > now) /\ ~(now < shield[w][ip])
                                 /\ ~(now < netShield[w][ip])
  BY Zenon, <1>1, <1>4, NothingMissed
<1>. HIDE DEF w, ip, x, t0, calm
<1>7. /\ redis' \in [Ips -> [value: Nat, dies: Nat]] /\ redis'[ip].value = 0
      /\ \A i \in Ips : i # ip => redis'[i] = redis[i]
  BY Zenon, <1>1, <1>2 DEF NoKey
<1>8. StateInv'
  <2>1. Types'
    BY Zenon, <1>1, <1>2, <1>3, <1>7 DEF Types
  <2>2. Granted'
    <3>1. \A i \in Ips : 0 <= horizon[i]
      BY <1>2
    <3>2. \A i \in Ips : redis'[i].value <= horizon[i]
      BY Zenon, <1>2, <1>7, <3>1 DEF Granted
    <3>. QED
      BY Zenon, <1>1, <1>2, <3>2 DEF Granted
  <2>3. Kept'
    <3>1. ip \notin raced' => ~(until[ip] > now)
      <4>1. ip \notin raced' /\ until[ip] > now => until[ip] = x
        BY Zenon, <1>2, <1>3 DEF Kept
      <4>. QED
        BY <1>2, <1>4, <4>1
    <3>. QED
      BY Zenon, <1>1, <1>2, <1>3, <1>7, <3>1 DEF Kept
  <2>4. Guarded' /\ Unshared'
    BY Zenon, <1>1, <1>2, <1>3 DEF Guarded, Unshared, shared
  <2>5. Lifted'
    BY Zenon, <1>1, <1>2, <1>3, <1>7 DEF Lifted
  <2>. QED
    BY Zenon, <2>1, <2>2, <2>3, <2>4, <2>5 DEF StateInv
<1>9. Onward({})
  <2>1. now >= now /\ \A i \in Ips : horizon[i] >= horizon[i]
    BY <1>2
  <2>. QED
    BY Zenon, <1>1, <1>3, <2>1 DEF Onward
<1>10. ReplyOk'
  BY Zenon, <1>1, <1>3, <1>5, <1>6 DEF ReplyOk, BansEnd, BanIsFound, BanSeenEverywhere, LocalProtection
<1>. QED
  BY Zenon, <1>1, <1>8, <1>9, <1>10, AnswerKeeps

\* A call that ends in an exception or without effect.
LEMMA GivenUpKeeps ==
  ASSUME IInv, NEW c \in Tasks, Moves(c, Idle, {}), UNCHANGED stored
  PROVE  IInv'
<1>1. StateInv' /\ Onward({})
  BY Zenon, StoredUntouched DEF IInv
<1>2. CallOk(task[c])'
  BY Zenon, IdleIsOk DEF Moves
<1>. QED
  BY Zenon, <1>1, <1>2, MovesKeep
-----------------------------------------------------------------------------
(* unban_ip, reset, restarts and time *)

\* unban_ip before it awaits Redis.
LEMMA UnbanIpKeeps ==
  ASSUME IInv, NEW c \in Tasks, NEW w \in Workers, NEW ip \in Ips, UnbanIp(c, w, ip)
  PROVE  IInv'
<1>. DEFINE t == IF shared THEN [op |-> "unban", pc |-> "del", w |-> w, ip |-> ip] ELSE Idle
<1>1. /\ local' = [local EXCEPT ![w][ip] = Absent]
      /\ shield' = [shield EXCEPT ![w][ip] = 0]
      /\ Moves(c, t, {ip})
      /\ lifted' = IF shared THEN lifted ELSE [lifted EXCEPT ![ip] = @ \cup {w}]
      /\ dep' = dep /\ now' = now /\ nets' = nets /\ redis' = redis /\ until' = until
      /\ horizon' = horizon /\ netShield' = netShield /\ raced' = raced
  BY Zenon DEF UnbanIp
<1>2. /\ StateInv /\ Types /\ Granted /\ Kept /\ Guarded /\ Lifted /\ Unshared
      /\ now \in Nat /\ horizon \in [Ips -> Nat] /\ lifted \in [Ips -> SUBSET Workers]
      /\ local \in [Workers -> [Ips -> [expiry: Nat, born: Nat]]]
      /\ shield \in [Workers -> [Ips -> Nat]]
  BY Zenon DEF IInv, StateInv, Types
<1>3. /\ local' \in [Workers -> [Ips -> [expiry: Nat, born: Nat]]]
      /\ local'[w][ip] = Absent
      /\ \A v \in Workers, i \in Ips : v # w \/ i # ip => local'[v][i] = local[v][i]
  BY Zenon, <1>1, <1>2 DEF Absent
<1>4. /\ shield' \in [Workers -> [Ips -> Nat]]
      /\ shield'[w][ip] = 0
      /\ \A v \in Workers, i \in Ips : v # w \/ i # ip => shield'[v][i] = shield[v][i]
  BY Zenon, <1>1, <1>2
<1>5. /\ lifted' \in [Ips -> SUBSET Workers]
      /\ \A i \in Ips : \A v \in lifted'[i] : v \in lifted[i] \/ (v = w /\ i = ip /\ ~shared)
  BY Zenon, <1>1, <1>2
<1>6. StateInv'
  <2>1. Types'
    BY Zenon, <1>1, <1>2, <1>3, <1>4, <1>5 DEF Types
  <2>2. Granted'
    <3>1. Absent.expiry = 0 /\ \A i \in Ips : 0 <= horizon[i]
      BY <1>2 DEF Absent
    <3>2. \A v \in Workers, i \in Ips : local'[v][i].expiry <= horizon[i]
      BY Zenon, <1>2, <1>3, <3>1 DEF Granted
    <3>. QED
      BY Zenon, <1>1, <1>2, <3>2 DEF Granted
  <2>3. Kept' /\ Unshared'
    BY Zenon, <1>1, <1>2 DEF Kept, Unshared, shared
  <2>4. Guarded'
    <3>1. ~(0 > now) /\ 0 <= now + LocalCap
      BY <1>2, ConstantsAssumption
    <3>. SUFFICES ASSUME NEW v \in Workers, NEW i \in Ips
                  PROVE  /\ i \notin raced /\ shield'[v][i] > now =>
                              /\ local'[v][i].expiry >= shield'[v][i]
                              /\ local'[v][i].born + LocalCap >= shield'[v][i]
                         /\ shield'[v][i] <= now + LocalCap
      BY Zenon, <1>1, <1>2 DEF Guarded
    <3>2. CASE v = w /\ i = ip
      BY Zenon, <1>4, <3>1, <3>2
    <3>3. CASE v # w \/ i # ip
      BY Zenon, <1>2, <1>3, <1>4, <3>3 DEF Guarded
    <3>. QED
      BY Zenon, <3>2, <3>3
  <2>5. Lifted'
    <3>. SUFFICES ASSUME NEW i \in Ips \ raced, NEW v \in lifted'[i]
                  PROVE  local'[v][i] = Absent /\ redis[i].value = 0
      BY Zenon, <1>1 DEF Lifted
    <3>1. v \in Workers
      BY Zenon, <1>5
    <3>2. CASE v \in lifted[i]
      BY Zenon, <1>2, <1>3, <3>1, <3>2 DEF Lifted
    <3>3. CASE v = w /\ i = ip /\ ~shared
      <4>1. NoKey.value = 0
        BY Zenon DEF NoKey
      <4>. QED
        BY Zenon, <1>2, <1>3, <3>3, <4>1 DEF Unshared
    <3>. QED
      BY Zenon, <1>5, <3>2, <3>3
  <2>. QED
    BY Zenon, <2>1, <2>2, <2>3, <2>4, <2>5 DEF StateInv
<1>7. Onward({ip})
  <2>1. now >= now /\ \A i \in Ips : horizon[i] >= horizon[i]
    BY <1>2
  <2>. QED
    BY Zenon, <1>1, <1>4, <2>1 DEF Onward
<1>8. /\ t.op = "none" /\ t.pc = "idle"
      \/ /\ t.op = "unban" /\ t.pc = "del" /\ t.w = w /\ t.ip = ip /\ shared
  <2>1. shared \in BOOLEAN
    BY Zenon, <1>2, DeploymentParts
  <2>. QED
    BY Zenon, <2>1 DEF Idle
<1>9. task'[c] = t
  BY Zenon, <1>1 DEF Moves
<1>. HIDE DEF t
<1>10. CallOk(task[c])'
  BY Zenon, <1>1, <1>8, <1>9 DEF CallOk, IsCall, shared
<1>. QED
  BY Zenon, <1>1, <1>6, <1>7, <1>10, MovesKeep

\* Keys that go from Redis with the bans they held.
LEMMA KeysGone ==
  ASSUME StateInv, shared, NEW gone,
         redis' = [i \in Ips |-> IF i \in gone THEN NoKey ELSE redis[i]],
         until' = [i \in Ips |-> IF i \in gone THEN 0 ELSE until[i]],
         dep' = dep, now' = now, local' = local, nets' = nets, horizon' = horizon,
         shield' = shield, netShield' = netShield, raced' = raced,
         lifted' \in [Ips -> SUBSET Workers],
         \A i \in Ips : \A v \in lifted'[i] :
           v \in lifted[i] \/ (i \in gone /\ local[v][i] = Absent)
  PROVE  StateInv' /\ Onward(gone)
<1>1. Types /\ Granted /\ Kept /\ Guarded /\ Lifted /\ now \in Nat /\ horizon \in [Ips -> Nat]
  BY Zenon DEF StateInv, Types
<1>2. redis' \in [Ips -> [value: Nat, dies: Nat]] /\ until' \in [Ips -> Nat]
  BY Zenon, <1>1 DEF Types, NoKey
<1>3. \A i \in gone \cap Ips : redis'[i].value = 0 /\ until'[i] = 0
  BY Zenon DEF NoKey
<1>4. \A i \in Ips \ gone : redis'[i] = redis[i] /\ until'[i] = until[i]
  BY Zenon
<1>5. \A i \in Ips : 0 <= horizon[i] /\ ~(0 > now) /\ horizon[i] >= horizon[i] /\ now >= now
  BY <1>1
<1>6. Types'
  BY Zenon, <1>1, <1>2 DEF Types
<1>7. Granted'
  <2>1. \A i \in Ips : redis'[i].value <= horizon[i]
    BY Zenon, <1>1, <1>3, <1>4, <1>5 DEF Granted
  <2>. QED
    BY Zenon, <1>1, <2>1 DEF Granted
<1>8. Kept'
  <2>. SUFFICES ASSUME NEW i \in Ips \ raced, until'[i] > now
                PROVE  redis'[i].value = until'[i] /\ redis'[i].dies >= until'[i]
    BY Zenon DEF Kept
  <2>1. i \notin gone
    BY Zenon, <1>3, <1>5
  <2>. QED
    BY Zenon, <1>1, <1>4, <2>1 DEF Kept
<1>9. Guarded' /\ Unshared'
  BY Zenon, <1>1 DEF Guarded, Unshared, shared
<1>10. Lifted'
  <2>. SUFFICES ASSUME NEW i \in Ips \ raced, NEW v \in lifted'[i]
                PROVE  local[v][i] = Absent /\ redis'[i].value = 0
    BY Zenon DEF Lifted
  <2>1. CASE v \in lifted[i]
    BY Zenon, <1>1, <1>3, <1>4, <2>1 DEF Lifted
  <2>2. CASE i \in gone /\ local[v][i] = Absent
    BY Zenon, <1>3, <2>2
  <2>. QED
    BY Zenon, <2>1, <2>2
<1>11. Onward(gone)
  <2>1. now >= now
    BY <1>1
  <2>. QED
    BY Zenon, <1>4, <1>5, <2>1 DEF Onward
<1>. QED
  BY Zenon, <1>6, <1>7, <1>8, <1>9, <1>10, <1>11 DEF StateInv

\* The deletion of the key that unban_ip asked for.
LEMMA UnbanDeleteKeeps ==
  ASSUME IInv, NEW c \in Tasks, UnbanDelete(c)
  PROVE  IInv'
<1>. DEFINE ip == task[c].ip
            w == task[c].w
<1>1. /\ task[c].pc = "del"
      /\ redis' = [redis EXCEPT ![ip] = NoKey] /\ until' = [until EXCEPT ![ip] = 0]
      /\ lifted' = IF Present(w, ip) THEN lifted ELSE [lifted EXCEPT ![ip] = @ \cup {w}]
      /\ Moves(c, Idle, {ip})
      /\ dep' = dep /\ now' = now /\ local' = local /\ nets' = nets /\ horizon' = horizon
      /\ shield' = shield /\ netShield' = netShield /\ raced' = raced
  BY Zenon DEF UnbanDelete
<1>2. /\ StateInv /\ redis \in [Ips -> [value: Nat, dies: Nat]] /\ until \in [Ips -> Nat]
      /\ lifted \in [Ips -> SUBSET Workers]
  BY Zenon DEF IInv, StateInv, Types
<1>3. ip \in Ips /\ w \in Workers /\ shared
  BY Zenon, <1>1 DEF IInv, CallsOk, CallOk, IsCall
<1>. HIDE DEF ip, w
<1>4. /\ redis' = [i \in Ips |-> IF i \in {ip} THEN NoKey ELSE redis[i]]
      /\ until' = [i \in Ips |-> IF i \in {ip} THEN 0 ELSE until[i]]
  BY Zenon, <1>1, <1>2
<1>5. /\ lifted' \in [Ips -> SUBSET Workers]
      /\ \A i \in Ips : \A v \in lifted'[i] :
           v \in lifted[i] \/ (i \in {ip} /\ local[v][i] = Absent)
  BY Zenon, <1>1, <1>2, <1>3 DEF Present
<1>6. StateInv' /\ Onward({ip})
  BY Zenon, <1>1, <1>2, <1>3, <1>4, <1>5, KeysGone
<1>7. CallOk(task[c])'
  BY Zenon, <1>1, IdleIsOk DEF Moves
<1>. QED
  BY Zenon, <1>1, <1>6, <1>7, MovesKeep

\* The deletion of the keys that reset listed.
LEMMA ResetDeleteKeeps ==
  ASSUME IInv, NEW c \in Tasks, ResetDelete(c)
  PROVE  IInv'
<1>. DEFINE gone == task[c].keys
<1>1. /\ task[c].pc = "deleteKeys"
      /\ redis' = [i \in Ips |-> IF i \in gone THEN NoKey ELSE redis[i]]
      /\ until' = [i \in Ips |-> IF i \in gone THEN 0 ELSE until[i]]
      /\ Moves(c, Idle, Ips)
      /\ dep' = dep /\ now' = now /\ local' = local /\ nets' = nets /\ horizon' = horizon
      /\ shield' = shield /\ netShield' = netShield /\ raced' = raced /\ lifted' = lifted
  BY Zenon DEF ResetDelete
<1>2. StateInv /\ lifted \in [Ips -> SUBSET Workers]
  BY Zenon DEF IInv, StateInv, Types
<1>3. shared
  BY Zenon, <1>1 DEF IInv, CallsOk, CallOk, IsCall
<1>4. StateInv' /\ Onward(gone)
  BY Zenon, <1>1, <1>2, <1>3, KeysGone
<1>5. Onward(Ips)
  BY Zenon, <1>4 DEF Onward
<1>6. CallOk(task[c])'
  BY Zenon, <1>1, IdleIsOk DEF Moves
<1>. QED
  BY Zenon, <1>1, <1>4, <1>5, <1>6, MovesKeep

\* A worker that forgets its bans owes nothing for them.
LEMMA ClearedKeeps ==
  ASSUME StateInv, NEW w \in Workers, Cleared(w),
         UNCHANGED <<dep, now, redis, until, horizon, lifted, raced>>
  PROVE  StateInv' /\ \A changed : Onward(changed)
<1>1. /\ dep' = dep /\ now' = now /\ redis' = redis /\ until' = until /\ horizon' = horizon
      /\ lifted' = lifted /\ raced' = raced
  BY Zenon
<1>2. /\ Types /\ Granted /\ Kept /\ Guarded /\ Lifted /\ Unshared
      /\ now \in Nat /\ horizon \in [Ips -> Nat]
      /\ local \in [Workers -> [Ips -> [expiry: Nat, born: Nat]]]
      /\ nets \in [Workers -> SUBSET ((SUBSET Ips) \X Nat)]
      /\ shield \in [Workers -> [Ips -> Nat]] /\ netShield \in [Workers -> [Ips -> Nat]]
  BY Zenon DEF StateInv, Types
<1>3. /\ local' \in [Workers -> [Ips -> [expiry: Nat, born: Nat]]]
      /\ \A v \in Workers, i \in Ips : local'[v][i] = IF v = w THEN Absent ELSE local[v][i]
  BY Zenon, <1>2 DEF Cleared, Absent
<1>4. /\ nets' \in [Workers -> SUBSET ((SUBSET Ips) \X Nat)]
      /\ \A v \in Workers : nets'[v] = IF v = w THEN {} ELSE nets[v]
  BY Zenon, <1>2 DEF Cleared
<1>5. /\ shield' \in [Workers -> [Ips -> Nat]]
      /\ \A v \in Workers, i \in Ips : shield'[v][i] = IF v = w THEN 0 ELSE shield[v][i]
  BY Zenon, <1>2 DEF Cleared
<1>6. /\ netShield' \in [Workers -> [Ips -> Nat]]
      /\ \A v \in Workers, i \in Ips : netShield'[v][i] = IF v = w THEN 0 ELSE netShield[v][i]
  BY Zenon, <1>2 DEF Cleared
<1>7. /\ ~(0 > now) /\ 0 <= now /\ now >= now /\ 0 <= now + LocalCap /\ Absent.expiry = 0
      /\ \A i \in Ips : 0 <= horizon[i] /\ horizon[i] >= horizon[i]
  BY <1>2, ConstantsAssumption DEF Absent
<1>8. Types'
  BY Zenon, <1>1, <1>2, <1>3, <1>4, <1>5, <1>6 DEF Types
<1>9. Granted'
  <2>1. ASSUME NEW v \in Workers, NEW i \in Ips
        PROVE  /\ local'[v][i].expiry <= horizon[i]
               /\ \A n \in nets'[v] : i \in n[1] => n[2] <= horizon[i]
    BY Zenon, <1>2, <1>3, <1>4, <1>7 DEF Granted
  <2>. QED
    BY Zenon, <1>1, <1>2, <2>1 DEF Granted
<1>10. Kept' /\ Unshared'
  BY Zenon, <1>1, <1>2 DEF Kept, Unshared, shared
<1>11. Guarded'
  <2>. SUFFICES ASSUME NEW v \in Workers, NEW i \in Ips
                PROVE  /\ i \notin raced /\ shield'[v][i] > now =>
                            /\ local'[v][i].expiry >= shield'[v][i]
                            /\ local'[v][i].born + LocalCap >= shield'[v][i]
                       /\ shield'[v][i] <= now + LocalCap
                       /\ netShield'[v][i] > now =>
                            \E n \in nets'[v] : i \in n[1] /\ n[2] >= netShield'[v][i]
    BY Zenon, <1>1 DEF Guarded
  <2>1. CASE v = w
    BY Zenon, <1>5, <1>6, <1>7, <2>1
  <2>2. CASE v # w
    <3>1. /\ local'[v][i] = local[v][i] /\ nets'[v] = nets[v] /\ shield'[v][i] = shield[v][i]
          /\ netShield'[v][i] = netShield[v][i]
      BY Zenon, <1>3, <1>4, <1>5, <1>6, <2>2
    <3>. QED
      BY Zenon, <1>2, <3>1 DEF Guarded
  <2>. QED
    BY Zenon, <2>1, <2>2
<1>12. Lifted'
  <2>1. \A i \in Ips : lifted[i] \subseteq Workers
    BY Zenon, <1>2 DEF Types
  <2>. QED
    BY Zenon, <1>1, <1>2, <1>3, <2>1 DEF Lifted
<1>13. ASSUME NEW changed PROVE Onward(changed)
  BY Zenon, <1>1, <1>5, <1>6, <1>7 DEF Onward
<1>. QED
  BY Zenon, <1>8, <1>9, <1>10, <1>11, <1>12, <1>13 DEF StateInv

\* A step that no call takes: it ends some, moves none on and answers nothing.
LEMMA CallsLeftAlone ==
  ASSUME IInv, StateInv', Onward({}), DOMAIN task' = Tasks, reply' = NoReply,
         \A k \in Tasks : task'[k] = task[k] \/ task'[k] = Idle
  PROVE  IInv'
<1>1. ASSUME NEW k \in Tasks PROVE CallOk(task[k])'
  <2>1. CASE task'[k] = task[k]
    <3>1. Followed(k, {})
      BY Zenon, <2>1 DEF Followed
    <3>. QED
      BY Zenon, <3>1, CallFollows DEF IInv, StateInv, CallsOk
  <2>2. CASE task'[k] = Idle
    BY Zenon, <2>2, IdleIsOk
  <2>. QED
    BY Zenon, <2>1, <2>2
<1>. QED
  BY Zenon, <1>1, SilenceIsOk DEF IInv, CallsOk

\* reset before it awaits Redis.
LEMMA ResetKeeps ==
  ASSUME IInv, NEW c \in Tasks, NEW w \in Workers, Reset(c, w)
  PROVE  IInv'
<1>. DEFINE t == IF shared THEN [op |-> "reset", pc |-> "keys", w |-> w] ELSE Idle
<1>1. /\ Cleared(w) /\ Moves(c, t, Ips)
      /\ UNCHANGED <<dep, now, redis, until, horizon, lifted, raced>>
  BY Zenon DEF Reset
<1>2. StateInv' /\ Onward(Ips) /\ shared \in BOOLEAN
  BY Zenon, <1>1, ClearedKeeps, DeploymentParts DEF IInv, StateInv
<1>3. /\ t.op = "none" /\ t.pc = "idle"
      \/ /\ t.op = "reset" /\ t.pc = "keys" /\ shared
  BY Zenon, <1>2 DEF Idle
<1>4. task'[c] = t
  BY Zenon, <1>1 DEF Moves
<1>. HIDE DEF t
<1>5. CallOk(task[c])'
  BY Zenon, <1>1, <1>3, <1>4 DEF CallOk, IsCall, shared
<1>. QED
  BY Zenon, <1>1, <1>2, <1>5, MovesKeep

\* reset has listed the keys.
LEMMA ResetKeysKeeps ==
  ASSUME IInv, NEW c \in Tasks, ResetKeys(c)
  PROVE  IInv'
<1>. DEFINE t == [op |-> "reset", pc |-> "deleteKeys", w |-> task[c].w,
                  keys |-> {ip \in Ips : redis[ip] # NoKey}]
<1>1. task[c].pc = "keys" /\ Moves(c, t, {}) /\ UNCHANGED stored
  BY Zenon DEF ResetKeys, stored
<1>2. StateInv' /\ Onward({})
  BY Zenon, <1>1, StoredUntouched DEF IInv
<1>3. shared
  BY Zenon, <1>1 DEF IInv, CallsOk, CallOk, IsCall
<1>4. t.op = "reset" /\ t.pc = "deleteKeys"
  BY Zenon
<1>5. task'[c] = t /\ dep' = dep
  BY Zenon, <1>1 DEF Moves, stored
<1>. HIDE DEF t
<1>6. CallOk(task[c])'
  BY Zenon, <1>3, <1>4, <1>5 DEF CallOk, IsCall, shared
<1>. QED
  BY Zenon, <1>1, <1>2, <1>6, MovesKeep

\* A worker dies and comes back.
LEMMA RestartKeeps ==
  ASSUME IInv, NEW w \in Workers, Restart(w)
  PROVE  IInv'
<1>1. StateInv' /\ Onward({})
  BY Zenon, ClearedKeeps DEF Restart, IInv
<1>2. /\ DOMAIN task' = Tasks /\ reply' = NoReply
      /\ \A k \in Tasks : task'[k] = task[k] \/ task'[k] = Idle
  BY Zenon DEF Restart
<1>. QED
  BY Zenon, <1>1, <1>2, CallsLeftAlone

\* Time passes: an entry leaves a cache, and a key leaves Redis, no earlier
\* than the ban it stands for runs out.
LEMMA TickKeeps ==
  ASSUME IInv, Tick
  PROVE  IInv'
<1>1. /\ dep' = dep /\ nets' = nets /\ task' = task /\ horizon' = horizon /\ lifted' = lifted
      /\ raced' = raced /\ reply' = NoReply /\ now' = now + 1
  BY Zenon DEF Tick
<1>2. /\ Types /\ Granted /\ Kept /\ Guarded /\ Lifted /\ Unshared
      /\ now \in Nat /\ now >= 1 /\ horizon \in [Ips -> Nat]
      /\ local \in [Workers -> [Ips -> [expiry: Nat, born: Nat]]]
      /\ redis \in [Ips -> [value: Nat, dies: Nat]] /\ until \in [Ips -> Nat]
      /\ shield \in [Workers -> [Ips -> Nat]] /\ netShield \in [Workers -> [Ips -> Nat]]
  BY Zenon DEF IInv, StateInv, Types
<1>3. /\ local' \in [Workers -> [Ips -> [expiry: Nat, born: Nat]]]
      /\ \A v \in Workers, i \in Ips :
           /\ local'[v][i] = local[v][i] \/ local'[v][i] = Absent
           /\ now' < local[v][i].born + LocalCap => local'[v][i] = local[v][i]
  BY Zenon, <1>2 DEF Tick, Absent
<1>4. /\ redis' \in [Ips -> [value: Nat, dies: Nat]]
      /\ \A i \in Ips : /\ redis'[i] = redis[i] \/ redis'[i] = NoKey
                        /\ now' < redis[i].dies => redis'[i] = redis[i]
  BY Zenon, <1>2 DEF Tick, NoKey
<1>5. /\ until' \in [Ips -> Nat]
      /\ \A i \in Ips : until'[i] = 0 \/ (until'[i] = until[i] /\ until[i] > now + 1)
  BY Zenon, <1>2 DEF Tick, Ahead
<1>6. /\ shield' \in [Workers -> [Ips -> Nat]]
      /\ \A v \in Workers, i \in Ips :
           shield'[v][i] = 0 \/ (shield'[v][i] = shield[v][i] /\ shield[v][i] > now + 1)
  BY Zenon, <1>2 DEF Tick, Ahead
<1>7. /\ netShield' \in [Workers -> [Ips -> Nat]]
      /\ \A v \in Workers, i \in Ips :
           netShield'[v][i] = 0 \/ (netShield'[v][i] = netShield[v][i] /\ netShield[v][i] > now + 1)
  BY Zenon, <1>2 DEF Tick, Ahead
<1>8. now' \in Nat /\ now' >= 1 /\ now' >= now /\ Absent.expiry = 0 /\ NoKey.value = 0
  BY <1>1, <1>2 DEF Absent, NoKey
<1>9. /\ \A i \in Ips : 0 <= horizon[i] /\ horizon[i] >= horizon[i]
      /\ 0 <= now' /\ ~(0 > now') /\ 0 <= now' + LocalCap /\ LocalCap \in Nat
  <2>1. LocalCap \in Nat
    BY Zenon, ConstantsAssumption
  <2>2. \A i \in Ips : 0 <= horizon[i] /\ horizon[i] >= horizon[i]
    BY <1>2
  <2>3. 0 <= now' /\ ~(0 > now') /\ 0 <= now' + LocalCap
    <3>1. \A m \in Nat, k \in Nat : 0 <= m /\ ~(0 > m) /\ 0 <= m + k
      OBVIOUS
    <3>. QED
      BY Zenon, <1>8, <2>1, <3>1
  <2>. QED
    BY Zenon, <2>1, <2>2, <2>3
<1>10. StateInv'
  <2>1. Types'
    <3>1. /\ local' \in [Workers -> [Ips -> [expiry: Nat, born: Nat]]]
          /\ redis' \in [Ips -> [value: Nat, dies: Nat]] /\ until' \in [Ips -> Nat]
          /\ shield' \in [Workers -> [Ips -> Nat]] /\ netShield' \in [Workers -> [Ips -> Nat]]
          /\ now' \in Nat /\ now' >= 1
      BY Zenon, <1>3, <1>4, <1>5, <1>6, <1>7, <1>8
    <3>. QED
      BY Zenon, <1>1, <1>2, <3>1 DEF Types
  <2>2. Granted'
    <3>1. \A i \in Ips : redis'[i].value <= horizon[i]
      BY Zenon, <1>2, <1>4, <1>8, <1>9 DEF Granted
    <3>2. \A v \in Workers, i \in Ips : local'[v][i].expiry <= horizon[i]
      BY Zenon, <1>2, <1>3, <1>8, <1>9 DEF Granted
    <3>. QED
      BY Zenon, <1>1, <1>2, <3>1, <3>2 DEF Granted
  <2>3. Kept'
    <3>. SUFFICES ASSUME NEW i \in Ips \ raced, until'[i] > now'
                  PROVE  redis'[i].value = until'[i] /\ redis'[i].dies >= until'[i]
      BY Zenon, <1>1 DEF Kept
    <3>1. until'[i] = until[i] /\ until[i] > now + 1
      BY Zenon, <1>5, <1>9
    <3>2. until[i] > now /\ until[i] \in Nat /\ redis[i].dies \in Nat
      BY <1>2, <3>1
    <3>3. redis[i].value = until[i] /\ redis[i].dies >= until[i]
      BY Zenon, <1>2, <3>2 DEF Kept
    <3>4. now' < redis[i].dies
      BY <1>1, <1>2, <3>1, <3>2, <3>3
    <3>. QED
      BY Zenon, <1>4, <3>1, <3>3, <3>4
  <2>4. Guarded'
    <3>. SUFFICES ASSUME NEW v \in Workers, NEW i \in Ips
                  PROVE  /\ i \notin raced /\ shield'[v][i] > now' =>
                              /\ local'[v][i].expiry >= shield'[v][i]
                              /\ local'[v][i].born + LocalCap >= shield'[v][i]
                         /\ shield'[v][i] <= now' + LocalCap
                         /\ netShield'[v][i] > now' =>
                              \E n \in nets[v] : i \in n[1] /\ n[2] >= netShield'[v][i]
      BY Zenon, <1>1 DEF Guarded
    <3>1. shield[v][i] \in Nat /\ netShield[v][i] \in Nat /\ local[v][i].born \in Nat
      BY <1>2
    <3>2. /\ i \notin raced /\ shield[v][i] > now =>
               /\ local[v][i].expiry >= shield[v][i]
               /\ local[v][i].born + LocalCap >= shield[v][i]
          /\ shield[v][i] <= now + LocalCap
          /\ netShield[v][i] > now => \E n \in nets[v] : i \in n[1] /\ n[2] >= netShield[v][i]
      BY Zenon, <1>2 DEF Guarded
    <3>3. shield'[v][i] <= now' + LocalCap
      BY <1>1, <1>2, <1>6, <1>9, <3>1, <3>2
    <3>4. ASSUME i \notin raced, shield'[v][i] > now'
          PROVE  /\ local'[v][i].expiry >= shield'[v][i]
                 /\ local'[v][i].born + LocalCap >= shield'[v][i]
      <4>1. shield'[v][i] = shield[v][i] /\ shield[v][i] > now + 1
        BY Zenon, <1>6, <1>9, <3>4
      <4>2. shield[v][i] > now
        BY <1>2, <3>1, <4>1
      <4>3. now' < local[v][i].born + LocalCap
        BY <1>1, <1>2, <1>9, <3>1, <3>2, <3>4, <4>1, <4>2
      <4>. QED
        BY Zenon, <1>3, <3>2, <3>4, <4>1, <4>2, <4>3
    <3>5. ASSUME netShield'[v][i] > now'
          PROVE  \E n \in nets[v] : i \in n[1] /\ n[2] >= netShield'[v][i]
      <4>1. netShield'[v][i] = netShield[v][i] /\ netShield[v][i] > now + 1
        BY Zenon, <1>7, <1>9, <3>5
      <4>2. netShield[v][i] > now
        BY <1>2, <3>1, <4>1
      <4>. QED
        BY Zenon, <3>2, <4>1, <4>2
    <3>. QED
      BY Zenon, <3>3, <3>4, <3>5
  <2>5. Lifted'
    <3>1. \A i \in Ips : lifted[i] \subseteq Workers
      BY Zenon, <1>2 DEF Types
    <3>2. /\ \A v \in Workers, i \in Ips : local[v][i] = Absent => local'[v][i] = Absent
          /\ \A i \in Ips : redis[i].value = 0 => redis'[i].value = 0
      BY Zenon, <1>3, <1>4, <1>8
    <3>. QED
      BY Zenon, <1>1, <1>2, <3>1, <3>2 DEF Lifted
  <2>6. Unshared'
    <3>1. ~(0 > now + 1)
      BY <1>2
    <3>. QED
      BY Zenon, <1>1, <1>2, <1>4, <1>5, <3>1 DEF Unshared, shared
  <2>. QED
    BY Zenon, <2>1, <2>2, <2>3, <2>4, <2>5, <2>6 DEF StateInv
<1>11. Onward({})
  <2>1. ASSUME NEW i \in Ips, NEW v \in Workers
        PROVE  /\ shield[v][i] <= now => shield'[v][i] <= now'
               /\ netShield[v][i] <= now => netShield'[v][i] <= now'
    <3>1. /\ shield'[v][i] = 0 \/ (shield'[v][i] = shield[v][i] /\ shield[v][i] > now + 1)
          /\ netShield'[v][i] = 0
             \/ (netShield'[v][i] = netShield[v][i] /\ netShield[v][i] > now + 1)
      BY Zenon, <1>6, <1>7
    <3>2. now \in Nat /\ shield[v][i] \in Nat /\ netShield[v][i] \in Nat
      BY Zenon, <1>2
    <3>. QED
      BY <1>9, <3>1, <3>2
  <2>2. \A i \in Ips : until'[i] > now' => until'[i] = until[i]
    BY Zenon, <1>5, <1>9
  <2>. QED
    BY Zenon, <1>1, <1>8, <1>9, <2>1, <2>2 DEF Onward
<1>. QED
  BY Zenon, <1>1, <1>10, <1>11, CallsLeftAlone DEF IInv, CallsOk
-----------------------------------------------------------------------------
(* Every step keeps the invariant. *)

LEMMA InitHolds ==
  ASSUME Init
  PROVE  IInv
<1>1. /\ local \in [Workers -> [Ips -> [expiry: Nat, born: Nat]]]
      /\ redis \in [Ips -> [value: Nat, dies: Nat]]
      /\ \A w \in Workers, ip \in Ips : local[w][ip] = Absent /\ local[w][ip].expiry = 0
      /\ \A ip \in Ips : redis[ip] = NoKey /\ redis[ip].value = 0
  BY Zenon DEF Init, Absent, NoKey
<1>2. Types
  BY <1>1 DEF Init, Types
<1>3. Granted /\ Kept /\ Lifted /\ Unshared
  BY <1>1 DEF Init, Granted, Kept, Lifted, Unshared
<1>4. Guarded
  <2>1. now = 1 /\ \A w \in Workers, ip \in Ips : shield[w][ip] = 0 /\ netShield[w][ip] = 0
    BY Zenon DEF Init
  <2>2. ~(0 > 1) /\ 0 <= 1 + LocalCap
    BY ConstantsAssumption
  <2>. QED
    BY Zenon, <2>1, <2>2 DEF Guarded
<1>5. CallsOk
  <2>1. Idle.op = "none" /\ Idle.pc = "idle"
    BY Zenon DEF Idle
  <2>2. DOMAIN task = Tasks /\ \A c \in Tasks : task[c] = Idle
    BY Zenon DEF Init
  <2>. QED
    BY Zenon, <2>1, <2>2 DEF CallsOk, CallOk, IsCall
<1>6. ReplyOk
  <2>1. reply = NoReply /\ reply.res = FALSE
    BY Zenon DEF Init, NoReply
  <2>. QED
    BY Zenon, <2>1 DEF ReplyOk, BansEnd, BanIsFound, BanSeenEverywhere, LocalProtection
<1>. QED
  BY Zenon, <1>2, <1>3, <1>4, <1>5, <1>6 DEF IInv, StateInv

LEMMA ProceedKeeps ==
  ASSUME IInv, Proceed
  PROVE  IInv'
<1>1. /\ dep.workers \subseteq Workers /\ dep.ips \subseteq Ips
      /\ dep.networks \subseteq SUBSET Ips /\ dep.tasks \subseteq Tasks
  BY Zenon, DeploymentParts DEF IInv, StateInv
<1>2. ASSUME NEW c \in Tasks, Begin(c) PROVE IInv'
  <2>1. PICK w \in Workers :
          \/ \E ip \in Ips : \/ \E d \in Durations : BanIp(c, w, ip, d)
                             \/ CheckLocal(c, w, ip)
                             \/ CheckNetworks(c, w, ip)
                             \/ UnbanIp(c, w, ip)
          \/ \E n \in SUBSET Ips, d \in Durations : BanCidr(c, w, n, d)
          \/ Reset(c, w)
    BY Zenon, <1>1, <1>2 DEF Begin
  <2>. QED
    BY Zenon, <2>1, BanIpKeeps, CheckLocalKeeps, CheckNetworksKeeps, UnbanIpKeeps, BanCidrKeeps,
       ResetKeeps
<1>3. ASSUME NEW c \in Tasks, Continue(c) PROVE IInv'
  <2>1. CASE CheckFails(c) \/ UnbanFails(c)
    <3>1. Moves(c, Idle, {}) /\ UNCHANGED stored
      BY Zenon, <2>1 DEF CheckFails, UnbanFails, stored
    <3>. QED
      BY Zenon, <3>1, GivenUpKeeps
  <2>. QED
    BY Zenon, <1>3, <2>1, BanStoreKeeps, BanStoreFailsKeeps, CheckGetKeeps, AnyReplyKeeps,
       CheckDeleteKeeps, UnbanDeleteKeeps, ResetKeysKeeps, ResetDeleteKeeps DEF Continue
<1>. QED
  BY Zenon, <1>1, <1>2, <1>3, RestartKeeps, TickKeeps DEF Proceed

LEMMA NextKeeps ==
  ASSUME IInv, [Next]_vars
  PROVE  IInv'
<1>1. CASE Deliver
  <2>1. UNCHANGED stored /\ task' = task /\ reply' = NoReply
    BY Zenon, <1>1 DEF Deliver, stored
  <2>2. StateInv' /\ Onward({})
    BY Zenon, <2>1, StoredUntouched DEF IInv
  <2>. QED
    BY Zenon, <2>1, <2>2, CallsLeftAlone DEF IInv, CallsOk
<1>2. CASE Proceed
  BY Zenon, <1>2, ProceedKeeps
<1>3. CASE UNCHANGED vars
  <2>1. /\ UNCHANGED stored /\ task' = task /\ reply' = reply
        /\ until' = until /\ now' = now /\ horizon' = horizon /\ shield' = shield
        /\ netShield' = netShield /\ raced' = raced
    BY Zenon, <1>3 DEF vars, stored, history
  <2>2. StateInv' /\ Onward({})
    BY Zenon, <2>1, StoredUntouched DEF IInv
  <2>3. ReplyOk'
    BY Zenon, <2>1 DEF IInv, ReplyOk, BansEnd, BanIsFound, BanSeenEverywhere, LocalProtection
  <2>4. ASSUME NEW k \in Tasks PROVE CallOk(task[k])'
    <3>1. Followed(k, {})
      BY Zenon, <2>1 DEF Followed
    <3>. QED
      BY Zenon, <2>2, <3>1, CallFollows DEF IInv, StateInv, CallsOk
  <2>. QED
    BY Zenon, <2>1, <2>2, <2>3, <2>4 DEF IInv, CallsOk
<1>. QED
  BY Zenon, <1>1, <1>2, <1>3 DEF Next

\* Every reachable state is in order.
LEMMA Invariance == Spec => []IInv
<1>1. Init => IInv
  BY Zenon, InitHolds
<1>2. IInv /\ [Next]_vars => IInv'
  BY Zenon, NextKeeps
<1>. QED
  BY <1>1, <1>2, PTL DEF Spec

\* ban_ip's key outlives the ban: until it runs out, is lifted or is replaced by
\* a lookup's late reply, Redis holds the last ban's expiry.
THEOREM BansPersist == Spec => []BanPersists
<1>1. IInv => BanPersists
  BY Zenon DEF IInv, StateInv, Kept, BanPersists, Stored
<1>. QED
  BY <1>1, Invariance, PTL

\* is_ip_banned answers True for a ban in force whenever no change to the
\* address overlaps the lookup: on every worker while Redis holds the ban, and
\* on the worker that imposed it whatever Redis does.
THEOREM BansAreFound == Spec => []BanIsFound
<1>1. IInv => BanIsFound
  BY Zenon DEF IInv, ReplyOk
<1>. QED
  BY <1>1, Invariance, PTL

\* is_ip_banned never answers True beyond the latest expiry granted: neither
\* promotion from Redis nor the clamped fallback extends a ban.
THEOREM BansRunOut == Spec => []BansEnd
<1>1. IInv => BansEnd
  BY Zenon DEF IInv, ReplyOk
<1>. QED
  BY <1>1, Invariance, PTL

\* After unban_ip the address is in neither the worker's cache nor Redis, until
\* the next ban or a lookup that stores what it read before the deletion.
THEOREM UnbansStick == Spec => []UnbanSticksUnlessRaced
<1>1. IInv => UnbanSticksUnlessRaced
  BY Zenon DEF IInv, StateInv, Lifted, UnbanSticksUnlessRaced, Present, Stored
<1>. QED
  BY <1>1, Invariance, PTL
=============================================================================
