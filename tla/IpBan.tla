-------------------------------- MODULE IpBan --------------------------------
(***************************************************************************)
(* IPBanManager: temporary bans of addresses and networks, kept in a local *)
(* TTL cache per worker process and shared through Redis.                  *)
(*                                                                         *)
(* A task is one call of ban_ip, is_ip_banned, unban_ip or reset on one    *)
(* worker. A call is split where it awaits Redis: what it does before the  *)
(* await, the command at the server, and what it does with the reply.      *)
(* Addresses are canonical (canonicalize_ip); loopback and trusted-proxy   *)
(* targets, which ban_ip refuses, form the constant Refused.               *)
(***************************************************************************)
EXTENDS Integers, FiniteSets

CONSTANTS Workers,      \* processes, each with its own IPBanManager
          Ips,          \* canonical addresses
          Networks,     \* CIDR networks, as the sets of addresses they hold
          Refused,      \* addresses _self_dos_refusal_reason refuses
          Tasks,        \* concurrent calls
          Durations,    \* ban durations, in ticks
          LocalCap,     \* LOCAL_CACHE_TTL_CAP_SECONDS
          CacheSize,    \* maxsize of the local TTLCache
          Deployments,  \* the deployments considered: whether redis_handler is
                        \* configured, and which of the above take part
          RedisFails,   \* Redis commands may raise
          Latency,      \* time may pass while a Redis command is under way
          MaxTime       \* bound on the clock

ASSUME ConstantsAssumption ==
  /\ Refused \subseteq Ips
  /\ Networks \subseteq SUBSET Ips
  /\ Durations \subseteq Nat \ {0}
  /\ LocalCap \in Nat \ {0} /\ CacheSize \in Nat \ {0} /\ MaxTime \in Nat
  /\ Deployments \subseteq
       [redis: BOOLEAN, workers: SUBSET Workers, ips: SUBSET Ips,
        networks: SUBSET Networks, tasks: SUBSET Tasks]
  /\ {RedisFails, Latency} \subseteq BOOLEAN

VARIABLES
  dep,      \* the deployment; chosen once
  now,      \* time.time(); the TTLCache's timer runs with it
  local,    \* banned_ips of each worker: expiry and insertion time, 0 if absent
  nets,     \* banned_networks of each worker: pairs of network and expiry
  redis,    \* banned_ips:<ip> in Redis: the stored expiry, and when the key dies
  task,     \* the calls under way
  reply,    \* the answer is_ip_banned has just given, if it has
  until,    \* history: expiry of the last ban Redis took and nothing lifted
  horizon,  \* history: the latest expiry ever granted to each address
  shield,   \* history: how long a worker's own ban must protect it
  netShield,\* history: how long a worker's own network bans must protect it
  lifted,   \* history: workers whose unban is the last thing said of an address
  raced     \* history: addresses on which a lookup's reply replaced newer state

vars == <<dep, now, local, nets, redis, task, reply, until, horizon, shield,
          netShield, lifted, raced>>
history == <<until, horizon, shield, netShield, lifted, raced>>

Absent == [expiry |-> 0, born |-> 0]
NoKey == [value |-> 0, dies |-> 0]
Idle == [op |-> "none", pc |-> "idle"]
NoReply == [res |-> FALSE]
Larger(a, b) == IF a > b THEN a ELSE b

Present(w, ip) == local[w][ip] # Absent
Stored(ip) == redis[ip].value

\* redis_handler is not None.
shared == dep.redis

Clamp(d) == IF d <= LocalCap THEN d ELSE LocalCap

Init ==
  /\ dep \in Deployments
  /\ now = 1
  /\ local = [w \in Workers |-> [ip \in Ips |-> Absent]]
  /\ nets = [w \in Workers |-> {}]
  /\ redis = [ip \in Ips |-> NoKey]
  /\ task = [c \in Tasks |-> Idle]
  /\ reply = NoReply
  /\ until = [ip \in Ips |-> 0]
  /\ horizon = [ip \in Ips |-> 0]
  /\ shield = [w \in Workers |-> [ip \in Ips |-> 0]]
  /\ netShield = shield
  /\ lifted = [ip \in Ips |-> {}]
  /\ raced = {}

\* The caches of worker w after banned_ips[ip] = e: entries past their TTL go,
\* and when the cache is full of others one of them is evicted.
Caches(w, ip, e) ==
  LET others == {i \in Ips \ {ip} : Present(w, i)}
      keeps == IF Cardinality(others) < CacheSize
                 THEN {others} ELSE {others \ {v} : v \in others}
  IN  {[i \in Ips |-> CASE i = ip -> [expiry |-> e, born |-> now]
                        [] i \in kept -> local[w][i]
                        [] OTHER -> Absent] : kept \in keeps}

\* An eviction ends the protection the evicted entry gave.
Insert(w, ip, e, guards) ==
  \E cache \in Caches(w, ip, e) :
    /\ local' = [local EXCEPT ![w] = cache]
    /\ shield' = [shield EXCEPT ![w] = [i \in Ips |->
         CASE i = ip -> guards [] cache[i] = Absent -> 0 [] OTHER -> @[i]]]

Ready(c) == task[c].pc = "idle"
Changing(ip) ==
  \E c \in Tasks : \/ task[c].op \in {"ban", "unban"} /\ task[c].ip = ip
                   \/ task[c].op = "reset"

\* Call c moves on to t. When it changes what is known of some addresses, the
\* lookups of these under way are no longer calm.
Moves(c, t, changed) ==
  /\ task' = [k \in Tasks |->
       CASE k = c -> t
         [] k # c /\ task[k].op = "check" /\ task[k].ip \in changed ->
              [task[k] EXCEPT !.calm = FALSE]
         [] OTHER -> task[k]]
  /\ reply' = NoReply
-----------------------------------------------------------------------------
(* ban_ip -> _ban_exact_ip *)

BanIp(c, w, ip, d) ==
  /\ Ready(c) /\ ip \notin Refused
  /\ LET e == now + (IF shared THEN d ELSE Clamp(d))
     IN  /\ Insert(w, ip, e, now + Clamp(d))
         /\ Moves(c, IF ~shared THEN Idle
                     ELSE [op |-> "ban", pc |-> "set", w |-> w, ip |-> ip, d |-> d, exp |-> e],
                  {ip})
         /\ horizon' = [horizon EXCEPT ![ip] = Larger(@, e)]
         /\ lifted' = [lifted EXCEPT ![ip] = {}]
  /\ UNCHANGED <<dep, now, nets, redis, until, netShield, raced>>

\* The key as set_key("banned_ips", ip, str(expiry), ttl=duration) leaves it.
Put(t, ttl) ==
  /\ redis' = [redis EXCEPT ![t.ip] = [value |-> t.exp, dies |-> now + ttl]]
  /\ until' = [until EXCEPT ![t.ip] = t.exp]

\* Variant: the key's TTL is one short of the ban.
BanStoreShort(c) ==
  /\ task[c].pc = "set"
  /\ LET t == task[c] IN
       /\ Put(t, t.d - 1)
       /\ lifted' = [lifted EXCEPT ![t.ip] = {}]
       /\ Moves(c, Idle, {t.ip})
  /\ UNCHANGED <<dep, now, local, nets, horizon, shield, netShield, raced>>

BanStore(c) ==
  /\ task[c].pc = "set"
  /\ LET t == task[c] IN
       /\ Put(t, t.d)
       /\ lifted' = [lifted EXCEPT ![t.ip] = {}]
       /\ Moves(c, Idle, {t.ip})
  /\ UNCHANGED <<dep, now, local, nets, horizon, shield, netShield, raced>>

\* Variant: a failed store takes the local entry back.
BanRolledBack(c) ==
  /\ RedisFails
  /\ task[c].pc = "set"
  /\ local' = [local EXCEPT ![task[c].w][task[c].ip] = Absent]
  /\ Moves(c, Idle, {})
  /\ UNCHANGED <<dep, now, nets, redis, history>>

\* The command raised, applied at the server or not: the ban is made local.
BanStoreFails(c) ==
  /\ RedisFails
  /\ task[c].pc = "set"
  /\ LET t == task[c]
         e == now + Clamp(t.d)
     IN  /\ Put(t, t.d) \/ UNCHANGED <<redis, until>>
         /\ Insert(t.w, t.ip, e, e)
         /\ horizon' = [horizon EXCEPT ![t.ip] = Larger(@, e)]
         /\ lifted' = [lifted EXCEPT ![t.ip] = {}]
         /\ Moves(c, Idle, {t.ip})
  /\ UNCHANGED <<dep, now, nets, netShield, raced>>

(* ban_ip -> _ban_cidr: with Redis the network goes to the banned_networks
   keys, which nothing reads back; only the fallback list is enforced. *)

BanCidr(c, w, n, d) ==
  /\ Ready(c) /\ n \cap Refused = {}
  /\ \/ /\ shared
        /\ UNCHANGED <<nets, horizon, netShield>>
     \/ /\ ~shared \/ RedisFails
        /\ LET e == now + Clamp(d) IN
             /\ nets' = [nets EXCEPT ![w] = @ \cup {<<n, e>>}]
             /\ horizon' = [ip \in Ips |->
                  IF ip \in n THEN Larger(horizon[ip], e) ELSE horizon[ip]]
             /\ netShield' = [netShield EXCEPT ![w] = [ip \in Ips |->
                  IF ip \in n THEN Larger(@[ip], e) ELSE @[ip]]]
  /\ Moves(c, Idle, n)
  /\ UNCHANGED <<dep, now, local, redis, until, shield, lifted, raced>>
-----------------------------------------------------------------------------
(* is_ip_banned *)

Answer(c, w, ip, t0, res, calm, expired) ==
  /\ task' = [task EXCEPT ![c] = Idle]
  /\ reply' = [w |-> w, ip |-> ip, t0 |-> t0, res |-> res, calm |-> calm,
               expired |-> expired]

\* A local entry decides; an expired one is purged and the answer is False.
CheckLocal(c, w, ip) ==
  /\ Ready(c) /\ Present(w, ip)
  /\ LET expired == now > local[w][ip].expiry
     IN  /\ local' = IF expired THEN [local EXCEPT ![w][ip] = Absent] ELSE local
         /\ Answer(c, w, ip, now, ~expired, ~Changing(ip), expired)
  /\ UNCHANGED <<dep, now, nets, redis, history>>

\* _check_network_cache drops expired networks and looks in the others.
CheckNetworks(c, w, ip) ==
  /\ Ready(c) /\ ~Present(w, ip)
  /\ nets' = [nets EXCEPT ![w] = {n \in @ : n[2] > now}]
  /\ LET hit == \E n \in nets'[w] : ip \in n[1]
     IN  IF hit \/ ~shared
           THEN Answer(c, w, ip, now, hit, ~Changing(ip), FALSE)
           ELSE Moves(c, [op |-> "check", pc |-> "get", w |-> w, ip |-> ip,
                          t0 |-> now, calm |-> ~Changing(ip), val |-> 0], {})
  /\ UNCHANGED <<dep, now, local, redis, history>>

\* get_key at the server; the reply is used in a later step.
CheckGet(c) ==
  /\ task[c].pc = "get"
  /\ Moves(c, [task[c] EXCEPT !.pc = "reply", !.val = Stored(task[c].ip)], {})
  /\ UNCHANGED <<dep, now, local, nets, redis, history>>

\* History: the lookup puts what it read in the place of something newer.
Outdated(t) ==
  raced' = IF Stored(t.ip) = t.val /\ local[t.w][t.ip].expiry <= t.val
             THEN raced ELSE raced \cup {t.ip}

\* Variant: a ban read from Redis is cached for the whole local lifetime.
PromotedWhole(t) == now + LocalCap

\* The expiry under which a ban found in Redis is cached locally.
Promoted(t) == t.val

\* Variant: a ban that outlasts the local cache is not seen.
NotFoundLong(t) == t.val = 0 \/ t.val > now + LocalCap

NotFound(t) == t.val = 0

CheckReply(c) ==
  /\ task[c].pc = "reply"
  /\ LET t == task[c] IN
       \/ /\ NotFound(t)
          /\ Answer(c, t.w, t.ip, t.t0, FALSE, t.calm, FALSE)
          /\ UNCHANGED <<local, shield, raced>>
       \/ /\ ~NotFound(t) /\ t.t0 <= t.val
          /\ Insert(t.w, t.ip, Promoted(t), shield[t.w][t.ip])
          /\ Answer(c, t.w, t.ip, t.t0, TRUE, t.calm, FALSE)
          /\ Outdated(t)
       \/ /\ ~NotFound(t) /\ t.t0 > t.val
          /\ Moves(c, [t EXCEPT !.pc = "delete"], {})
          /\ UNCHANGED <<local, shield, raced>>
  /\ UNCHANGED <<dep, now, nets, redis, until, horizon, netShield, lifted>>

CheckDelete(c) ==
  /\ task[c].pc = "delete"
  /\ LET t == task[c] IN
       /\ Outdated(t)
       /\ redis' = [redis EXCEPT ![t.ip] = NoKey]
       /\ Answer(c, t.w, t.ip, t.t0, FALSE, t.calm, FALSE)
  /\ UNCHANGED <<dep, now, local, nets, until, horizon, shield, netShield, lifted>>

\* A Redis error leaves is_ip_banned with an exception and no answer.
CheckFails(c) ==
  /\ RedisFails
  /\ task[c].pc \in {"get", "delete"}
  /\ Moves(c, Idle, {})
  /\ UNCHANGED <<dep, now, local, nets, redis, history>>
-----------------------------------------------------------------------------
(* unban_ip and reset *)

UnbanIp(c, w, ip) ==
  /\ Ready(c)
  /\ local' = [local EXCEPT ![w][ip] = Absent]
  /\ shield' = [shield EXCEPT ![w][ip] = 0]
  /\ Moves(c, IF shared THEN [op |-> "unban", pc |-> "del", w |-> w, ip |-> ip] ELSE Idle,
           {ip})
  /\ lifted' = IF shared THEN lifted ELSE [lifted EXCEPT ![ip] = @ \cup {w}]
  /\ UNCHANGED <<dep, now, nets, redis, until, horizon, netShield, raced>>

\* Variant: the key is left in Redis.
UnbanKeepsKey(c) ==
  /\ task[c].pc = "del"
  /\ lifted' = [lifted EXCEPT ![task[c].ip] = @ \cup {task[c].w}]
  /\ Moves(c, Idle, {})
  /\ UNCHANGED <<dep, now, local, nets, redis, until, horizon, shield, netShield, raced>>

\* The deletion at the server. A ban that came in between is not lifted.
UnbanDelete(c) ==
  /\ task[c].pc = "del"
  /\ LET t == task[c] IN
       /\ redis' = [redis EXCEPT ![t.ip] = NoKey]
       /\ until' = [until EXCEPT ![t.ip] = 0]
       /\ lifted' = IF Present(t.w, t.ip) THEN lifted
                    ELSE [lifted EXCEPT ![t.ip] = @ \cup {t.w}]
       /\ Moves(c, Idle, {t.ip})
  /\ UNCHANGED <<dep, now, local, nets, horizon, shield, netShield, raced>>

UnbanFails(c) ==
  /\ RedisFails
  /\ task[c].pc = "del"
  /\ Moves(c, Idle, {})
  /\ UNCHANGED <<dep, now, local, nets, redis, history>>

\* Worker w's own memory of bans is emptied.
Cleared(w) ==
  /\ local' = [local EXCEPT ![w] = [ip \in Ips |-> Absent]]
  /\ nets' = [nets EXCEPT ![w] = {}]
  /\ shield' = [shield EXCEPT ![w] = [ip \in Ips |-> 0]]
  /\ netShield' = [netShield EXCEPT ![w] = [ip \in Ips |-> 0]]

Reset(c, w) ==
  /\ Ready(c)
  /\ Cleared(w)
  /\ Moves(c, IF shared THEN [op |-> "reset", pc |-> "keys", w |-> w] ELSE Idle, Ips)
  /\ UNCHANGED <<dep, now, redis, until, horizon, lifted, raced>>

\* conn.keys("banned_ips:*"), then conn.delete of the keys it listed.
ResetKeys(c) ==
  /\ task[c].pc = "keys"
  /\ Moves(c, [op |-> "reset", pc |-> "deleteKeys", w |-> task[c].w,
               keys |-> {ip \in Ips : redis[ip] # NoKey}], {})
  /\ UNCHANGED <<dep, now, local, nets, redis, history>>

ResetDelete(c) ==
  /\ task[c].pc = "deleteKeys"
  /\ redis' = [ip \in Ips |-> IF ip \in task[c].keys THEN NoKey ELSE redis[ip]]
  /\ until' = [ip \in Ips |-> IF ip \in task[c].keys THEN 0 ELSE until[ip]]
  /\ Moves(c, Idle, Ips)
  /\ UNCHANGED <<dep, now, local, nets, horizon, shield, netShield, lifted, raced>>

\* A time still to come, or 0.
Ahead(t) == IF t > now + 1 THEN t ELSE 0

(* A worker dies and comes back: its caches and its calls are gone. *)
Restart(w) ==
  /\ Cleared(w)
  /\ task' = [c \in Tasks |->
       IF task[c].op # "none" /\ task[c].w = w THEN Idle ELSE task[c]]
  /\ reply' = NoReply
  /\ UNCHANGED <<dep, now, redis, until, horizon, lifted, raced>>

\* Time passes: the TTLCache drops an entry LocalCap after its insertion, and
\* Redis a key when its TTL has run out. (What has passed leaves the histories.)
Tick ==
  /\ now < MaxTime
  /\ Latency \/ \A c \in Tasks : Ready(c)
  /\ now' = now + 1
  /\ local' = [w \in Workers |-> [ip \in Ips |->
       IF now' < local[w][ip].born + LocalCap THEN local[w][ip] ELSE Absent]]
  /\ redis' = [ip \in Ips |-> IF now' < redis[ip].dies THEN redis[ip] ELSE NoKey]
  /\ until' = [ip \in Ips |-> Ahead(until[ip])]
  /\ shield' = [w \in Workers |-> [ip \in Ips |-> Ahead(shield[w][ip])]]
  /\ netShield' = [w \in Workers |-> [ip \in Ips |-> Ahead(netShield[w][ip])]]
  /\ reply' = NoReply
  /\ UNCHANGED <<dep, nets, task, horizon, lifted, raced>>
-----------------------------------------------------------------------------
Begin(c) ==
  \E w \in dep.workers :
    \/ \E ip \in dep.ips : \/ \E d \in Durations : BanIp(c, w, ip, d)
                           \/ CheckLocal(c, w, ip)
                           \/ CheckNetworks(c, w, ip)
                           \/ UnbanIp(c, w, ip)
    \/ \E n \in dep.networks, d \in Durations : BanCidr(c, w, n, d)
    \/ Reset(c, w)

Continue(c) ==
  \/ BanStore(c) \/ BanStoreFails(c)
  \/ CheckGet(c) \/ CheckReply(c) \/ CheckDelete(c) \/ CheckFails(c)
  \/ UnbanDelete(c) \/ UnbanFails(c)
  \/ ResetKeys(c) \/ ResetDelete(c)

\* The caller takes the answer. That changes nothing a call reads, so it comes
\* before any other step.
Deliver ==
  /\ reply # NoReply
  /\ reply' = NoReply
  /\ UNCHANGED <<dep, now, local, nets, redis, task, history>>

Proceed ==
  \/ \E c \in dep.tasks : Begin(c) \/ Continue(c)
  \/ \E w \in dep.workers : Restart(w)
  \/ Tick

Next == Deliver \/ (reply = NoReply /\ Proceed)

Spec == Init /\ [][Next]_vars
-----------------------------------------------------------------------------
\* ban_ip stores the ban in Redis, and it stays there: until its expiry, an
\* unban or a reset, the key is alive and holds the last ban's expiry. Excepted
\* are addresses on which a lookup's late reply replaced newer state (raced).
BanPersists ==
  \A ip \in Ips \ raced : until[ip] > now => Stored(ip) = until[ip]

\* A lookup that no change to the address overlaps finds a ban in force on
\* whichever worker it runs. Excepted is the lookup that purges an expired
\* local entry: is_ip_banned then answers without asking Redis.
BanSeenEverywhere ==
  (/\ reply # NoReply
   /\ reply.calm /\ ~reply.expired /\ reply.ip \notin raced
   /\ until[reply.ip] > now)
  => reply.res

\* No address is called banned beyond the latest expiry ever granted to it:
\* promotion from Redis, clamping and the fallbacks never extend a ban.
BansEnd ==
  reply.res => reply.t0 <= horizon[reply.ip]

\* Whether Redis is absent, fails or works, the worker that banned an address
\* calls it banned for the duration, up to the local cap. So it does with the
\* addresses of a network when Redis is absent or failed; a network ban that
\* Redis accepted is read by no lookup. The lookup that purges an expired entry
\* of its own is excepted again.
LocalProtection ==
  (/\ reply # NoReply
   /\ reply.calm /\ ~reply.expired /\ reply.ip \notin raced
   /\ now < shield[reply.w][reply.ip] \/ now < netShield[reply.w][reply.ip])
  => reply.res

\* A ban in force is found: by every worker while Redis has it, and by the
\* worker that imposed it whatever Redis does.
BanIsFound == BanSeenEverywhere /\ LocalProtection

\* unban_ip removes the address from the local cache and from Redis, and no
\* lookup on that worker brings it back before the next ban, but for one that
\* read Redis before the deletion and stores what it read after it.
UnbanSticksUnlessRaced ==
  \A ip \in Ips \ raced : \A w \in lifted[ip] :
    (\A c \in Tasks : Ready(c)) => ~Present(w, ip) /\ Stored(ip) = 0
=============================================================================
