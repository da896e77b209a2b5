-------------------------- MODULE RateLimitProofs --------------------------
(***************************************************************************)
(* The rate limiter enforces its limits and blocks nobody without cause,   *)
(* for any clients, processes, requests, deployments and size of the       *)
(* store.                                                                  *)
(*                                                                         *)
(* A limit on what was admitted says nothing of what the counters hold, so *)
(* the invariant (Sound) relates the two: a sorted set has the stamp of    *)
(* every request it counted that can still matter, and a time to live that *)
(* outlasts it; a deque is in order and holds, since any time, as many     *)
(* stamps as requests were counted in it, no more ever and no fewer while  *)
(* they matter and the key was not dropped.  A window then holds no more   *)
(* admitted requests than were counted when its last one was.              *)
(***************************************************************************)
EXTENDS RateLimit, FiniteSetTheorems, TLAPS

\* The places of a sequence of stamps that are not before t.
Since(s, t) == {j \in DOMAIN s : s[j] >= t}

\* The requests a backend counted for a tier and a client, not before t.
From(k, i, b, t) == {r \in Counted(k, i, b) : req[r].ts[i] >= t}

\* Of those it counted, the ones it let pass, stamped in the window that ends at a time.
Passed(k, i, b, at) ==
  {r \in Counted(k, i, b) : /\ ~(req[r].verdict = "block" /\ req[r].tier = i)
                            /\ req[r].ts[i] \in (at - Tiers[i].window + 1)..at}

KeyOf(k, i) == <<k, Tiers[i].bucket>>
MemberOf(r, i) == IF Coarse THEN <<req[r].ts[i]>> ELSE <<req[r].ts[i], r, i>>

\* What a deployment must be: a bucket for each tier of a request, and with
\* Redis a clock whose readings differ.
Distinct == \A i, j \in TierIndex : Tiers[i].bucket = Tiers[j].bucket => i = j
Fine == UseRedis => ~Coarse

Pcs == {"new", "redis", "load", "retry", "memory", "done"}
RequestType ==
  [pc: Pcs, client: Clients \cup {None}, counter: Counters \cup {None}, tier: 0..Len(Tiers),
   ts: [TierIndex -> Nat], via: [TierIndex -> Backends \cup {None}],
   verdict: {None, "allow", "block", "error"}]

Entries == [key: Keys, stamps: Seq(Nat)]
Types ==
  /\ dep \in Deployments
  /\ now \in Nat \ {0}
  /\ req \in [Reqs -> RequestType]
  /\ zset = [k \in Keys |-> zset[k]]
  /\ ttl \in [Keys -> Nat]
  /\ mem \in [Counters -> Seq(Entries)]
  /\ evicted \in [Counters -> SUBSET Keys]

\* The tiers a request has entered are stamped and all but the one it is in are
\* counted; that one is stamped now, as nothing waits longer than a tick.
ProgressOf(r) ==
  /\ req[r].pc = "new" => req[r].tier = 0
  /\ req[r].pc # "new" =>
       req[r].tier \in TierIndex /\ req[r].client \in Clients /\ req[r].counter \in Counters
  /\ req[r].verdict # None => req[r].pc = "done"
  /\ req[r].pc \in {"redis", "load", "retry"} => UseRedis
  /\ InFlight(r) => Stamp(r) = now
  /\ \A i \in TierIndex :
       /\ req[r].ts[i] <= now
       /\ req[r].ts[i] # 0 <=> i <= req[r].tier
       /\ req[r].via[i] # None => i < req[r].tier \/ (i = req[r].tier /\ req[r].pc = "done")
Progress == \A r \in Reqs : ProgressOf(r)

\* A sorted set holds stamps of its client's requests only, and all that it
\* counted and that can still matter, for as long as they can.
Known(k, i) ==
  \A m \in zset[KeyOf(k, i)] :
    \E q \in Reqs : req[q].client = k /\ req[q].ts[i] # 0 /\ m = MemberOf(q, i)
Held(k, i) ==
  \A q \in Counted(k, i, "redis") :
    /\ ~Coarse
    /\ req[q].ts[i] + Tiers[i].window > now =>
         MemberOf(q, i) \in zset[KeyOf(k, i)]
         /\ ttl[KeyOf(k, i)] >= req[q].ts[i] + Tiers[i].window
SortedSets == \A k \in Clients, i \in TierIndex : Known(k, i) /\ Held(k, i)

OneEach(store) == \A x, y \in DOMAIN store : store[x].key = store[y].key => x = y

\* A deque is in order and has a stamp for each request counted in it, no more of
\* them since any time and, unless it was dropped, no fewer that can still matter.
DequeOk(c, k, i) ==
  LET s == Stamps(mem[c], KeyOf(k, i)) IN
    /\ \A x, y \in DOMAIN s : x < y => s[x] <= s[y]
    /\ \A x \in DOMAIN s : s[x] <= now
    /\ \A t \in Int : Cardinality(Since(s, t)) <= Cardinality(From(k, i, c, t))
    /\ KeyOf(k, i) \notin evicted[c] =>
         \A t \in Int : t + Tiers[i].window > now =>
           Cardinality(From(k, i, c, t)) <= Cardinality(Since(s, t))
Deques ==
  \A c \in Counters : OneEach(mem[c]) /\ \A k \in Clients, i \in TierIndex : DequeOk(c, k, i)

Kept(b, k, i) == b \in Counters => KeyOf(k, i) \notin evicted[b]

EnforcedAt(k, i, b) ==
  Kept(b, k, i) => \A at \in Int : Cardinality(Passed(k, i, b, at)) <= Tiers[i].limit
Enforced == \A k \in Clients, i \in TierIndex, b \in Backends : EnforcedAt(k, i, b)

Sound == Types /\ Progress /\ SortedSets /\ Deques /\ Enforced /\ BlockedOnlyOverLimit
RateInv == Distinct /\ Fine => Sound

-----------------------------------------------------------------------------
(* Arithmetic *)

\* At most is transitive.
LEMMA NoMore ==
  ASSUME NEW a \in Nat, NEW b \in Nat, NEW c \in Nat, a <= b, b <= c
  PROVE  a <= c
OBVIOUS

\* Times and counts are at most themselves, and so with one more.
LEMMA OneMore ==
  ASSUME NEW a \in Nat
  PROVE  a <= a /\ \A b \in Nat : a <= b <=> a + 1 <= b + 1
OBVIOUS

\* Sequences are as long as a number says.
LEMMA Lengths ==
  ASSUME NEW S, NEW s \in Seq(S)
  PROVE  Len(s) \in Nat
OBVIOUS

\* The places of a sequence that has one more.
LEMMA OnePlaceMore ==
  ASSUME NEW n \in Nat
  PROVE  /\ \A x : x \in 1..(n + 1) <=> x \in 1..n \/ x = n + 1
         /\ \A x, y \in 1..(n + 1) : x < y => x \in 1..n
OBVIOUS

\* Two times of one window.
LEMMA OneWindow ==
  ASSUME NEW at \in Int, NEW w \in Nat, NEW t \in (at - w + 1)..at, NEW s \in (at - w + 1)..at
  PROVE  s >= t - w + 1
OBVIOUS

\* A time after the last that a window has left behind.
LEMMA StillMatters ==
  ASSUME NEW n \in Nat, NEW w \in Nat, NEW t \in Nat, t >= n - w + 1
  PROVE  t + w > n
OBVIOUS

\* What the comparison of Redis' count, n, with the limit says of the requests
\* that are certainly in it and of those that may be.
LEMMA RedisDecides ==
  ASSUME NEW n \in Nat, NEW l \in Nat
  PROVE  /\ ExceedsRedis(n, l) \in BOOLEAN
         /\ \A a \in Nat : a <= n /\ ~ExceedsRedis(n, l) => a <= l
         /\ \A m \in Nat : n <= m + 1 /\ ExceedsRedis(n, l) => m >= l
BY DEF ExceedsRedis

\* The same of the length of a deque, where the request is not yet in.
LEMMA MemoryDecides ==
  ASSUME NEW n \in Nat, NEW l \in Nat
  PROVE  /\ ExceedsMemory(n, l) \in BOOLEAN
         /\ \A a \in Nat : a <= n + 1 /\ ~ExceedsMemory(n, l) => a <= l
         /\ \A m \in Nat : n <= m /\ ExceedsMemory(n, l) => m >= l
BY DEF ExceedsMemory

-----------------------------------------------------------------------------
(* Stamps *)

\* Not more places are since a time than the sequence has.
LEMMA SinceFinite ==
  ASSUME NEW s \in Seq(Nat), NEW t \in Int
  PROVE  /\ IsFiniteSet(Since(s, t)) /\ Cardinality(Since(s, t)) \in Nat
         /\ Cardinality(Since(s, t)) <= Len(s)
<1>1. IsFiniteSet(1..Len(s)) /\ Cardinality(1..Len(s)) = Len(s) /\ Len(s) \in Nat
  <2>1. Len(s) \in Nat /\ 1 \in Int /\ Len(s) \in Int
    OBVIOUS
  <2>2. Cardinality(1..Len(s)) = IF 1 > Len(s) THEN 0 ELSE Len(s) - 1 + 1
    BY Zenon, <2>1, FS_Interval
  <2>3. Cardinality(1..Len(s)) = Len(s)
    BY <2>1, <2>2
  <2> QED BY Zenon, <2>1, <2>3, FS_Interval
<1>2. Since(s, t) \in SUBSET (1..Len(s))
  BY DEF Since
<1> QED BY Zenon, <1>1, <1>2, FS_Subset, FS_CardinalityType

\* A stamp put last is one more since any time up to it, none since later ones.
LEMMA SinceAppend ==
  ASSUME NEW s \in Seq(Nat), NEW x \in Nat, NEW t \in Int
  PROVE  Cardinality(Since(Append(s, x), t))
           = IF x >= t THEN Cardinality(Since(s, t)) + 1 ELSE Cardinality(Since(s, t))
<1>1. CASE x >= t
  <2>1. Since(Append(s, x), t) = Since(s, t) \cup {Len(s) + 1} /\ Len(s) + 1 \notin Since(s, t)
    BY <1>1 DEF Since
  <2> QED BY Zenon, <1>1, <2>1, FS_AddElement, SinceFinite
<1>2. CASE ~(x >= t)
  <2>1. Since(Append(s, x), t) = Since(s, t)
    BY <1>2 DEF Since
  <2> QED BY Zenon, <1>2, <2>1
<1> QED BY Zenon, <1>1, <1>2

\* A suffix has no more, and as many if all that precedes it is earlier.
LEMMA SinceSuffix ==
  ASSUME NEW s \in Seq(Nat), NEW m \in 1..Len(s), NEW t \in Int
  PROVE  LET u == SubSeq(s, m, Len(s)) IN
         /\ u \in Seq(Nat)
         /\ Cardinality(Since(u, t)) <= Cardinality(Since(s, t))
         /\ (\A j \in 1..(m - 1) : s[j] < t) => Cardinality(Since(u, t)) = Cardinality(Since(s, t))
<1> DEFINE u == SubSeq(s, m, Len(s))
           f == [j \in Since(u, t) |-> j + m - 1]
<1>1. /\ u \in Seq(Nat) /\ Len(u) = Len(s) - m + 1 /\ DOMAIN u = 1..Len(u)
      /\ \A j \in 1..Len(u) : u[j] = s[j + m - 1]
  OBVIOUS
<1>m. m \in Nat /\ m >= 1 /\ m <= Len(s) /\ Len(s) \in Nat /\ DOMAIN s = 1..Len(s)
  OBVIOUS
<1> HIDE DEF u
<1>2. f \in Injection(Since(u, t), Since(s, t))
  <2>1. \A j \in Since(u, t) : f[j] \in Since(s, t) /\ f[j] = j + m - 1 /\ j \in Int
    <3> TAKE j \in Since(u, t)
    <3>1. j \in 1..Len(u) /\ u[j] >= t
      BY Zenon, <1>1 DEF Since
    <3>2. j + m - 1 \in 1..Len(s) /\ s[j + m - 1] >= t /\ j \in Int
      BY <1>1, <1>m, <3>1
    <3>3. j + m - 1 \in Since(s, t)
      BY Zenon, <1>m, <3>2 DEF Since
    <3> QED BY Zenon, <3>2, <3>3
  <2>2. \A a, b \in Since(u, t) : f[a] = f[b] => a = b
    BY <2>1
  <2>3. f \in [Since(u, t) -> Since(s, t)] /\ DOMAIN f = Since(u, t)
    BY Zenon, <2>1
  <2> HIDE DEF f
  <2> QED BY Zenon, <2>2, <2>3 DEF Injection, IsInjective
<1>3. Cardinality(Since(u, t)) <= Cardinality(Since(s, t))
  BY Zenon, <1>2, FS_Injection, SinceFinite
<1>4. ASSUME \A j \in 1..(m - 1) : s[j] < t PROVE Cardinality(Since(u, t)) = Cardinality(Since(s, t))
  <2>1. ASSUME NEW j \in Since(s, t) PROVE j - m + 1 \in Since(u, t) /\ f[j - m + 1] = j
    <3>1. j \in 1..Len(s) /\ s[j] >= t
      BY Zenon, <1>m DEF Since
    <3>2. ~(j \in 1..(m - 1))
      <4> SUFFICES ASSUME j \in 1..(m - 1) PROVE FALSE
        BY Zenon
      <4>1. s[j] < t /\ s[j] \in Int
        BY <1>4, <3>1
      <4> QED BY <3>1, <4>1
    <3>3. j - m + 1 \in 1..Len(u) /\ (j - m + 1) + m - 1 = j
      BY <1>1, <1>m, <3>1, <3>2
    <3>4. u[j - m + 1] = s[j]
      BY Zenon, <1>1, <3>3
    <3>5. j - m + 1 \in Since(u, t)
      BY Zenon, <1>1, <3>1, <3>3, <3>4 DEF Since
    <3> QED BY Zenon, <3>3, <3>5
  <2>2. f \in Surjection(Since(u, t), Since(s, t))
    BY Zenon, <1>2, <2>1 DEF Surjection, Injection
  <2> QED BY Zenon, <1>2, <2>2, FS_Injection, SinceFinite
<1> QED BY Zenon, <1>1, <1>3, <1>4 DEF u

\* A set of natural numbers that is not empty has a least one.
LEMMA Least ==
  ASSUME NEW S \in SUBSET Nat, S # {}
  PROVE  Oldest(S) \in S /\ \A y \in S : Oldest(S) <= y
<1> DEFINE less == {ss \in Nat \X Nat : ss[1] < ss[2]}
<1>1. IsWellFoundedOn(less, Nat)
  BY NatLessThanWellFounded, Zenon DEF OpToRel
<1>2. PICK x \in S : \A y \in S : ~(<<y, x>> \in less)
  <2> HIDE DEF less
  <2> QED BY <1>1, WFMin, Zenon
<1>n. \A y \in S : y \in Nat /\ x \in Nat /\ ~(y < x)
  BY <1>2, Zenon
<1>3. \A y \in S : x <= y
  BY <1>n
<1> QED BY Zenon, <1>3 DEF Oldest

\* A deque pruned from the left: what is left is in the window, and nothing in the
\* window is lost.
LEMMA PrunedDeque ==
  ASSUME NEW s \in Seq(Nat), NEW at \in Nat, NEW w \in Nat,
         \A x, y \in DOMAIN s : x < y => s[x] <= s[y]
  PROVE  LET u == Pruned(s, at, w) IN
         /\ u \in Seq(Nat)
         /\ \A x, y \in DOMAIN u : x < y => u[x] <= u[y]
         /\ \A x \in DOMAIN u : u[x] + w > at /\ \E y \in DOMAIN s : u[x] = s[y]
         /\ \A t \in Int : /\ Cardinality(Since(u, t)) <= Cardinality(Since(s, t))
                           /\ t + w > at => Cardinality(Since(u, t)) = Cardinality(Since(s, t))
<1> DEFINE keep == {i \in DOMAIN s : InWindow(s[i], at, w)}
           u == Pruned(s, at, w)
<1>0. DOMAIN s = 1..Len(s) /\ Len(s) \in Nat /\ \A i \in DOMAIN s : s[i] \in Nat
  OBVIOUS
<1>1. \A i \in DOMAIN s : i \in keep <=> s[i] + w > at
  BY Zenon DEF InWindow
<1>2. CASE keep = {}
  <2>1. u = <<>> /\ u \in Seq(Nat) /\ DOMAIN u = {}
    BY <1>2 DEF Pruned
  <2>2. \A t \in Int : Since(u, t) = {} /\ Cardinality(Since(u, t)) = 0
    BY Zenon, <2>1, FS_EmptySet DEF Since
  <2>3. \A t \in Int : t + w > at => Since(s, t) = {}
    BY <1>0, <1>1, <1>2 DEF Since
  <2>4. \A t \in Int : Cardinality(Since(s, t)) \in Nat
    BY Zenon, SinceFinite
  <2>5. \A t \in Int : /\ Cardinality(Since(u, t)) <= Cardinality(Since(s, t))
                       /\ t + w > at => Cardinality(Since(u, t)) = Cardinality(Since(s, t))
    <3>1. Cardinality({}) = 0
      BY Zenon, FS_EmptySet
    <3> TAKE t \in Int
    <3> DEFINE a == Cardinality(Since(u, t))
               b == Cardinality(Since(s, t))
    <3>2. a = 0 /\ b \in Nat /\ (t + w > at => b = 0)
      BY Zenon, <2>2, <2>3, <2>4, <3>1
    <3> HIDE DEF a, b
    <3>3. a <= b /\ (t + w > at => a = b)
      BY <3>2
    <3> QED BY Zenon, <3>3 DEF a, b
  <2> QED BY Zenon, <2>1, <2>5
<1>3. CASE keep # {}
  <2> DEFINE m == Oldest(keep)
  <2>1. m \in keep /\ \A y \in keep : m <= y
    <3>1. keep \in SUBSET Nat
      BY <1>0
    <3> QED BY Zenon, <1>3, <3>1, Least
  <2>2. u = SubSeq(s, m, Len(s))
    BY Zenon, <1>3 DEF Pruned
  <2>3. m \in 1..Len(s) /\ s[m] + w > at
    BY Zenon, <1>0, <1>1, <2>1
  <2> HIDE DEF m, keep
  <2>4. /\ u \in Seq(Nat) /\ DOMAIN u = 1..(Len(s) - m + 1)
        /\ \A x \in 1..(Len(s) - m + 1) : u[x] = s[x + m - 1]
    <3> DEFINE v == SubSeq(s, m, Len(s))
    <3>1. /\ v \in Seq(Nat) /\ DOMAIN v = 1..(Len(s) - m + 1)
          /\ \A x \in 1..(Len(s) - m + 1) : v[x] = s[x + m - 1]
      BY <2>3
    <3> QED BY Zenon, <2>2, <3>1
  <2> HIDE DEF u
  <2>5. \A x \in DOMAIN u : /\ x + m - 1 \in DOMAIN s /\ x + m - 1 >= m /\ x \in Int
                            /\ u[x] = s[x + m - 1]
    <3> TAKE x \in DOMAIN u
    <3>1. x \in 1..(Len(s) - m + 1) /\ u[x] = s[x + m - 1]
      BY Zenon, <2>4
    <3>2. x + m - 1 \in 1..Len(s) /\ x + m - 1 >= m /\ x \in Int
      BY <1>0, <2>3, <3>1
    <3> QED BY Zenon, <1>0, <3>1, <3>2
  <2>6. \A x, y \in DOMAIN u : x < y => u[x] <= u[y]
    <3> SUFFICES ASSUME NEW x \in DOMAIN u, NEW y \in DOMAIN u, x < y PROVE u[x] <= u[y]
      BY Zenon
    <3>1. x + m - 1 < y + m - 1
      BY <2>3, <2>5
    <3> QED BY Zenon, <2>5, <3>1
  <2>7. ASSUME NEW x \in DOMAIN u PROVE u[x] + w > at /\ \E y \in DOMAIN s : u[x] = s[y]
    <3>1. s[m] <= s[x + m - 1]
      <4>1. m = x + m - 1 \/ m < x + m - 1
        BY <2>3, <2>5
      <4>2. m \in DOMAIN s /\ s[m] <= s[m]
        BY <1>0, <2>3
      <4> QED BY Zenon, <2>5, <4>1, <4>2
    <3>2. u[x] + w > at
      BY <1>0, <2>3, <2>5, <3>1
    <3> QED BY Zenon, <2>5, <3>2
  <2>8. ASSUME NEW t \in Int
        PROVE  /\ Cardinality(Since(u, t)) <= Cardinality(Since(s, t))
               /\ t + w > at => Cardinality(Since(u, t)) = Cardinality(Since(s, t))
    <3>1. t + w > at => \A j \in 1..(m - 1) : s[j] < t
      <4> SUFFICES ASSUME t + w > at, NEW j \in 1..(m - 1) PROVE s[j] < t
        BY Zenon
      <4>1. j \in DOMAIN s /\ s[j] \in Nat /\ ~(m <= j)
        BY <1>0, <2>3
      <4>2. ~(s[j] + w > at)
        BY Zenon, <1>1, <2>1, <4>1
      <4> QED BY <4>1, <4>2
    <3> QED BY Zenon, <2>2, <2>3, <3>1, SinceSuffix
  <2> QED BY Zenon, <2>4, <2>6, <2>7, <2>8 DEF u
<1> QED BY Zenon, <1>2, <1>3

-----------------------------------------------------------------------------
(* Stores of deques *)

\* The place of a key is where its deque is.
LEMMA StampsAt ==
  ASSUME NEW store, OneEach(store), NEW x \in DOMAIN store
  PROVE  Stamps(store, store[x].key) = store[x].stamps
<1>1. Holds(store, store[x].key) /\ Slot(store, store[x].key) \in DOMAIN store
      /\ store[Slot(store, store[x].key)].key = store[x].key
  BY Zenon DEF Holds, Slot
<1> QED BY Zenon, <1>1 DEF OneEach, Stamps

\* Two sequences, one after the other.
LEMMA Joined ==
  ASSUME NEW S, NEW s \in Seq(S), NEW t \in Seq(S)
  PROVE  /\ s \o t \in Seq(S) /\ Len(s \o t) = Len(s) + Len(t)
         /\ \A x \in 1..(Len(s) + Len(t)) : (s \o t)[x] = IF x <= Len(s) THEN s[x] ELSE t[x - Len(s)]
<1>1. s \o t \in Seq(S)
  OBVIOUS
<1>2. Len(s \o t) = Len(s) + Len(t)
  OBVIOUS
<1>3. ASSUME NEW x \in 1..(Len(s) + Len(t)) PROVE (s \o t)[x] = IF x <= Len(s) THEN s[x] ELSE t[x - Len(s)]
  OBVIOUS
<1> QED BY Zenon, <1>1, <1>2, <1>3

\* A store without the place n keeps the others.
OthersKept(rest, store, n) ==
  /\ \A y \in DOMAIN store : y # n => \E x \in DOMAIN rest : rest[x] = store[y]
  /\ \E f \in [DOMAIN rest -> DOMAIN store] :
       /\ \A x \in DOMAIN rest : rest[x] = store[f[x]] /\ f[x] # n
       /\ \A x, y \in DOMAIN rest : f[x] = f[y] => x = y
\* What lru_store.py keeps when a key is popped: every other place, once.
LEMMA PlaceTakenOut ==
  ASSUME NEW S, NEW store \in Seq(S), NEW n \in DOMAIN store
  PROVE  TakeOut(store, n) \in Seq(S) /\ OthersKept(TakeOut(store, n), store, n)
<1> DEFINE rest == TakeOut(store, n)
<1> DEFINE f == [x \in 1..(Len(store) - 1) |-> IF x < n THEN x ELSE x + 1]
<1>0. DOMAIN store = 1..Len(store) /\ Len(store) \in Nat /\ n \in 1..Len(store)
  OBVIOUS
<1>1. /\ rest \in Seq(S) /\ Len(rest) = Len(store) - 1
      /\ \A x \in 1..(Len(store) - 1) : rest[x] = IF x < n THEN store[x] ELSE store[x + 1]
  <2> DEFINE a == SubSeq(store, 1, n - 1)
             b == SubSeq(store, n + 1, Len(store))
  <2>1. a \in Seq(S) /\ Len(a) = n - 1 /\ \A x \in 1..(n - 1) : a[x] = store[x]
    BY <1>0
  <2>2. b \in Seq(S) /\ Len(b) = Len(store) - n /\ \A x \in 1..(Len(store) - n) : b[x] = store[x + n]
    BY <1>0
  <2>3. rest = a \o b
    BY Zenon DEF TakeOut
  <2> HIDE DEF a, b, rest
  <2>c. /\ a \o b \in Seq(S) /\ Len(a \o b) = Len(a) + Len(b)
        /\ \A x \in 1..(Len(a) + Len(b)) : (a \o b)[x] = IF x <= Len(a) THEN a[x] ELSE b[x - Len(a)]
    BY Zenon, <2>1, <2>2, Joined
  <2>d. Len(a) = n - 1 /\ Len(a) + Len(b) = Len(store) - 1
    BY <1>0, <2>1, <2>2
  <2>4. /\ rest \in Seq(S) /\ Len(rest) = Len(store) - 1
        /\ \A x \in 1..(Len(store) - 1) : rest[x] = IF x <= n - 1 THEN a[x] ELSE b[x - (n - 1)]
    BY Zenon, <2>3, <2>c, <2>d
  <2>5. ASSUME NEW x \in 1..(Len(store) - 1) PROVE rest[x] = IF x < n THEN store[x] ELSE store[x + 1]
    <3>1. CASE x < n
      <4>1. x \in 1..(n - 1) /\ x <= n - 1
        BY <1>0, <3>1
      <4> QED BY Zenon, <2>1, <2>4, <3>1, <4>1
    <3>2. CASE ~(x < n)
      <4>1. x - (n - 1) \in 1..(Len(store) - n) /\ ~(x <= n - 1) /\ (x - (n - 1)) + n = x + 1
        BY <1>0, <3>2
      <4> QED BY Zenon, <2>2, <2>4, <3>2, <4>1
    <3> QED BY Zenon, <3>1, <3>2
  <2> QED BY Zenon, <2>4, <2>5
<1> HIDE DEF rest
<1>2. DOMAIN rest = 1..(Len(store) - 1)
  BY <1>1
<1>3. ASSUME NEW y \in DOMAIN store, y # n PROVE \E x \in DOMAIN rest : rest[x] = store[y]
  <2>1. CASE y < n
    <3>1. y \in 1..(Len(store) - 1)
      BY <1>0, <2>1
    <3> QED BY Zenon, <1>1, <1>2, <2>1, <3>1
  <2>2. CASE y > n
    <3>1. y - 1 \in 1..(Len(store) - 1) /\ ~(y - 1 < n) /\ (y - 1) + 1 = y
      BY <1>0, <2>2
    <3> QED BY Zenon, <1>1, <1>2, <3>1
  <2> QED BY <1>0, <1>3, <2>1, <2>2
<1>4. /\ f \in [DOMAIN rest -> DOMAIN store]
      /\ \A x \in DOMAIN rest : rest[x] = store[f[x]] /\ f[x] # n
      /\ \A x, y \in DOMAIN rest : f[x] = f[y] => x = y
  <2>1. \A x \in DOMAIN rest : f[x] \in DOMAIN store /\ f[x] # n
    BY <1>0, <1>2
  <2>2. \A x \in DOMAIN rest : rest[x] = store[f[x]]
    BY Zenon, <1>1, <1>2
  <2>3. \A x, y \in DOMAIN rest : f[x] = f[y] => x = y
    BY <1>0, <1>2
  <2>4. f \in [DOMAIN rest -> DOMAIN store]
    BY Zenon, <1>2, <2>1
  <2> QED BY Zenon, <2>1, <2>2, <2>3, <2>4
<1>5. OthersKept(rest, store, n)
  BY Zenon, <1>3, <1>4 DEF OthersKept
<1> QED BY Zenon, <1>1, <1>5 DEF rest

\* What is left when the deque of a key is popped, or makes room.
Left(rest, store, k) ==
  /\ OneEach(rest)
  /\ \A x \in DOMAIN rest : rest[x].key # k /\ \E y \in DOMAIN store : rest[x] = store[y]
  /\ MakesRoom(store, k) =>
       Head(store) = store[1] /\ 1 \in DOMAIN store /\ \A x \in DOMAIN rest : rest[x].key # Head(store).key
  /\ \A y \in DOMAIN store :
       \/ store[y].key = k
       \/ MakesRoom(store, k) /\ store[y].key = Head(store).key
       \/ \E x \in DOMAIN rest : rest[x] = store[y]
\* The store that _lru_pop_or_create leaves for the key it is about to put
\* back.
LEMMA WithoutIs ==
  ASSUME NEW store \in Seq(Entries), OneEach(store), NEW k
  PROVE  Without(store, k) \in Seq(Entries) /\ Left(Without(store, k), store, k)
<1> DEFINE rest == Without(store, k)
<1> SUFFICES rest \in Seq(Entries) /\ Left(rest, store, k)
  BY Zenon
<1>1. CASE Holds(store, k)
  <2> DEFINE n == Slot(store, k)
  <2>1. n \in DOMAIN store /\ store[n].key = k /\ rest = TakeOut(store, n)
    BY Zenon, <1>1 DEF Holds, Slot, Without
  <2> HIDE DEF n, rest
  <2>p. rest \in Seq(Entries) /\ OthersKept(rest, store, n)
    BY Zenon, <2>1, PlaceTakenOut
  <2>2. PICK f \in [DOMAIN rest -> DOMAIN store] :
              /\ \A x \in DOMAIN rest : rest[x] = store[f[x]] /\ f[x] # n
              /\ \A x, y \in DOMAIN rest : f[x] = f[y] => x = y
    BY Zenon, <2>p DEF OthersKept
  <2>3. rest \in Seq(Entries) /\ \A y \in DOMAIN store : y # n => \E x \in DOMAIN rest : rest[x] = store[y]
    BY Zenon, <2>p DEF OthersKept
  <2>4. OneEach(rest)
    <3> SUFFICES ASSUME NEW x \in DOMAIN rest, NEW y \in DOMAIN rest, rest[x].key = rest[y].key
                 PROVE  x = y
      BY Zenon DEF OneEach
    <3>1. f[x] \in DOMAIN store /\ f[y] \in DOMAIN store /\ rest[x] = store[f[x]] /\ rest[y] = store[f[y]]
      BY Zenon, <2>2
    <3>2. f[x] = f[y]
      BY Zenon, <3>1 DEF OneEach
    <3> QED BY Zenon, <2>2, <3>2
  <2>5. ASSUME NEW x \in DOMAIN rest PROVE rest[x].key # k /\ \E y \in DOMAIN store : rest[x] = store[y]
    <3>1. f[x] \in DOMAIN store /\ f[x] # n /\ rest[x] = store[f[x]]
      BY Zenon, <2>2
    <3>2. store[f[x]].key # k
      BY Zenon, <2>1, <3>1 DEF OneEach
    <3> QED BY Zenon, <3>1, <3>2
  <2>6. ~MakesRoom(store, k)
    BY Zenon, <1>1 DEF MakesRoom
  <2> QED BY Zenon, <2>1, <2>3, <2>4, <2>5, <2>6 DEF Left
<1>2. CASE MakesRoom(store, k)
  <2>1. ~Holds(store, k) /\ rest = Tail(store) /\ Len(store) >= MaxKeys
    BY Zenon, <1>2 DEF MakesRoom, Without
  <2>m. MaxKeys \in Nat \ {0}
    BY Zenon, ConstantsAssumption
  <2>l. Len(store) \in Nat \ {0} /\ DOMAIN store = 1..Len(store) /\ 1 \in DOMAIN store
    BY <2>1, <2>m
  <2>2. /\ Head(store) = store[1]
        /\ Tail(store) \in Seq(Entries) /\ DOMAIN Tail(store) = 1..(Len(store) - 1)
        /\ \A x \in 1..(Len(store) - 1) : Tail(store)[x] = store[x + 1]
    BY <2>l
  <2> HIDE DEF rest
  <2>3. ASSUME NEW x \in DOMAIN rest
        PROVE  x + 1 \in DOMAIN store /\ x + 1 # 1 /\ rest[x] = store[x + 1] /\ x \in Int
    <3>1. x \in 1..(Len(store) - 1) /\ rest[x] = store[x + 1]
      BY Zenon, <2>1, <2>2
    <3>2. x + 1 \in 1..Len(store) /\ x + 1 # 1 /\ x \in Int
      BY <2>l, <3>1
    <3> QED BY Zenon, <2>l, <3>1, <3>2
  <2>4. ASSUME NEW x \in DOMAIN rest, NEW y \in DOMAIN rest, x + 1 = y + 1 PROVE x = y
    <3>1. x \in Int /\ y \in Int
      BY Zenon, <2>3
    <3> QED BY <2>4, <3>1
  <2>5. OneEach(rest)
    <3> SUFFICES ASSUME NEW x \in DOMAIN rest, NEW y \in DOMAIN rest, rest[x].key = rest[y].key
                 PROVE  x = y
      BY Zenon DEF OneEach
    <3>1. x + 1 \in DOMAIN store /\ y + 1 \in DOMAIN store /\ rest[x] = store[x + 1] /\ rest[y] = store[y + 1]
      BY Zenon, <2>3
    <3>2. x + 1 = y + 1
      BY Zenon, <3>1 DEF OneEach
    <3> QED BY Zenon, <2>4, <3>2
  <2>6. ASSUME NEW x \in DOMAIN rest
        PROVE  /\ rest[x].key # k /\ \E y \in DOMAIN store : rest[x] = store[y]
               /\ rest[x].key # Head(store).key
    <3>1. x + 1 \in DOMAIN store /\ x + 1 # 1 /\ rest[x] = store[x + 1]
      BY Zenon, <2>3
    <3>2. store[x + 1].key # k
      BY Zenon, <2>1, <3>1 DEF Holds
    <3>3. store[x + 1].key # store[1].key
      BY Zenon, <2>l, <3>1 DEF OneEach
    <3> QED BY Zenon, <2>2, <3>1, <3>2, <3>3
  <2>7. ASSUME NEW y \in DOMAIN store
        PROVE  store[y].key = Head(store).key \/ \E x \in DOMAIN rest : rest[x] = store[y]
    <3>1. CASE y = 1
      BY Zenon, <2>2, <3>1
    <3>2. CASE y # 1
      <4>1. y - 1 \in 1..(Len(store) - 1) /\ (y - 1) + 1 = y
        BY <2>l, <3>2
      <4> QED BY Zenon, <2>1, <2>2, <4>1
    <3> QED BY Zenon, <3>1, <3>2
  <2> QED BY Zenon, <1>2, <2>1, <2>2, <2>l, <2>5, <2>6, <2>7 DEF Left
<1>3. CASE ~Holds(store, k) /\ ~MakesRoom(store, k)
  <2>1. rest = store
    BY Zenon, <1>3 DEF Without
  <2> HIDE DEF rest
  <2> QED BY Zenon, <1>3, <2>1 DEF Holds, Left
<1> QED BY Zenon, <1>1, <1>2, <1>3

\* The deque of a key is last and holds the stamps s; the others stay, except
\* one that made room.
StoreIs(new, store, k, s) ==
  /\ OneEach(new) /\ Stamps(new, k) = s
  /\ \A l : l # k => IF MakesRoom(store, k) /\ l = Head(store).key THEN Stamps(new, l) = <<>>
                     ELSE Stamps(new, l) = Stamps(store, l)

EndsIn(new, rest, last) ==
  /\ DOMAIN rest = 1..Len(rest) /\ Len(rest) \in Nat
  /\ DOMAIN new = 1..(Len(rest) + 1) /\ new[Len(rest) + 1] = last
  /\ \A x \in 1..Len(rest) : new[x] = rest[x]
\* A record put last.
LEMMA AppendIs ==
  ASSUME NEW S, NEW rest \in Seq(S), NEW last \in S
  PROVE  Append(rest, last) \in Seq(S) /\ EndsIn(Append(rest, last), rest, last)
BY DEF EndsIn

\* The store after a key was taken out and put back last: one place for each
\* key.
LEMMA StoreStep ==
  ASSUME NEW store \in Seq(Entries), OneEach(store), NEW k \in Keys, NEW s \in Seq(Nat)
  PROVE  LET new == Append(Without(store, k), [key |-> k, stamps |-> s]) IN
         new \in Seq(Entries) /\ StoreIs(new, store, k, s)
<1> DEFINE rest == Without(store, k)
           last == [key |-> k, stamps |-> s]
           n == Len(rest) + 1
           new == Append(rest, last)
<1>1. /\ rest \in Seq(Entries) /\ OneEach(rest)
      /\ \A x \in DOMAIN rest : rest[x].key # k /\ \E y \in DOMAIN store : rest[x] = store[y]
      /\ MakesRoom(store, k) => \A x \in DOMAIN rest : rest[x].key # Head(store).key
      /\ \A y \in DOMAIN store :
           \/ store[y].key = k
           \/ MakesRoom(store, k) /\ store[y].key = Head(store).key
           \/ \E x \in DOMAIN rest : rest[x] = store[y]
  <2>1. rest \in Seq(Entries) /\ Left(rest, store, k)
    BY Zenon, WithoutIs
  <2> HIDE DEF rest
  <2> QED BY Zenon, <2>1 DEF Left
<1>2. last \in Entries /\ last.key = k /\ last.stamps = s
  <2>1. last.key = k /\ last.stamps = s
    BY Zenon
  <2>2. last \in Entries
    BY Zenon DEF Entries
  <2> QED BY Zenon, <2>1, <2>2
<1>r. rest \in Seq(Entries)
  BY Zenon, <1>1
<1> HIDE DEF rest, last
<1>3. /\ new \in Seq(Entries) /\ DOMAIN rest = 1..Len(rest) /\ Len(rest) \in Nat
      /\ DOMAIN new = 1..n /\ new[n] = last /\ \A x \in 1..Len(rest) : new[x] = rest[x]
  <2>1. new \in Seq(Entries) /\ EndsIn(new, rest, last)
    BY Zenon, <1>r, <1>2, AppendIs
  <2> QED BY Zenon, <2>1 DEF EndsIn
<1> HIDE DEF new
<1>4. /\ n \in DOMAIN new /\ n \notin DOMAIN rest
      /\ \A x : x \in DOMAIN new <=> x \in DOMAIN rest \/ x = n
  BY <1>3
<1> HIDE DEF n
<1>5. OneEach(new)
  <2> SUFFICES ASSUME NEW x \in DOMAIN new, NEW y \in DOMAIN new, new[x].key = new[y].key
               PROVE  x = y
    BY Zenon DEF OneEach
  <2>1. CASE x \in DOMAIN rest /\ y \in DOMAIN rest
    <3>1. rest[x].key = rest[y].key
      BY Zenon, <1>3, <2>1
    <3> QED BY Zenon, <1>1, <2>1, <3>1 DEF OneEach
  <2>2. CASE x \in DOMAIN rest /\ y = n
    BY Zenon, <1>1, <1>2, <1>3, <2>2
  <2>3. CASE x = n /\ y \in DOMAIN rest
    BY Zenon, <1>1, <1>2, <1>3, <2>3
  <2> QED BY Zenon, <1>4, <2>1, <2>2, <2>3
<1>6. Stamps(new, k) = s
  <2>1. new[n].key = k /\ new[n].stamps = s
    BY Zenon, <1>2, <1>3
  <2>2. Stamps(new, new[n].key) = new[n].stamps
    BY Zenon, <1>4, <1>5, StampsAt
  <2> QED BY Zenon, <2>1, <2>2
<1>7. ASSUME NEW l, l # k
      PROVE  IF MakesRoom(store, k) /\ l = Head(store).key THEN Stamps(new, l) = <<>>
             ELSE Stamps(new, l) = Stamps(store, l)
  <2>1. CASE \E x \in DOMAIN rest : rest[x].key = l
    <3>1. PICK x \in DOMAIN rest : rest[x].key = l
      BY Zenon, <2>1
    <3>2. PICK y \in DOMAIN store : rest[x] = store[y]
      BY Zenon, <1>1
    <3>3. x \in DOMAIN new /\ new[x] = rest[x] /\ new[x].key = l /\ store[y].key = l
          /\ new[x].stamps = store[y].stamps
      BY Zenon, <1>3, <1>4, <3>1, <3>2
    <3>4. Stamps(new, new[x].key) = new[x].stamps
      BY Zenon, <1>5, <3>3, StampsAt
    <3>5. Stamps(store, store[y].key) = store[y].stamps
      BY Zenon, StampsAt
    <3>6. Stamps(new, l) = Stamps(store, l)
      BY Zenon, <3>3, <3>4, <3>5
    <3>7. ~(MakesRoom(store, k) /\ l = Head(store).key)
      BY Zenon, <1>1, <3>1
    <3> QED BY Zenon, <3>6, <3>7
  <2>2. CASE ~\E x \in DOMAIN rest : rest[x].key = l
    <3>1. ~Holds(new, l)
      <4>1. ASSUME NEW x \in DOMAIN new, new[x].key = l PROVE FALSE
        <5>1. CASE x \in DOMAIN rest
          BY Zenon, <1>3, <2>2, <4>1, <5>1
        <5>2. CASE x = n
          BY Zenon, <1>2, <1>3, <1>7, <4>1, <5>2
        <5> QED BY Zenon, <1>4, <4>1, <5>1, <5>2
      <4> QED BY Zenon, <4>1 DEF Holds
    <3>2. Stamps(new, l) = <<>>
      BY Zenon, <3>1 DEF Stamps
    <3>3. ~(MakesRoom(store, k) /\ l = Head(store).key) => ~Holds(store, l)
      BY Zenon, <1>1, <1>7, <2>2 DEF Holds
    <3>4. ~Holds(store, l) => Stamps(store, l) = <<>>
      BY Zenon DEF Stamps
    <3> QED BY Zenon, <3>2, <3>3, <3>4
  <2> QED BY Zenon, <2>1, <2>2
<1>8. StoreIs(new, store, k, s)
  BY Zenon, <1>5, <1>6, <1>7 DEF StoreIs
<1> QED BY Zenon, <1>3, <1>8 DEF new, rest, last

-----------------------------------------------------------------------------
(* Deployments, and a limiter that has seen no request *)

\* What a deployment says of each of its tiers.
LEMMA TierFacts ==
  ASSUME Types
  PROVE  /\ Len(Tiers) \in Nat \ {0} /\ TierIndex = 1..Len(Tiers) /\ 1 \in TierIndex
         /\ \A i \in TierIndex : Tiers[i].limit \in Nat /\ Tiers[i].window \in Nat \ {0}
         /\ dep.clients \subseteq Clients /\ dep.counters \subseteq Counters
<1>1. /\ Len(Tiers) \in Nat \ {0} /\ TierIndex = 1..Len(Tiers)
      /\ \A i \in TierIndex : Tiers[i].limit \in Nat /\ Tiers[i].window \in Nat \ {0}
      /\ dep.clients \subseteq Clients /\ dep.counters \subseteq Counters
  BY Zenon, DeploymentsAssumption DEF Types, Tiers, TierIndex
<1>2. 1 \in TierIndex
  BY <1>1
<1> QED BY Zenon, <1>1, <1>2

\* None is no backend, no verdict and no stamp.
LEMMA NoneApart ==
  /\ "block" # None /\ "error" # None /\ "allow" # None
  /\ \A b \in Backends : b # None
  /\ "redis" \notin Counters /\ "redis" \in Backends /\ Counters \subseteq Backends
BY Zenon, ConstantsAssumption DEF Backends

\* There are finitely many requests.
LEMMA FiniteReqs ==
  ASSUME NEW S \in SUBSET Reqs
  PROVE  IsFiniteSet(S) /\ Cardinality(S) \in Nat
<1>1. 1 \in Int /\ MaxReqs \in Int
  BY ConstantsAssumption
<1>2. IsFiniteSet(Reqs)
  BY Zenon, <1>1, FS_Interval DEF Reqs
<1> QED BY Zenon, <1>2, FS_Subset, FS_CardinalityType

\* With a bucket for each tier, a key has one client and one tier.
LEMMA KeysApart ==
  ASSUME NEW k \in Clients, NEW i \in TierIndex
  PROVE  /\ KeyOf(k, i) \in Keys
         /\ \A l \in Clients, j \in TierIndex : Distinct /\ KeyOf(l, j) = KeyOf(k, i) => l = k /\ j = i
<1>1. KeyOf(k, i) \in Keys
  BY Zenon DEF KeyOf, Keys
<1>2. ASSUME NEW l \in Clients, NEW j \in TierIndex, Distinct, KeyOf(l, j) = KeyOf(k, i)
      PROVE  l = k /\ j = i
  <2>1. l = k /\ Tiers[j].bucket = Tiers[i].bucket
    BY <1>2 DEF KeyOf
  <2> QED BY Zenon, <1>2, <2>1 DEF Distinct
<1> QED BY Zenon, <1>1, <1>2

\* A limiter that has seen no request is sound.
LEMMA RateInit ==
  ASSUME Init
  PROVE  Sound
<1>1. /\ dep \in Deployments /\ now = 1 /\ req = [r \in Reqs |-> Fresh]
      /\ zset = [k \in Keys |-> {}] /\ ttl = [k \in Keys |-> 0]
      /\ mem = [c \in Counters |-> <<>>] /\ evicted = [c \in Counters |-> {}]
  BY Zenon DEF Init
<1>2. \A r \in Reqs : req[r] = Fresh
  BY Zenon, <1>1
<1>3. /\ Fresh.pc = "new" /\ Fresh.tier = 0 /\ Fresh.verdict = None
      /\ \A i \in TierIndex : Fresh.ts[i] = 0 /\ Fresh.via[i] = None
  BY Zenon DEF Fresh
<1>4. Types
  <2>1. 0 \in Nat /\ 1 \in Nat \ {0} /\ <<>> \in Seq(Entries)
    OBVIOUS
  <2>2. 0 \in 0..Len(Tiers)
    <3>1. Len(Tiers) \in Nat
      BY Zenon, <1>1, DeploymentsAssumption DEF Tiers
    <3> QED BY <3>1
  <2>3. Fresh \in RequestType
    BY Zenon, <2>1, <2>2 DEF Fresh, RequestType, Pcs
  <2>4. req \in [Reqs -> RequestType] /\ ttl \in [Keys -> Nat]
    BY Zenon, <1>1, <2>1, <2>3
  <2>5. mem \in [Counters -> Seq(Entries)] /\ evicted \in [Counters -> SUBSET Keys]
    BY Zenon, <1>1, <2>1
  <2>6. zset = [k \in Keys |-> zset[k]]
    BY <1>1
  <2> QED BY ZenonT(30), <1>1, <2>1, <2>4, <2>5, <2>6 DEF Types
<1>5. Progress
  <2>1. ASSUME NEW r \in Reqs, NEW i \in TierIndex PROVE 0 <= now /\ ~(i <= 0)
    BY <1>1, <1>4, TierFacts
  <2>2. ASSUME NEW r \in Reqs PROVE ProgressOf(r)
    <3>1. req[r].pc = "new" /\ req[r].tier = 0 /\ req[r].verdict = None
      BY Zenon, <1>2, <1>3
    <3>2. ~InFlight(r) /\ req[r].pc \notin {"redis", "load", "retry"}
      BY <3>1 DEF InFlight
    <3>3. ASSUME NEW i \in TierIndex
          PROVE  req[r].ts[i] <= now /\ (req[r].ts[i] # 0 <=> i <= req[r].tier) /\ req[r].via[i] = None
      <4>1. req[r].ts[i] = 0 /\ req[r].via[i] = None
        BY <1>2, <1>3
      <4>2. 0 <= now /\ ~(i <= 0)
        BY Zenon, <2>1
      <4> QED BY Zenon, <3>1, <4>1, <4>2
    <3> QED BY Zenon, <3>1, <3>2, <3>3 DEF ProgressOf
  <2> QED BY Zenon, <2>2 DEF Progress
<1>6. ASSUME NEW k, NEW i \in TierIndex, NEW b \in Backends PROVE Counted(k, i, b) = {}
  BY Zenon, <1>2, <1>3, NoneApart DEF Counted
<1>7. SortedSets
  <2>1. ASSUME NEW k \in Clients, NEW i \in TierIndex PROVE Known(k, i) /\ Held(k, i)
    <3>1. zset[KeyOf(k, i)] = {} /\ Counted(k, i, "redis") = {}
      BY Zenon, <1>1, <1>6, KeysApart, NoneApart
    <3> QED BY Zenon, <3>1 DEF Known, Held
  <2> QED BY Zenon, <2>1 DEF SortedSets
<1>8. Deques
  <2>1. DOMAIN <<>> = {}
    OBVIOUS
  <2>2. ASSUME NEW c \in Counters PROVE mem[c] = <<>> /\ OneEach(mem[c])
    BY Zenon, <1>1, <2>1 DEF OneEach
  <2>3. ASSUME NEW c \in Counters, NEW k \in Clients, NEW i \in TierIndex PROVE DequeOk(c, k, i)
    <3>1. Stamps(mem[c], KeyOf(k, i)) = <<>>
      BY Zenon, <2>1, <2>2 DEF Stamps, Holds
    <3>2. ASSUME NEW t PROVE Since(<<>>, t) = {} /\ From(k, i, c, t) = {}
      <4>1. Since(<<>>, t) = {}
        BY Zenon, <2>1 DEF Since
      <4>2. Counted(k, i, c) = {}
        BY Zenon, <1>6, NoneApart
      <4> QED BY Zenon, <4>1, <4>2 DEF From
    <3>3. Cardinality({}) <= Cardinality({})
      <4>1. Cardinality({}) = 0
        BY Zenon, FS_EmptySet
      <4> QED BY <4>1
    <3> QED BY Zenon, <2>1, <3>1, <3>2, <3>3 DEF DequeOk
  <2> QED BY Zenon, <2>2, <2>3 DEF Deques
<1>9. Enforced
  <2>1. ASSUME NEW k \in Clients, NEW i \in TierIndex, NEW b \in Backends, NEW at \in Int
        PROVE  Cardinality(Passed(k, i, b, at)) <= Tiers[i].limit
    <3>1. Passed(k, i, b, at) = {}
      BY Zenon, <1>6 DEF Passed
    <3>2. Cardinality(Passed(k, i, b, at)) = 0
      BY Zenon, <3>1, FS_EmptySet
    <3>3. 0 <= Tiers[i].limit
      BY <1>4, TierFacts
    <3> QED BY Zenon, <3>2, <3>3
  <2> QED BY Zenon, <2>1 DEF Enforced, EnforcedAt
<1>10. BlockedOnlyOverLimit
  <2>1. \A r \in Reqs : req[r].verdict # "block"
    BY Zenon, <1>2, <1>3, NoneApart
  <2> QED BY Zenon, <2>1 DEF BlockedOnlyOverLimit
<1> QED BY ZenonT(30), <1>4, <1>5, <1>7, <1>8, <1>9, <1>10 DEF Sound

\* A sound limiter enforces the limits: what was allowed in a window passed
\* there.
LEMMA SoundLimits ==
  ASSUME Sound
  PROVE  LimitEnforced
<1>1. Types /\ Enforced
  BY Zenon DEF Sound
<1>2. ASSUME NEW k \in Clients, NEW i \in TierIndex, NEW b \in Backends,
             b \in Counters => <<k, Tiers[i].bucket>> \notin evicted[b], NEW at \in 1..MaxTime
      PROVE  Cardinality({r \in Counted(k, i, b) :
                            /\ req[r].verdict = "allow"
                            /\ req[r].ts[i] \in (at - Tiers[i].window + 1)..at})
                <= Tiers[i].limit
  <2> DEFINE W == {r \in Counted(k, i, b) : /\ req[r].verdict = "allow"
                                            /\ req[r].ts[i] \in (at - Tiers[i].window + 1)..at}
  <2>1. "allow" # "block"
    OBVIOUS
  <2>2. W \subseteq Passed(k, i, b, at)
    BY Zenon, <2>1 DEF Passed
  <2>3. Passed(k, i, b, at) \subseteq Reqs
    BY Zenon DEF Passed, Counted
  <2> HIDE DEF W
  <2>4. IsFiniteSet(Passed(k, i, b, at))
    BY Zenon, <2>3, FiniteReqs, FS_Subset
  <2>5. IsFiniteSet(W) /\ Cardinality(W) <= Cardinality(Passed(k, i, b, at))
    BY Zenon, <2>2, <2>4, FS_Subset
  <2>6. Cardinality(W) \in Nat /\ Cardinality(Passed(k, i, b, at)) \in Nat
    BY Zenon, <2>4, <2>5, FS_CardinalityType
  <2>7. at \in Int
    OBVIOUS
  <2>8. Kept(b, k, i)
    BY Zenon, <1>2 DEF Kept, KeyOf
  <2>9. Cardinality(Passed(k, i, b, at)) <= Tiers[i].limit
    BY Zenon, <1>1, <2>7, <2>8 DEF Enforced, EnforcedAt
  <2>10. Tiers[i].limit \in Nat
    BY Zenon, <1>1, TierFacts
  <2>11. Cardinality(W) <= Tiers[i].limit
    BY <2>5, <2>6, <2>9, <2>10
  <2> QED BY Zenon, <2>11 DEF W
<1> QED BY Zenon, <1>2 DEF LimitEnforced

\* No step changes the deployment.
LEMMA NextKeepsDep ==
  ASSUME [Next]_vars
  PROVE  dep' = dep
<1>1. ASSUME NEW r \in Reqs, Arrive(r) PROVE dep' = dep
  BY Zenon, <1>1 DEF Arrive
<1>2. ASSUME NEW r \in Reqs, Step(r) PROVE dep' = dep
  BY Zenon, <1>2 DEF Step, EvalSha, Pipeline, ScriptLoad, RetryEvalSha, RedisFails, CountInMemory
<1> QED BY Zenon, <1>1, <1>2 DEF Next, Flush, Tick, vars

-----------------------------------------------------------------------------
(* Steps of a request *)

\* What the deployment fixes stays.
LEMMA DepSame ==
  ASSUME dep' = dep
  PROVE  /\ Tiers' = Tiers /\ TierIndex' = TierIndex /\ UseRedis' = UseRedis /\ Coarse' = Coarse
         /\ Keys' = Keys /\ RequestType' = RequestType /\ Entries' = Entries
         /\ Distinct' = Distinct /\ Fine' = Fine
         /\ \A k, i : KeyOf(k, i)' = KeyOf(k, i)
<1>1. Tiers' = Tiers /\ UseRedis' = UseRedis /\ Coarse' = Coarse
  BY Zenon DEF Tiers, UseRedis, Coarse
<1>2. TierIndex' = TierIndex
  BY Zenon, <1>1 DEF TierIndex
<1>3. Keys' = Keys
  BY Zenon, <1>1, <1>2 DEF Keys
<1>4. RequestType' = RequestType
  BY Zenon, <1>1, <1>2 DEF RequestType
<1>5. Entries' = Entries
  BY Zenon, <1>3 DEF Entries
<1>6. Distinct' = Distinct /\ Fine' = Fine
  BY Zenon, <1>1, <1>2 DEF Distinct, Fine
<1>7. \A k, i : KeyOf(k, i)' = KeyOf(k, i)
  BY Zenon, <1>1 DEF KeyOf
<1> QED BY Zenon, <1>1, <1>2, <1>3, <1>4, <1>5, <1>6, <1>7

\* The types of a request's fields.
LEMMA RequestFields ==
  ASSUME Types, NEW r \in Reqs
  PROVE  /\ req[r] \in RequestType /\ req[r].pc \in Pcs
         /\ req[r].client \in Clients \cup {None} /\ req[r].counter \in Counters \cup {None}
         /\ req[r].tier \in 0..Len(Tiers) /\ req[r].ts \in [TierIndex -> Nat]
         /\ req[r].via \in [TierIndex -> Backends \cup {None}]
         /\ req[r].verdict \in {None, "allow", "block", "error"}
<1>1. req[r] \in RequestType
  BY Zenon DEF Types
<1> QED BY <1>1 DEF RequestType

\* A request that enters a tier is stamped there.
LEMMA EnteredFields ==
  ASSUME Types, NEW q \in RequestType, NEW i \in TierIndex
  PROVE  LET e == Entered(q, i) IN
         /\ e \in RequestType
         /\ e.client = q.client /\ e.counter = q.counter /\ e.via = q.via /\ e.verdict = q.verdict
         /\ e.tier = i /\ e.ts[i] = now /\ \A j \in TierIndex : j # i => e.ts[j] = q.ts[j]
         /\ e.pc = IF UseRedis THEN "redis" ELSE "memory"
<1> DEFINE e == Entered(q, i)
<1>1. i \in 0..Len(Tiers) /\ now \in Nat
  BY DEF Types, TierIndex
<1>2. /\ e = [q EXCEPT !.tier = i, !.ts = [q.ts EXCEPT ![i] = now],
                      !.pc = IF UseRedis THEN "redis" ELSE "memory"]
  BY DEF Entered, RequestType
<1>3. q.ts \in [TierIndex -> Nat]
  BY DEF RequestType
<1>4. /\ [q.ts EXCEPT ![i] = now] \in [TierIndex -> Nat]
      /\ [q.ts EXCEPT ![i] = now][i] = now
      /\ \A j \in TierIndex : j # i => [q.ts EXCEPT ![i] = now][j] = q.ts[j]
  BY Zenon, <1>1, <1>3
<1> DEFINE ts == [q.ts EXCEPT ![i] = now]
           pc == IF UseRedis THEN "redis" ELSE "memory"
<1>p. pc \in Pcs
  BY Zenon DEF Pcs
<1>5. e = [q EXCEPT !.tier = i, !.ts = ts, !.pc = pc] /\ ts \in [TierIndex -> Nat]
  BY Zenon, <1>2, <1>4
<1> HIDE DEF ts, pc, e
<1>6. /\ e \in RequestType
      /\ e.client = q.client /\ e.counter = q.counter /\ e.via = q.via /\ e.verdict = q.verdict
      /\ e.tier = i /\ e.ts = ts /\ e.pc = pc
  BY Zenon, <1>1, <1>5, <1>p DEF RequestType
<1> QED BY Zenon, <1>4, <1>6 DEF ts, pc, e

\* A request that was counted ends, or goes on to the next tier.
DecidedIs(q, r, b, over) ==
  LET i == req[r].tier IN
  /\ q \in RequestType
  /\ q.client = req[r].client /\ q.counter = req[r].counter
  /\ q.via[i] = b /\ \A j \in TierIndex : j # i => q.via[j] = req[r].via[j]
  /\ \/ /\ q.tier = i /\ q.ts = req[r].ts /\ q.pc = "done"
        /\ q.verdict = IF over THEN "block" ELSE "allow"
     \/ /\ ~over /\ i + 1 \in TierIndex /\ q.tier = i + 1 /\ q.ts[i + 1] = now
        /\ \A j \in TierIndex : j # i + 1 => q.ts[j] = req[r].ts[j]
        /\ q.pc = (IF UseRedis THEN "redis" ELSE "memory") /\ q.verdict = req[r].verdict

\* The request after a tier has counted it: allowed or blocked.
LEMMA DecidedFields ==
  ASSUME Types, NEW r \in Reqs, req[r].tier \in TierIndex, NEW b \in Backends, NEW over \in BOOLEAN
  PROVE  DecidedIs(Decided(r, b, over), r, b, over)
<1> DEFINE i == req[r].tier
           q == [req[r] EXCEPT !.via[i] = b]
           via == [req[r].via EXCEPT ![i] = b]
<1>1. req[r] \in RequestType /\ req[r].via \in [TierIndex -> Backends \cup {None}] /\ i \in TierIndex
  BY Zenon, RequestFields
<1>2. /\ via \in [TierIndex -> Backends \cup {None}] /\ via[i] = b
      /\ \A j \in TierIndex : j # i => via[j] = req[r].via[j]
  BY Zenon, <1>1
<1>3. q = [req[r] EXCEPT !.via = via]
  BY Zenon
<1>4. Decided(r, b, over) =
        IF over THEN [q EXCEPT !.pc = "done", !.verdict = "block"]
        ELSE IF q.tier = Len(Tiers) THEN [q EXCEPT !.pc = "done", !.verdict = "allow"]
        ELSE Entered(q, q.tier + 1)
  BY Zenon DEF Decided
<1> HIDE DEF i, q, via
<1>5. /\ q \in RequestType /\ q.pc = req[r].pc
      /\ q.client = req[r].client /\ q.counter = req[r].counter /\ q.tier = req[r].tier
      /\ q.ts = req[r].ts /\ q.via = via /\ q.verdict = req[r].verdict
  BY Zenon, <1>1, <1>2, <1>3 DEF RequestType
<1>6. \A w \in {"block", "allow"} : LET e == [q EXCEPT !.pc = "done", !.verdict = w] IN
        /\ e \in RequestType /\ e.pc = "done" /\ e.client = q.client /\ e.counter = q.counter
        /\ e.tier = q.tier /\ e.ts = q.ts /\ e.via = q.via /\ e.verdict = w
  BY Zenon, <1>5 DEF RequestType, Pcs
<1> DEFINE d == Decided(r, b, over)
           D == /\ d \in RequestType /\ d.client = req[r].client /\ d.counter = req[r].counter
                /\ d.via[i] = b /\ \A j \in TierIndex : j # i => d.via[j] = req[r].via[j]
           Ends == /\ d.tier = i /\ d.ts = req[r].ts /\ d.pc = "done"
                   /\ d.verdict = IF over THEN "block" ELSE "allow"
           GoesOn == /\ ~over /\ i + 1 \in TierIndex /\ d.tier = i + 1 /\ d.ts[i + 1] = now
                     /\ \A j \in TierIndex : j # i + 1 => d.ts[j] = req[r].ts[j]
                     /\ d.pc = (IF UseRedis THEN "redis" ELSE "memory") /\ d.verdict = req[r].verdict
<1> SUFFICES D /\ (Ends \/ GoesOn)
  BY Zenon DEF i, DecidedIs
<1>7. CASE over
  <2>1. d = [q EXCEPT !.pc = "done", !.verdict = "block"]
    BY Zenon, <1>4, <1>7
  <2> HIDE DEF d
  <2>2. /\ d \in RequestType /\ d.pc = "done" /\ d.client = q.client /\ d.counter = q.counter
        /\ d.tier = q.tier /\ d.ts = q.ts /\ d.via = q.via /\ d.verdict = "block"
    BY Zenon, <1>6, <2>1
  <2> QED BY Zenon, <1>2, <1>5, <1>7, <2>2 DEF i
<1>8. CASE ~over /\ q.tier = Len(Tiers)
  <2>1. d = [q EXCEPT !.pc = "done", !.verdict = "allow"]
    BY Zenon, <1>4, <1>8
  <2> HIDE DEF d
  <2>2. /\ d \in RequestType /\ d.pc = "done" /\ d.client = q.client /\ d.counter = q.counter
        /\ d.tier = q.tier /\ d.ts = q.ts /\ d.via = q.via /\ d.verdict = "allow"
    BY Zenon, <1>6, <2>1
  <2> QED BY Zenon, <1>2, <1>5, <1>8, <2>2 DEF i
<1>9. CASE ~over /\ q.tier # Len(Tiers)
  <2>1. i + 1 \in TierIndex
    <3>1. i \in 1..Len(Tiers) /\ Len(Tiers) \in Nat /\ TierIndex = 1..Len(Tiers) /\ i # Len(Tiers)
      BY Zenon, <1>1, <1>5, <1>9, TierFacts DEF i
    <3> QED BY <3>1
  <2>2. d = Entered(q, i + 1)
    BY Zenon, <1>4, <1>5, <1>9 DEF i
  <2> HIDE DEF d
  <2>3. /\ d \in RequestType
        /\ d.client = q.client /\ d.counter = q.counter /\ d.via = q.via /\ d.verdict = q.verdict
        /\ d.tier = i + 1 /\ d.ts[i + 1] = now /\ \A j \in TierIndex : j # i + 1 => d.ts[j] = q.ts[j]
        /\ d.pc = IF UseRedis THEN "redis" ELSE "memory"
    BY ZenonT(30), <1>5, <2>1, <2>2, EnteredFields
  <2> QED BY Zenon, <1>2, <1>5, <1>9, <2>1, <2>3 DEF i
<1> QED BY Zenon, <1>7, <1>8, <1>9

(* What a step may do to the requests: one arrives, waits, or is counted. *)
OthersStay(r) ==
  /\ dep' = dep /\ now' = now
  /\ req' \in [Reqs -> RequestType]
  /\ \A q \in Reqs : q # r => req'[q] = req[q]

Arrives(r) ==
  /\ OthersStay(r) /\ req[r].pc = "new"
  /\ req'[r].client \in Clients /\ req'[r].counter \in Counters
  /\ req'[r].via = req[r].via /\ req'[r].verdict = req[r].verdict
  /\ req'[r].tier = 1 /\ req'[r].ts[1] = now
  /\ \A j \in TierIndex : j # 1 => req'[r].ts[j] = req[r].ts[j]
  /\ req'[r].pc = IF UseRedis THEN "redis" ELSE "memory"

Waits(r) ==
  /\ OthersStay(r) /\ InFlight(r)
  /\ req'[r].client = req[r].client /\ req'[r].counter = req[r].counter
  /\ req'[r].tier = req[r].tier /\ req'[r].ts = req[r].ts /\ req'[r].via = req[r].via
  /\ \/ req'[r].pc \in {"load", "retry"} /\ UseRedis /\ req'[r].verdict = req[r].verdict
     \/ req'[r].pc = "memory" /\ req'[r].verdict = req[r].verdict
     \/ req'[r].pc = "done" /\ req'[r].verdict = "error"

Counts(r, b, over) ==
  LET i == req[r].tier IN
  /\ OthersStay(r) /\ InFlight(r)
  /\ req'[r].client = req[r].client /\ req'[r].counter = req[r].counter
  /\ req'[r].via[i] = b /\ \A j \in TierIndex : j # i => req'[r].via[j] = req[r].via[j]
  /\ \/ /\ req'[r].tier = i /\ req'[r].ts = req[r].ts /\ req'[r].pc = "done"
        /\ req'[r].verdict = IF over THEN "block" ELSE "allow"
     \/ /\ ~over /\ i + 1 \in TierIndex /\ req'[r].tier = i + 1 /\ req'[r].ts[i + 1] = now
        /\ \A j \in TierIndex : j # i + 1 => req'[r].ts[j] = req[r].ts[j]
        /\ req'[r].pc = (IF UseRedis THEN "redis" ELSE "memory")
        /\ req'[r].verdict = req[r].verdict

\* What was stamped, counted or blocked stays so.
GrowsAt(q) ==
  /\ req[q].pc # "new" => req'[q].client = req[q].client
  /\ \A j \in TierIndex : /\ req[q].ts[j] # 0 => req'[q].ts[j] = req[q].ts[j]
                          /\ req[q].via[j] # None => req'[q].via[j] = req[q].via[j]
  /\ req[q].verdict = "block" => req'[q].verdict = "block" /\ req'[q].tier = req[q].tier
Grows == \A q \in Reqs : GrowsAt(q)

\* A step of one request leaves the others.
LEMMA OtherRequests ==
  ASSUME Progress, NEW r, OthersStay(r), NEW q \in Reqs, q # r
  PROVE  ProgressOf(q)' /\ GrowsAt(q)
<1>1. req'[q] = req[q] /\ now' = now /\ TierIndex' = TierIndex /\ UseRedis' = UseRedis
  BY Zenon, DepSame DEF OthersStay
<1>2. InFlight(q)' = InFlight(q) /\ Stamp(q)' = Stamp(q)
  BY Zenon, <1>1 DEF InFlight, Stamp
<1>3. ProgressOf(q)
  BY Zenon DEF Progress
<1>4. ProgressOf(q)'
  BY Zenon, <1>1, <1>2, <1>3 DEF ProgressOf
<1> QED BY Zenon, <1>1, <1>4 DEF GrowsAt

\* An arrival only adds stamps.
LEMMA ArrivalGrows ==
  ASSUME Types, Progress, NEW r \in Reqs, Arrives(r)
  PROVE  Progress' /\ Grows
<1>1. TierIndex' = TierIndex /\ UseRedis' = UseRedis /\ now' = now
  BY Zenon, DepSame DEF Arrives, OthersStay
<1>2. ProgressOf(r) /\ req[r].pc = "new" /\ req[r].tier = 0
  BY Zenon DEF Progress, ProgressOf, Arrives
<1>3. TierIndex = 1..Len(Tiers) /\ 1 \in TierIndex /\ now \in Nat \ {0}
  BY Zenon, TierFacts DEF Types
<1>4. ASSUME NEW j \in TierIndex
      PROVE  req[r].ts[j] = 0 /\ req[r].via[j] = None
  <2>1. ~(j <= 0) /\ ~(j < 0) /\ j # 0
    BY <1>3
  <2> QED BY Zenon, <1>2, <2>1 DEF ProgressOf
<1>5. GrowsAt(r)
  BY Zenon, <1>2, <1>4, NoneApart DEF GrowsAt, ProgressOf
<1>6. ASSUME NEW j \in TierIndex
      PROVE  /\ req'[r].ts[j] <= now
             /\ req'[r].ts[j] # 0 <=> j <= 1
             /\ req'[r].via[j] = None
  <2>1. CASE j = 1
    <3>1. now <= now /\ now # 0 /\ 1 <= 1
      BY <1>3
    <3> QED BY Zenon, <1>3, <1>4, <2>1, <3>1 DEF Arrives
  <2>2. CASE j # 1
    <3>1. ~(j <= 1) /\ 0 <= now
      BY <1>3, <2>2
    <3> QED BY Zenon, <1>4, <2>2, <3>1 DEF Arrives
  <2> QED BY Zenon, <2>1, <2>2
<1>7. req'[r].pc \in {"redis", "memory"} /\ (req'[r].pc = "redis" => UseRedis) /\ req'[r].verdict = None
  BY Zenon, <1>2 DEF ProgressOf, Arrives
<1>8. ProgressOf(r)'
  <2>1. Stamp(r)' = now
    BY Zenon DEF Stamp, Arrives
  <2> QED BY Zenon, <1>1, <1>3, <1>6, <1>7, <2>1 DEF ProgressOf, Arrives
<1>9. OthersStay(r)
  BY Zenon DEF Arrives
<1> QED BY Zenon, <1>5, <1>8, <1>9, OtherRequests DEF Progress, Grows

\* A request in flight is in a tier that it was stamped in now.
LEMMA InFlightAt ==
  ASSUME Types, Progress, NEW r \in Reqs, InFlight(r)
  PROVE  /\ ProgressOf(r) /\ req[r].pc # "new" /\ req[r].pc # "done" /\ req[r].verdict = None
         /\ req[r].tier \in TierIndex /\ req[r].client \in Clients /\ req[r].counter \in Counters
         /\ req[r].ts[req[r].tier] = now /\ Stamp(r) = now
         /\ \A j \in TierIndex :
              /\ req[r].ts[j] # 0 <=> j <= req[r].tier
              /\ req[r].via[j] # None => j < req[r].tier
         /\ req[r].via[req[r].tier] = None
<1>1. ProgressOf(r) /\ req[r].pc # "new" /\ req[r].pc # "done"
  BY Zenon DEF Progress, InFlight
<1>2. req[r].tier \in TierIndex
  BY Zenon, <1>1 DEF ProgressOf
<1>3. ~(req[r].tier < req[r].tier)
  BY <1>2, TierFacts
<1> QED BY Zenon, <1>1, <1>2, <1>3 DEF ProgressOf, Stamp

\* Arrive(r) is an arrival.
LEMMA ArriveIs ==
  ASSUME Types, NEW r \in Reqs, Arrive(r)
  PROVE  Arrives(r) /\ UNCHANGED <<zset, ttl, scripts, mem, evicted>>
<1>1. PICK k \in dep.clients, c \in dep.counters :
        req' = [req EXCEPT ![r] = Entered([req[r] EXCEPT !.client = k, !.counter = c], 1)]
  BY Zenon DEF Arrive
<1> DEFINE q == [req[r] EXCEPT !.client = k, !.counter = c]
           e == Entered(q, 1)
<1>2. k \in Clients /\ c \in Counters /\ 1 \in TierIndex /\ req[r] \in RequestType
  BY Zenon, TierFacts, RequestFields
<1>3. /\ q \in RequestType /\ q.client = k /\ q.counter = c /\ q.ts = req[r].ts
      /\ q.via = req[r].via /\ q.verdict = req[r].verdict
  BY Zenon, <1>2 DEF RequestType
<1>4. req' = [req EXCEPT ![r] = e] /\ req \in [Reqs -> RequestType]
  BY Zenon, <1>1 DEF Types
<1> HIDE DEF q
<1>5. /\ e \in RequestType
      /\ e.client = q.client /\ e.counter = q.counter /\ e.via = q.via /\ e.verdict = q.verdict
      /\ e.tier = 1 /\ e.ts[1] = now /\ \A j \in TierIndex : j # 1 => e.ts[j] = q.ts[j]
      /\ e.pc = IF UseRedis THEN "redis" ELSE "memory"
  BY Zenon, <1>2, <1>3, EnteredFields
<1> HIDE DEF e
<1>6. req'[r] = e /\ req' \in [Reqs -> RequestType] /\ \A p \in Reqs : p # r => req'[p] = req[p]
  BY Zenon, <1>4, <1>5
<1>7. OthersStay(r) /\ req[r].pc = "new" /\ UNCHANGED <<zset, ttl, scripts, mem, evicted>>
  BY Zenon, <1>6 DEF Arrive, OthersStay
<1>8. Arrives(r)
  BY Zenon, <1>2, <1>3, <1>5, <1>6, <1>7 DEF Arrives
<1> QED BY Zenon, <1>7, <1>8

\* A request that goes on waiting, or gives up.
LEMMA WaitsIs ==
  ASSUME Types, Progress, NEW r \in Reqs, InFlight(r), dep' = dep, now' = now,
         NEW e, req' = [req EXCEPT ![r] = e],
         \/ e = [req[r] EXCEPT !.pc = "load"] /\ UseRedis
         \/ e = [req[r] EXCEPT !.pc = "retry"] /\ UseRedis
         \/ e = [req[r] EXCEPT !.pc = "memory"]
         \/ e = [req[r] EXCEPT !.pc = "done", !.verdict = "error"]
  PROVE  Waits(r)
<1>1. req[r] \in RequestType /\ req \in [Reqs -> RequestType]
  BY Zenon, RequestFields DEF Types
<1> DEFINE Same == /\ e \in RequestType
                   /\ e.client = req[r].client /\ e.counter = req[r].counter
                   /\ e.tier = req[r].tier /\ e.ts = req[r].ts /\ e.via = req[r].via
           Goes == \/ e.pc \in {"load", "retry"} /\ UseRedis /\ e.verdict = req[r].verdict
                   \/ e.pc = "memory" /\ e.verdict = req[r].verdict
                   \/ e.pc = "done" /\ e.verdict = "error"
<1>2. Same /\ Goes
  <2>1. CASE e = [req[r] EXCEPT !.pc = "load"] /\ UseRedis
    BY Zenon, <1>1, <2>1 DEF RequestType, Pcs
  <2>2. CASE e = [req[r] EXCEPT !.pc = "retry"] /\ UseRedis
    BY Zenon, <1>1, <2>2 DEF RequestType, Pcs
  <2>3. CASE e = [req[r] EXCEPT !.pc = "memory"]
    BY Zenon, <1>1, <2>3 DEF RequestType, Pcs
  <2>4. CASE e = [req[r] EXCEPT !.pc = "done", !.verdict = "error"]
    BY Zenon, <1>1, <2>4 DEF RequestType, Pcs
  <2> QED BY Zenon, <2>1, <2>2, <2>3, <2>4
<1>3. req'[r] = e /\ req' \in [Reqs -> RequestType] /\ \A p \in Reqs : p # r => req'[p] = req[p]
  <2>1. e \in RequestType
    BY Zenon, <1>2
  <2> QED BY Zenon, <1>1, <2>1
<1>4. OthersStay(r)
  BY Zenon, <1>3 DEF OthersStay
<1>5. Waits(r)
  <2>1. /\ req'[r].client = req[r].client /\ req'[r].counter = req[r].counter
        /\ req'[r].tier = req[r].tier /\ req'[r].ts = req[r].ts /\ req'[r].via = req[r].via
    BY Zenon, <1>2, <1>3
  <2>2. \/ req'[r].pc \in {"load", "retry"} /\ UseRedis /\ req'[r].verdict = req[r].verdict
        \/ req'[r].pc = "memory" /\ req'[r].verdict = req[r].verdict
        \/ req'[r].pc = "done" /\ req'[r].verdict = "error"
    BY Zenon, <1>2, <1>3
  <2> QED BY Zenon, <1>4, <2>1, <2>2 DEF Waits
<1> QED BY Zenon, <1>5

\* A decided request has been counted.
LEMMA CountsIs ==
  ASSUME Types, Progress, NEW r \in Reqs, InFlight(r), dep' = dep, now' = now,
         NEW b \in Backends, NEW over \in BOOLEAN, req' = [req EXCEPT ![r] = Decided(r, b, over)]
  PROVE  Counts(r, b, over)
<1> DEFINE q == Decided(r, b, over)
           i == req[r].tier
<1>1. i \in TierIndex /\ req \in [Reqs -> RequestType] /\ req' = [req EXCEPT ![r] = q]
  BY Zenon, InFlightAt DEF Types
<1>2. /\ q \in RequestType
      /\ q.client = req[r].client /\ q.counter = req[r].counter
      /\ q.via[i] = b /\ \A j \in TierIndex : j # i => q.via[j] = req[r].via[j]
      /\ \/ /\ q.tier = i /\ q.ts = req[r].ts /\ q.pc = "done"
            /\ q.verdict = IF over THEN "block" ELSE "allow"
         \/ /\ ~over /\ i + 1 \in TierIndex /\ q.tier = i + 1 /\ q.ts[i + 1] = now
            /\ \A j \in TierIndex : j # i + 1 => q.ts[j] = req[r].ts[j]
            /\ q.pc = (IF UseRedis THEN "redis" ELSE "memory") /\ q.verdict = req[r].verdict
  <2>1. DecidedIs(q, r, b, over)
    BY Zenon, <1>1, DecidedFields
  <2> HIDE DEF q
  <2> QED BY Zenon, <2>1 DEF DecidedIs
<1> HIDE DEF q
<1>3. req'[r] = q /\ req' \in [Reqs -> RequestType] /\ \A p \in Reqs : p # r => req'[p] = req[p]
  BY Zenon, <1>1, <1>2
<1>4. OthersStay(r)
  BY Zenon, <1>3 DEF OthersStay
<1>5. Counts(r, b, over)
  BY ZenonT(30), <1>2, <1>3, <1>4 DEF Counts
<1> QED BY Zenon, <1>5

\* A step that counts nothing only changes where the request waits.
LEMMA WaitingGrows ==
  ASSUME Types, Progress, NEW r \in Reqs, Waits(r)
  PROVE  Progress' /\ Grows
<1>1. TierIndex' = TierIndex /\ UseRedis' = UseRedis /\ now' = now
  BY Zenon, DepSame DEF Waits, OthersStay
<1>2. ProgressOf(r) /\ req[r].pc # "new" /\ req[r].verdict = None /\ Stamp(r) = now
      /\ \A j \in TierIndex : req[r].via[j] # None => j < req[r].tier
  BY Zenon, InFlightAt DEF Waits
<1>3. GrowsAt(r)
  BY Zenon, <1>2, NoneApart DEF GrowsAt, Waits
<1>4. Stamp(r)' = now /\ req'[r].pc # "new" /\ req'[r].pc # "redis"
  BY Zenon, <1>2 DEF Stamp, Waits
<1>5. (req'[r].verdict # None => req'[r].pc = "done") /\ (req'[r].pc \in {"load", "retry"} => UseRedis)
  BY Zenon, <1>2 DEF Waits
<1>6. ProgressOf(r)'
  BY Zenon, <1>1, <1>2, <1>4, <1>5 DEF ProgressOf, Waits
<1>7. OthersStay(r)
  BY Zenon DEF Waits
<1> QED BY Zenon, <1>3, <1>6, <1>7, OtherRequests DEF Progress, Grows

\* A step that counts only adds a stamp for the next tier and a verdict.
LEMMA CountingGrows ==
  ASSUME Types, Progress, NEW r \in Reqs, NEW b \in Backends, NEW over \in BOOLEAN, Counts(r, b, over)
  PROVE  Progress' /\ Grows
<1> DEFINE i == req[r].tier
<1>1. TierIndex' = TierIndex /\ UseRedis' = UseRedis /\ now' = now
  BY Zenon, DepSame DEF Counts, OthersStay
<1>s. OthersStay(r)
  BY Zenon DEF Counts
<1> SUFFICES GrowsAt(r) /\ ProgressOf(r)'
  BY Zenon, <1>s, OtherRequests DEF Progress, Grows
<1>f. InFlight(r)
  BY Zenon DEF Counts
<1>2. /\ ProgressOf(r) /\ req[r].pc # "new" /\ req[r].verdict = None /\ i \in TierIndex
      /\ req[r].ts[i] = now /\ req[r].via[i] = None
      /\ req[r].client \in Clients /\ req[r].counter \in Counters
      /\ \A j \in TierIndex : /\ req[r].ts[j] # 0 <=> j <= i
                              /\ req[r].via[j] # None => j < i
  BY Zenon, <1>f, InFlightAt
<1>3. TierIndex = 1..Len(Tiers) /\ Len(Tiers) \in Nat /\ now \in Nat \ {0}
  BY Zenon, TierFacts DEF Types
<1>4. CASE /\ req'[r].tier = i /\ req'[r].ts = req[r].ts /\ req'[r].pc = "done"
  <2>1. GrowsAt(r)
    BY Zenon, <1>2, <1>4, NoneApart DEF GrowsAt, Counts
  <2>2. ASSUME NEW j \in TierIndex, req'[r].via[j] # None PROVE j < i \/ j = i
    BY Zenon, <1>2, <2>2 DEF Counts
  <2>3. ~InFlight(r)'
    BY Zenon, <1>4 DEF InFlight
  <2>4. ProgressOf(r)'
    BY Zenon, <1>1, <1>2, <1>4, <2>2, <2>3 DEF ProgressOf, Counts
  <2> QED BY Zenon, <2>1, <2>4
<1>5. CASE /\ i + 1 \in TierIndex /\ req'[r].tier = i + 1 /\ req'[r].ts[i + 1] = now
           /\ \A j \in TierIndex : j # i + 1 => req'[r].ts[j] = req[r].ts[j]
           /\ req'[r].pc = (IF UseRedis THEN "redis" ELSE "memory")
           /\ req'[r].verdict = req[r].verdict
  <2>1. ASSUME NEW j \in TierIndex
        PROVE  (j < i => j < i + 1) /\ (j # i + 1 => (j <= i <=> j <= i + 1)) /\ i < i + 1
               /\ now <= now /\ now # 0 /\ i + 1 <= i + 1 /\ ~(i + 1 <= i)
    BY <1>2, <1>3
  <2>2. GrowsAt(r)
    BY Zenon, <1>2, <1>5, <2>1, NoneApart DEF GrowsAt, Counts
  <2>3. ASSUME NEW j \in TierIndex
        PROVE  /\ req'[r].ts[j] <= now
               /\ req'[r].ts[j] # 0 <=> j <= i + 1
    BY Zenon, <1>2, <1>5, <2>1 DEF ProgressOf
  <2>4. ASSUME NEW j \in TierIndex, req'[r].via[j] # None PROVE j < i + 1
    <3>1. CASE j = i
      BY Zenon, <2>1, <3>1
    <3>2. CASE j # i
      BY Zenon, <1>2, <2>1, <2>4, <3>2 DEF Counts
    <3> QED BY Zenon, <3>1, <3>2
  <2>5. Stamp(r)' = now
    BY Zenon, <1>5 DEF Stamp
  <2>6. req'[r].pc \in {"redis", "memory"} /\ (req'[r].pc = "redis" => UseRedis)
    BY Zenon, <1>5
  <2>7. ProgressOf(r)'
    <3> HIDE DEF i
    <3> QED BY ZenonT(30), <1>1, <1>2, <1>5, <2>3, <2>4, <2>5, <2>6 DEF ProgressOf, Counts
  <2> QED BY Zenon, <2>2, <2>7
<1> QED BY Zenon, <1>4, <1>5 DEF Counts

-----------------------------------------------------------------------------
(* What is counted *)

\* Subsets of the requests count no more than the whole.
LEMMA SmallerReqs ==
  ASSUME NEW S \in SUBSET Reqs, NEW T \in SUBSET S
  PROVE  Cardinality(T) <= Cardinality(S)
BY Zenon, FiniteReqs, FS_Subset

\* A counted request was stamped, and its stamp stays.
LEMMA CountedStamp ==
  ASSUME Types, Progress, NEW k, NEW i \in TierIndex, NEW b \in Backends, NEW q \in Counted(k, i, b)
  PROVE  /\ q \in Reqs /\ req[q].client = k /\ req[q].via[i] = b
         /\ req[q].ts[i] # 0 /\ req[q].ts[i] \in Nat /\ req[q].ts[i] <= now
<1>1. q \in Reqs /\ req[q].client = k /\ req[q].via[i] = b /\ b # None
  BY Zenon, NoneApart DEF Counted
<1>2. ProgressOf(q)
  BY Zenon, <1>1 DEF Progress
<1>3. i < req[q].tier \/ i = req[q].tier
  BY Zenon, <1>1, <1>2 DEF ProgressOf
<1>4. i <= req[q].tier
  <2>1. req[q].tier \in 0..Len(Tiers) /\ i \in 1..Len(Tiers) /\ Len(Tiers) \in Nat
    BY Zenon, <1>1, RequestFields, TierFacts
  <2> QED BY <1>3, <2>1
<1>5. req[q].ts[i] # 0 /\ req[q].ts[i] <= now
  BY Zenon, <1>2, <1>4 DEF ProgressOf
<1>6. req[q].ts[i] \in Nat
  BY Zenon, <1>1, RequestFields
<1> QED BY Zenon, <1>1, <1>5, <1>6

\* The same without its client and backend.
LEMMA StampedThere ==
  ASSUME Types, Progress, NEW k, NEW i \in TierIndex, NEW b \in Backends, NEW q \in Counted(k, i, b)
  PROVE  q \in Reqs /\ req[q].ts[i] # 0 /\ req[q].ts[i] \in Nat
BY CountedStamp

\* Where nothing more is counted, nothing changes that a window is made of.
LEMMA WindowsStay ==
  ASSUME Types, Progress, Grows, dep' = dep, NEW k, NEW i \in TierIndex, NEW b \in Backends,
         Counted(k, i, b)' = Counted(k, i, b)
  PROVE  /\ \A t \in Int : From(k, i, b, t)' = From(k, i, b, t)
         /\ \A at \in Int : Passed(k, i, b, at)' \subseteq Passed(k, i, b, at)
<1>1. ASSUME NEW q \in Counted(k, i, b) PROVE req'[q].ts[i] = req[q].ts[i] /\ GrowsAt(q)
  <2>1. q \in Reqs /\ req[q].ts[i] # 0
    BY CountedStamp
  <2> QED BY Zenon, <2>1 DEF Grows, GrowsAt
<1>2. ASSUME NEW t \in Int PROVE From(k, i, b, t)' = From(k, i, b, t)
  <2>1. \A q : q \in From(k, i, b, t)' <=> q \in Counted(k, i, b) /\ req'[q].ts[i] >= t
    BY Zenon DEF From
  <2>2. \A q : q \in From(k, i, b, t) <=> q \in Counted(k, i, b) /\ req[q].ts[i] >= t
    BY Zenon DEF From
  <2>3. \A q : q \in From(k, i, b, t)' <=> q \in From(k, i, b, t)
    BY Zenon, <1>1, <2>1, <2>2
  <2> QED BY Zenon, <2>3
<1>3. ASSUME NEW at \in Int PROVE Passed(k, i, b, at)' \subseteq Passed(k, i, b, at)
  <2>1. Tiers' = Tiers
    BY Zenon, DepSame
  <2>2. ASSUME NEW q \in Passed(k, i, b, at)' PROVE q \in Passed(k, i, b, at)
    <3>1. q \in Counted(k, i, b) /\ ~(req'[q].verdict = "block" /\ req'[q].tier = i)
          /\ req'[q].ts[i] \in (at - Tiers[i].window + 1)..at
      BY Zenon, <2>1, <2>2 DEF Passed
    <3>2. ~(req[q].verdict = "block" /\ req[q].tier = i)
      BY Zenon, <1>1, <3>1 DEF GrowsAt
    <3> QED BY Zenon, <1>1, <3>1, <3>2 DEF Passed
  <2> QED BY Zenon, <2>2
<1> QED BY Zenon, <1>2, <1>3

\* A step that counts nothing leaves what every backend counted.
LEMMA Uncounted ==
  ASSUME Types, Progress, NEW r \in Reqs, Arrives(r) \/ Waits(r),
         NEW k, NEW i \in TierIndex, NEW b \in Backends
  PROVE  Counted(k, i, b)' = Counted(k, i, b)
<1>1. \A q \in Reqs : q # r => req'[q] = req[q]
  BY Zenon DEF Arrives, Waits, OthersStay
<1>2. CASE Arrives(r)
  <2>1. ProgressOf(r) /\ req[r].tier = 0 /\ req[r].pc # "done"
    BY Zenon, <1>2 DEF Progress, ProgressOf, Arrives
  <2>2. ~(i < 0) /\ i # 0
    BY TierFacts
  <2>3. req[r].via[i] # b /\ req'[r].via[i] # b
    BY Zenon, <1>2, <2>1, <2>2, NoneApart DEF ProgressOf, Arrives
  <2> QED BY Zenon, <1>1, <2>3 DEF Counted
<1>3. CASE Waits(r)
  BY Zenon, <1>1, <1>3 DEF Counted, Waits
<1> QED BY Zenon, <1>2, <1>3

\* A step that counts adds its request to one tier of one backend and to no
\* other.
LEMMA CountedOnce ==
  ASSUME Types, Progress, NEW r \in Reqs, NEW b \in Backends, NEW over, Counts(r, b, over),
         NEW k, NEW i \in TierIndex, NEW c \in Backends
  PROVE  IF k = req[r].client /\ i = req[r].tier /\ c = b
         THEN Counted(k, i, c)' = Counted(k, i, c) \cup {r} /\ r \notin Counted(k, i, c)
         ELSE Counted(k, i, c)' = Counted(k, i, c)
<1>1. \A q \in Reqs : q # r => req'[q] = req[q]
  BY Zenon DEF Counts, OthersStay
<1>2. /\ req[r].via[req[r].tier] = None /\ req[r].tier \in TierIndex
      /\ req'[r].client = req[r].client /\ req'[r].via[req[r].tier] = b
      /\ \A j \in TierIndex : j # req[r].tier => req'[r].via[j] = req[r].via[j]
  BY Zenon, InFlightAt DEF Counts
<1>c. /\ \A q : q \in Counted(k, i, c)' <=> q \in Reqs /\ req'[q].client = k /\ req'[q].via[i] = c
      /\ \A q : q \in Counted(k, i, c) <=> q \in Reqs /\ req[q].client = k /\ req[q].via[i] = c
  BY Zenon DEF Counted
<1>d. \A q \in Reqs : q # r => (q \in Counted(k, i, c)' <=> q \in Counted(k, i, c))
  BY ZenonT(30), <1>1, <1>c
<1>e. c # None
  BY Zenon, NoneApart
<1>3. CASE k = req[r].client /\ i = req[r].tier /\ c = b
  <2>1. r \in Counted(k, i, c)' /\ r \notin Counted(k, i, c)
    BY Zenon, <1>2, <1>3, <1>c, <1>e
  <2>2. \A q : q \in Counted(k, i, c)' <=> q \in Counted(k, i, c) \cup {r}
    BY Zenon, <1>c, <1>d, <2>1
  <2>3. Counted(k, i, c)' = Counted(k, i, c) \cup {r}
    BY Zenon, <2>2
  <2> QED BY Zenon, <1>3, <2>1, <2>3
<1>4. CASE ~(k = req[r].client /\ i = req[r].tier /\ c = b)
  <2>1. r \in Counted(k, i, c)' <=> r \in Counted(k, i, c)
    <3>1. CASE i = req[r].tier
      BY Zenon, <1>2, <1>4, <1>c, <1>e, <3>1
    <3>2. CASE i # req[r].tier
      BY Zenon, <1>2, <1>c, <3>2
    <3> QED BY Zenon, <3>1, <3>2
  <2>2. \A q : q \in Counted(k, i, c)' <=> q \in Counted(k, i, c)
    BY Zenon, <1>c, <1>d, <2>1
  <2>3. Counted(k, i, c)' = Counted(k, i, c)
    BY Zenon, <2>2
  <2> QED BY Zenon, <1>4, <2>3
<1> QED BY Zenon, <1>3, <1>4

Here(r, b, k, i, c) == k = req[r].client /\ i = req[r].tier /\ c = b
\* The same, where the request was not counted.
LEMMA CountedElsewhere ==
  ASSUME Types, Progress, NEW r \in Reqs, NEW b \in Backends, NEW over, Counts(r, b, over),
         NEW k, NEW i \in TierIndex, NEW c \in Backends, ~Here(r, b, k, i, c)
  PROVE  Counted(k, i, c)' = Counted(k, i, c)
BY CountedOnce DEF Here

\* A limit that was enforced still is where nothing more is counted.
LEMMA EnforcedStays ==
  ASSUME Types, Progress, Grows, dep' = dep, \A c \in Counters : evicted[c] \subseteq evicted'[c],
         NEW k, NEW i \in TierIndex, NEW b \in Backends,
         Counted(k, i, b)' = Counted(k, i, b), EnforcedAt(k, i, b)
  PROVE  EnforcedAt(k, i, b)'
<1> SUFFICES ASSUME Kept(b, k, i)', NEW at \in Int
             PROVE  Cardinality(Passed(k, i, b, at)') <= Tiers[i].limit
  BY Zenon, DepSame DEF EnforcedAt
<1>1. Kept(b, k, i)
  BY Zenon, DepSame DEF Kept
<1>2. Cardinality(Passed(k, i, b, at)) <= Tiers[i].limit
  BY Zenon, <1>1 DEF EnforcedAt
<1>3. Passed(k, i, b, at)' \in SUBSET Passed(k, i, b, at) /\ Passed(k, i, b, at) \in SUBSET Reqs
  <2>1. Passed(k, i, b, at)' \subseteq Passed(k, i, b, at)
    BY Zenon, WindowsStay
  <2>2. \A q \in Passed(k, i, b, at) : q \in Reqs
    BY Zenon DEF Passed, Counted
  <2> QED BY Zenon, <2>1, <2>2
<1> DEFINE old == Passed(k, i, b, at)
           new == Passed(k, i, b, at)'
<1>4. /\ Cardinality(new) <= Cardinality(old) /\ Cardinality(new) \in Nat /\ Cardinality(old) \in Nat
      /\ Tiers[i].limit \in Nat
  <2> HIDE DEF old, new
  <2>1. new \in SUBSET old /\ old \in SUBSET Reqs /\ new \in SUBSET Reqs
    BY Zenon, <1>3 DEF old, new
  <2> QED BY Zenon, <2>1, SmallerReqs, FiniteReqs, TierFacts
<1> HIDE DEF old, new
<1>5. Cardinality(new) <= Tiers[i].limit
  <2>1. Cardinality(old) <= Tiers[i].limit
    BY Zenon, <1>2 DEF old
  <2> QED BY <1>4, <2>1
<1> QED BY Zenon, <1>5 DEF new

\* The other requests that a blocked one was counted with.
Rivals(r) ==
  {q \in Reqs \ {r} : /\ req[q].client = req[r].client
                      /\ req[q].ts[req[r].tier] # 0
                      /\ req[q].ts[req[r].tier] > Stamp(r) - Tier(r).window}

\* A request once blocked with cause was blocked with cause: rivals only join.
LEMMA BlockedStays ==
  ASSUME Types, Progress, Grows, dep' = dep, NEW r \in Reqs, req[r].verdict = "block",
         Cardinality(Rivals(r)) >= Tier(r).limit
  PROVE  Cardinality(Rivals(r)') >= Tier(r)'.limit
<1> DEFINE i == req[r].tier
<1>1. ProgressOf(r) /\ req[r].pc = "done" /\ i \in TierIndex
  BY Zenon, NoneApart DEF Progress, ProgressOf
<1>2. i <= i /\ i \in Nat
  BY <1>1, TierFacts
<1>3. /\ req'[r].tier = i /\ req'[r].client = req[r].client /\ Stamp(r)' = Stamp(r)
      /\ Tier(r)' = Tier(r)
  <2>1. GrowsAt(r) /\ req[r].ts[i] # 0 /\ Tiers' = Tiers
    BY Zenon, <1>1, <1>2, DepSame DEF Grows, ProgressOf
  <2>2. req'[r].tier = i /\ req'[r].client = req[r].client /\ req'[r].ts[i] = req[r].ts[i]
    BY Zenon, <1>1, <2>1 DEF GrowsAt
  <2> QED BY Zenon, <2>1, <2>2 DEF Stamp, Tier
<1>4. ASSUME NEW q \in Rivals(r) PROVE q \in Rivals(r)'
  <2>1. q \in Reqs \ {r} /\ req[q].client = req[r].client /\ req[q].ts[i] # 0
        /\ req[q].ts[i] > Stamp(r) - Tier(r).window
    BY Zenon, <1>4 DEF Rivals
  <2>2. GrowsAt(q) /\ ProgressOf(q) /\ i <= req[q].tier
    BY Zenon, <1>1, <2>1 DEF Grows, Progress, ProgressOf
  <2>3. req[q].tier # 0
    BY <1>1, <2>2, TierFacts
  <2>4. req'[q].client = req[q].client /\ req'[q].ts[i] = req[q].ts[i]
    BY Zenon, <1>1, <2>1, <2>2, <2>3 DEF GrowsAt, ProgressOf
  <2> HIDE DEF i
  <2> QED BY Zenon, <1>3, <2>1, <2>4 DEF Rivals
<1> DEFINE old == Rivals(r)
           new == Rivals(r)'
<1>5. old \in SUBSET new /\ new \in SUBSET Reqs /\ old \in SUBSET Reqs
  BY Zenon, <1>4 DEF Rivals
<1>6. Cardinality(old) >= Tier(r).limit /\ Tier(r).limit \in Nat
  BY Zenon, <1>1, TierFacts DEF Tier
<1> HIDE DEF old, new
<1>7. Cardinality(old) <= Cardinality(new) /\ Cardinality(old) \in Nat /\ Cardinality(new) \in Nat
  BY Zenon, <1>5, SmallerReqs, FiniteReqs
<1>8. Cardinality(new) >= Tier(r).limit
  BY <1>6, <1>7
<1> QED BY Zenon, <1>3, <1>8 DEF new

-----------------------------------------------------------------------------
(* Redis *)

\* A request that has a stamp keeps its member, and others go on to be its client's.
LEMMA MemberStays ==
  ASSUME Types, Progress, Grows, dep' = dep, NEW q \in Reqs, NEW i \in TierIndex, req[q].ts[i] # 0
  PROVE  /\ MemberOf(q, i)' = MemberOf(q, i) /\ req'[q].ts[i] = req[q].ts[i]
         /\ req'[q].client = req[q].client
<1>1. GrowsAt(q) /\ ProgressOf(q) /\ i <= req[q].tier
  BY Zenon DEF Grows, Progress, ProgressOf
<1>2. req[q].tier # 0
  BY <1>1, TierFacts
<1>3. req'[q].ts[i] = req[q].ts[i] /\ req'[q].client = req[q].client
  BY Zenon, <1>1, <1>2 DEF GrowsAt, ProgressOf
<1>4. Coarse' = Coarse
  BY Zenon, DepSame
<1> QED BY Zenon, <1>3, <1>4 DEF MemberOf

\* The sorted set of a key no step touches.
LEMMA SetStays ==
  ASSUME Types, Progress, Grows, dep' = dep, now' \in Nat, now' >= now,
         NEW k \in Clients, NEW i \in TierIndex,
         Counted(k, i, "redis")' = Counted(k, i, "redis"),
         zset'[KeyOf(k, i)] = zset[KeyOf(k, i)], ttl'[KeyOf(k, i)] = ttl[KeyOf(k, i)],
         Known(k, i), Held(k, i)
  PROVE  Known(k, i)' /\ Held(k, i)'
<1>1. Tiers' = Tiers /\ Coarse' = Coarse /\ KeyOf(k, i)' = KeyOf(k, i)
  BY Zenon, DepSame
<1>2. Known(k, i)'
  <2>1. ASSUME NEW m \in zset[KeyOf(k, i)]
        PROVE  \E q \in Reqs : req'[q].client = k /\ req'[q].ts[i] # 0 /\ m = MemberOf(q, i)'
    <3>1. PICK q \in Reqs : req[q].client = k /\ req[q].ts[i] # 0 /\ m = MemberOf(q, i)
      BY Zenon DEF Known
    <3>2. req'[q].client = k /\ req'[q].ts[i] # 0 /\ m = MemberOf(q, i)'
      BY <3>1, MemberStays
    <3> QED BY Zenon, <3>2
  <2> QED BY Zenon, <1>1, <2>1 DEF Known
<1>3. Held(k, i)'
  <2>1. ASSUME NEW q \in Counted(k, i, "redis")
        PROVE  /\ ~Coarse
               /\ req'[q].ts[i] + Tiers[i].window > now' =>
                    MemberOf(q, i)' \in zset[KeyOf(k, i)]
                    /\ ttl[KeyOf(k, i)] >= req'[q].ts[i] + Tiers[i].window
    <3>1. q \in Reqs /\ req[q].ts[i] # 0 /\ req[q].ts[i] \in Nat
      <4>1. "redis" \in Backends
        BY Zenon, NoneApart
      <4> QED BY <4>1, CountedStamp
    <3>2. MemberOf(q, i)' = MemberOf(q, i) /\ req'[q].ts[i] = req[q].ts[i]
      BY <3>1, MemberStays
    <3>3. req[q].ts[i] + Tiers[i].window > now' => req[q].ts[i] + Tiers[i].window > now
      <4>1. Tiers[i].window \in Nat /\ now \in Nat
        BY Zenon, TierFacts DEF Types
      <4> QED BY <3>1, <4>1
    <3> QED BY Zenon, <3>2, <3>3 DEF Held
  <2> QED BY Zenon, <1>1, <2>1 DEF Held
<1> QED BY Zenon, <1>2, <1>3

\* The member of a request begins with its stamp.
LEMMA MemberBegins ==
  ASSUME NEW q, NEW i
  PROVE  /\ MemberOf(q, i)[1] = req[q].ts[i]
         /\ ~Coarse => \A p : MemberOf(p, i) = MemberOf(q, i) => p = q
<1>1. CASE Coarse
  BY <1>1 DEF MemberOf
<1>2. CASE ~Coarse
  BY <1>2 DEF MemberOf
<1> QED BY Zenon, <1>1, <1>2

\* The window that Redis counts: stamps of the client's requests that are in it,
\* and all of those Redis has counted.
WindowOk(r, k, i) ==
  /\ \A m \in Window(r) :
       \E q \in Reqs : /\ req[q].client = k /\ req[q].ts[i] # 0 /\ m = MemberOf(q, i)
                       /\ req[q].ts[i] + Tiers[i].window > now
  /\ \A q \in Counted(k, i, "redis") :
       req[q].ts[i] + Tiers[i].window > now => MemberOf(q, i) \in Window(r)
  /\ MemberOf(r, i) \in Window(r)
LEMMA WindowIs ==
  ASSUME Types, Progress, NEW r \in Reqs, InFlight(r), NEW k \in Clients, NEW i \in TierIndex,
         k = req[r].client, i = req[r].tier, Known(k, i), Held(k, i)
  PROVE  WindowOk(r, k, i)
<1>1. /\ Stamp(r) = now /\ req[r].ts[i] = now /\ req[r].ts[i] # 0
      /\ now \in Nat \ {0} /\ Tiers[i].window \in Nat \ {0}
  <2>1. now # 0
    BY DEF Types
  <2> QED BY Zenon, <2>1, InFlightAt, TierFacts DEF Types
<1>2. BucketOf(r) = KeyOf(k, i) /\ Member(r) = MemberOf(r, i) /\ Tier(r) = Tiers[i]
  BY Zenon DEF BucketOf, KeyOf, Member, MemberOf, Stamp, Tier
<1>3. Window(r) = {m \in Live(KeyOf(k, i)) \cup {MemberOf(r, i)} : m[1] + Tiers[i].window > now}
  BY Zenon, <1>1, <1>2 DEF Window, InWindow
<1>4. Live(KeyOf(k, i)) = IF now < ttl[KeyOf(k, i)] THEN zset[KeyOf(k, i)] ELSE {}
  BY Zenon DEF Live
<1>5. ASSUME NEW m \in Window(r)
      PROVE  \E q \in Reqs : /\ req[q].client = k /\ req[q].ts[i] # 0 /\ m = MemberOf(q, i)
                             /\ req[q].ts[i] + Tiers[i].window > now
  <2>1. (m \in zset[KeyOf(k, i)] \/ m = MemberOf(r, i)) /\ m[1] + Tiers[i].window > now
    BY Zenon, <1>3, <1>4
  <2>2. PICK q \in Reqs : req[q].client = k /\ req[q].ts[i] # 0 /\ m = MemberOf(q, i)
    BY Zenon, <1>1, <2>1 DEF Known
  <2>3. m[1] = req[q].ts[i]
    BY Zenon, <2>2, MemberBegins
  <2> QED BY Zenon, <2>1, <2>2, <2>3
<1>6. ASSUME NEW q \in Counted(k, i, "redis"), req[q].ts[i] + Tiers[i].window > now
      PROVE  MemberOf(q, i) \in Window(r)
  <2>1. MemberOf(q, i) \in zset[KeyOf(k, i)] /\ ttl[KeyOf(k, i)] >= req[q].ts[i] + Tiers[i].window
    BY Zenon, <1>6 DEF Held
  <2>2. now < ttl[KeyOf(k, i)]
    <3>1. "redis" \in Backends /\ KeyOf(k, i) \in Keys
      BY Zenon, NoneApart, KeysApart
    <3>2. req[q].ts[i] \in Nat
      BY Zenon, <3>1, StampedThere
    <3>3. ttl[KeyOf(k, i)] \in Nat
      BY Zenon, <3>1 DEF Types
    <3> QED BY <1>1, <1>6, <2>1, <3>2, <3>3
  <2>3. MemberOf(q, i)[1] + Tiers[i].window > now
    BY Zenon, <1>6, MemberBegins
  <2> QED BY Zenon, <1>3, <1>4, <2>1, <2>2, <2>3
<1>7. MemberOf(r, i) \in Window(r)
  <2>1. now + Tiers[i].window > now
    BY <1>1
  <2>2. MemberOf(r, i)[1] = now
    BY <1>1, MemberBegins
  <2> QED BY Zenon, <1>3, <2>1, <2>2
<1> QED BY Zenon, <1>5, <1>6, <1>7 DEF WindowOk

\* A hit that is recorded, whether its answer arrives or not.
LEMMA RecordedSets ==
  ASSUME Types, Progress, SortedSets, Distinct, NEW r \in Reqs, InFlight(r), RecordHit(r),
         Grows, dep' = dep, now' = now, ~Coarse,
         \A k \in Clients, i \in TierIndex :
           \A q \in Counted(k, i, "redis")' :
              q \in Counted(k, i, "redis") \/ (q = r /\ k = req[r].client /\ i = req[r].tier)
  PROVE  SortedSets'
<1> SUFFICES ASSUME NEW k \in Clients, NEW i \in TierIndex
             PROVE  Known(k, i)' /\ Held(k, i)'
  BY Zenon, DepSame DEF SortedSets
<1>0. Tiers' = Tiers /\ Coarse' = Coarse /\ KeyOf(k, i)' = KeyOf(k, i)
  BY Zenon, DepSame
<1>1. /\ Known(k, i) /\ Held(k, i) /\ KeyOf(k, i) \in Keys
      /\ req[r].client \in Clients /\ req[r].tier \in TierIndex /\ req[r].ts[req[r].tier] = now
      /\ now \in Nat \ {0} /\ Tiers[i].window \in Nat \ {0}
  BY Zenon, InFlightAt, TierFacts, KeysApart DEF SortedSets, Types
<1>2. BucketOf(r) = KeyOf(req[r].client, req[r].tier) /\ BucketOf(r) \in Keys
  <2>1. BucketOf(r) = KeyOf(req[r].client, req[r].tier)
    BY Zenon DEF BucketOf, KeyOf, Tier
  <2> QED BY <1>1, <2>1, KeysApart
<1>z. /\ zset' = [zset EXCEPT ![BucketOf(r)] = Window(r)] /\ DOMAIN zset = Keys
      /\ ttl' = [ttl EXCEPT ![BucketOf(r)] = now + KeyLifetime(Tier(r).window)] /\ DOMAIN ttl = Keys
  <2>1. zset = [l \in Keys |-> zset[l]] /\ ttl \in [Keys -> Nat]
    BY Zenon DEF Types
  <2>2. DOMAIN zset = Keys
    BY <2>1
  <2> QED BY Zenon, <2>1, <2>2 DEF RecordHit
<1>a. ASSUME NEW m, NEW q \in Reqs, req[q].client = k, req[q].ts[i] # 0, m = MemberOf(q, i)
      PROVE  \E p \in Reqs : req'[p].client = k /\ req'[p].ts[i] # 0 /\ m = MemberOf(p, i)'
  <2>1. req'[q].client = k /\ req'[q].ts[i] # 0 /\ m = MemberOf(q, i)'
    BY <1>a, MemberStays
  <2> QED BY Zenon, <2>1
<1>b. ASSUME NEW q \in Counted(k, i, "redis")
      PROVE  /\ MemberOf(q, i)' = MemberOf(q, i) /\ req'[q].ts[i] = req[q].ts[i]
             /\ req[q].ts[i] \in Nat /\ req[q].ts[i] <= now
  <2>1. "redis" \in Backends
    BY Zenon, NoneApart
  <2>2. q \in Reqs /\ req[q].ts[i] # 0 /\ req[q].ts[i] \in Nat /\ req[q].ts[i] <= now
    BY <2>1, CountedStamp
  <2>3. MemberOf(q, i)' = MemberOf(q, i) /\ req'[q].ts[i] = req[q].ts[i]
    BY <2>2, MemberStays
  <2> QED BY Zenon, <2>2, <2>3
<1>3. CASE ~(k = req[r].client /\ i = req[r].tier)
  <2>1. KeyOf(k, i) # BucketOf(r)
    BY <1>1, <1>2, <1>3, KeysApart
  <2>2. zset'[KeyOf(k, i)] = zset[KeyOf(k, i)] /\ ttl'[KeyOf(k, i)] = ttl[KeyOf(k, i)]
    BY Zenon, <1>1, <1>z, <2>1
  <2>3. ASSUME NEW q \in Counted(k, i, "redis")' PROVE q \in Counted(k, i, "redis")
    BY Zenon, <1>3
  <2>4. Known(k, i)'
    BY Zenon, <1>0, <1>1, <1>a, <2>2 DEF Known
  <2>5. Held(k, i)'
    BY Zenon, <1>0, <1>1, <1>b, <2>2, <2>3 DEF Held
  <2> QED BY Zenon, <2>4, <2>5
<1>4. CASE k = req[r].client /\ i = req[r].tier
  <2>0. BucketOf(r) = KeyOf(k, i) /\ Tier(r) = Tiers[i]
    BY Zenon, <1>2, <1>4 DEF Tier
  <2>1. zset'[KeyOf(k, i)] = Window(r) /\ ttl'[KeyOf(k, i)] = now + KeyLifetime(Tiers[i].window)
    BY Zenon, <1>1, <1>z, <2>0
  <2>2. /\ \A m \in Window(r) :
              \E q \in Reqs : req[q].client = k /\ req[q].ts[i] # 0 /\ m = MemberOf(q, i)
        /\ \A q \in Counted(k, i, "redis") :
              req[q].ts[i] + Tiers[i].window > now => MemberOf(q, i) \in Window(r)
        /\ MemberOf(r, i) \in Window(r)
    <3>1. WindowOk(r, k, i)
      BY Zenon, <1>1, <1>4, WindowIs
    <3> QED BY Zenon, <3>1 DEF WindowOk
  <2>3. Known(k, i)'
    BY Zenon, <1>0, <1>a, <2>1, <2>2 DEF Known
  <2>4. ASSUME NEW t \in Nat, t <= now PROVE now + KeyLifetime(Tiers[i].window) >= t + Tiers[i].window
    BY <1>1, <2>4 DEF KeyLifetime
  <2>5. MemberOf(r, i)' = MemberOf(r, i) /\ req'[r].ts[i] = now /\ now <= now /\ now \in Nat
    <3>1. now # 0 /\ now <= now /\ now \in Nat
      BY <1>1
    <3>2. req[r].ts[i] # 0
      BY Zenon, <1>1, <1>4, <3>1
    <3>3. MemberOf(r, i)' = MemberOf(r, i) /\ req'[r].ts[i] = req[r].ts[i]
      BY <3>2, MemberStays
    <3> QED BY Zenon, <1>1, <1>4, <3>1, <3>3
  <2>6. ASSUME NEW q \in Counted(k, i, "redis")', req'[q].ts[i] + Tiers[i].window > now
        PROVE  /\ MemberOf(q, i)' \in Window(r)
               /\ now + KeyLifetime(Tiers[i].window) >= req'[q].ts[i] + Tiers[i].window
    <3>1. CASE q \in Counted(k, i, "redis")
      <4>1. /\ MemberOf(q, i)' = MemberOf(q, i) /\ req'[q].ts[i] = req[q].ts[i]
            /\ req[q].ts[i] \in Nat /\ req[q].ts[i] <= now
        BY Zenon, <1>b, <3>1
      <4> QED BY Zenon, <2>2, <2>4, <2>6, <3>1, <4>1
    <3>2. CASE q = r
      BY Zenon, <2>2, <2>4, <2>5, <3>2
    <3> QED BY Zenon, <3>1, <3>2
  <2>7. Held(k, i)'
    BY Zenon, <1>0, <2>1, <2>6 DEF Held
  <2> QED BY Zenon, <2>3, <2>7
<1> QED BY Zenon, <1>3, <1>4

-----------------------------------------------------------------------------
(* How many *)

\* The client's other requests in the window of a request in flight.
Near(r) ==
  {q \in Reqs \ {r} : /\ req[q].client = req[r].client /\ req[q].ts[req[r].tier] # 0
                      /\ req[q].ts[req[r].tier] + Tiers[req[r].tier].window > now}

\* Members no more than requests, and requests no more than members.
LEMMA AsManyMembers ==
  ASSUME NEW S \in SUBSET Reqs, NEW W, NEW i,
         \A m \in W : \E q \in S : m = MemberOf(q, i)
  PROVE  /\ IsFiniteSet(W) /\ Cardinality(W) \in Nat /\ Cardinality(W) <= Cardinality(S)
         /\ \A P \in SUBSET Reqs :
              ~Coarse /\ (\A q \in P : MemberOf(q, i) \in W) => Cardinality(P) <= Cardinality(W)
<1> DEFINE f == [q \in S |-> MemberOf(q, i)]
           I == {f[q] : q \in S}
<1>1. IsFiniteSet(S) /\ Cardinality(S) \in Nat
  BY Zenon, FiniteReqs
<1>2. f \in Surjection(S, I)
  BY Zenon DEF Surjection
<1>3. IsFiniteSet(I) /\ Cardinality(I) <= Cardinality(S)
  <2> HIDE DEF f, I
  <2> QED BY Zenon, <1>1, <1>2, FS_Surjection
<1>4. W \in SUBSET I
  BY Zenon
<1>5. IsFiniteSet(W) /\ Cardinality(W) <= Cardinality(I) /\ Cardinality(W) \in Nat /\ Cardinality(I) \in Nat
  <2> HIDE DEF I
  <2> QED BY Zenon, <1>3, <1>4, FS_Subset, FS_CardinalityType
<1>6. Cardinality(W) <= Cardinality(S)
  <2> HIDE DEF I
  <2> QED BY <1>1, <1>3, <1>5
<1>7. ASSUME NEW P \in SUBSET Reqs, ~Coarse, \A q \in P : MemberOf(q, i) \in W
      PROVE  Cardinality(P) <= Cardinality(W)
  <2> DEFINE g == [q \in P |-> MemberOf(q, i)]
  <2>1. \A p, q \in P : MemberOf(p, i) = MemberOf(q, i) => p = q
    BY Zenon, <1>7, MemberBegins
  <2>2. g \in Injection(P, W)
    BY Zenon, <1>7, <2>1 DEF Injection, IsInjective
  <2> HIDE DEF g
  <2> QED BY Zenon, <1>5, <2>2, FS_Injection
<1> QED BY Zenon, <1>5, <1>6, <1>7

\* Redis counts each request in the window once.
LEMMA RedisCount ==
  ASSUME Types, Progress, NEW r \in Reqs, InFlight(r), SortedSets, ~Coarse
  PROVE  LET k == req[r].client
             i == req[r].tier
             recent == From(k, i, "redis", now - Tiers[i].window + 1) \cup {r} IN
         /\ Cardinality(Window(r)) \in Nat
         /\ Cardinality(recent) <= Cardinality(Window(r))
         /\ Cardinality(Window(r)) <= Cardinality(Near(r)) + 1
<1> DEFINE k == req[r].client
           i == req[r].tier
           recent == From(k, i, "redis", now - Tiers[i].window + 1) \cup {r}
<1>1. k \in Clients /\ i \in TierIndex /\ now \in Nat /\ Tiers[i].window \in Nat
  BY Zenon, InFlightAt, TierFacts DEF Types
<1>2. Known(k, i) /\ Held(k, i)
  BY Zenon, <1>1 DEF SortedSets
<1>3. Near(r) \in SUBSET Reqs /\ r \notin Near(r)
  BY Zenon DEF Near
<1>4. /\ \A q : q \in Near(r) <=> /\ q \in Reqs \ {r} /\ req[q].client = k /\ req[q].ts[i] # 0
                                  /\ req[q].ts[i] + Tiers[i].window > now
      /\ \A q : q \in recent =>
           q = r \/ (q \in Counted(k, i, "redis") /\ req[q].ts[i] >= now - Tiers[i].window + 1)
      /\ r \in recent
  BY Zenon DEF Near, From
<1> HIDE DEF k, i
<1>5. /\ \A m \in Window(r) :
            \E q \in Reqs : /\ req[q].client = k /\ req[q].ts[i] # 0 /\ m = MemberOf(q, i)
                            /\ req[q].ts[i] + Tiers[i].window > now
      /\ \A q \in Counted(k, i, "redis") :
            req[q].ts[i] + Tiers[i].window > now => MemberOf(q, i) \in Window(r)
      /\ MemberOf(r, i) \in Window(r)
  <2>1. WindowOk(r, k, i)
    BY Zenon, <1>1, <1>2, WindowIs DEF k, i
  <2> QED BY Zenon, <2>1 DEF WindowOk
<1> DEFINE S == Near(r) \cup {r}
<1>6. S \in SUBSET Reqs /\ Cardinality(S) = Cardinality(Near(r)) + 1
  BY Zenon, <1>3, FiniteReqs, FS_AddElement
<1>7. \A m \in Window(r) : \E q \in S : m = MemberOf(q, i)
  BY Zenon, <1>4, <1>5
<1>8. ASSUME NEW q \in recent PROVE q \in Reqs /\ MemberOf(q, i) \in Window(r)
  <2>1. CASE q = r
    BY Zenon, <1>5, <2>1
  <2>2. CASE q # r
    <3>1. q \in Counted(k, i, "redis") /\ req[q].ts[i] >= now - Tiers[i].window + 1
      BY Zenon, <1>4, <1>8, <2>2
    <3>2. "redis" \in Backends
      BY Zenon, NoneApart
    <3> HIDE DEF recent
    <3>3. q \in Reqs /\ req[q].ts[i] \in Nat
      BY ZenonT(30), <1>1, <3>1, <3>2, StampedThere
    <3>4. req[q].ts[i] + Tiers[i].window > now
      BY <1>1, <3>1, <3>3
    <3> QED BY Zenon, <1>5, <3>1, <3>3, <3>4
  <2> QED BY Zenon, <2>1, <2>2
<1> DEFINE W == Window(r)
<1> HIDE DEF S, recent, W
<1>9. /\ Cardinality(W) \in Nat /\ Cardinality(W) <= Cardinality(S)
      /\ recent \in SUBSET Reqs /\ Cardinality(recent) <= Cardinality(W)
  <2>1. recent \in SUBSET Reqs /\ \A q \in recent : MemberOf(q, i) \in W
    BY Zenon, <1>8 DEF W
  <2>2. \A m \in W : \E q \in S : m = MemberOf(q, i)
    BY Zenon, <1>7 DEF W
  <2> QED BY Zenon, <1>6, <2>1, <2>2, AsManyMembers
<1> QED BY Zenon, <1>6, <1>9 DEF k, i, recent, W

\* A backend that lets a request pass when few enough are recent enforces the limit.
LEMMA CountedEnforced ==
  ASSUME Types, Progress, NEW r \in Reqs, NEW b \in Backends, NEW over \in BOOLEAN, Counts(r, b, over),
         \A c \in Counters : evicted[c] \subseteq evicted'[c],
         NEW k, NEW i \in TierIndex, k = req[r].client, i = req[r].tier, EnforcedAt(k, i, b),
         Kept(b, k, i)' /\ ~over =>
           Cardinality(From(k, i, b, now - Tiers[i].window + 1) \cup {r}) <= Tiers[i].limit
  PROVE  EnforcedAt(k, i, b)'
<1>0. Grows /\ dep' = dep /\ Tiers' = Tiers
  BY Zenon, CountingGrows, DepSame DEF Counts, OthersStay
<1> SUFFICES ASSUME Kept(b, k, i)', NEW at \in Int
             PROVE  Cardinality(Passed(k, i, b, at)') <= Tiers[i].limit
  BY Zenon, <1>0 DEF EnforcedAt
<1>1. Kept(b, k, i)
  BY Zenon, <1>0, DepSame DEF Kept
<1>2. Cardinality(Passed(k, i, b, at)) <= Tiers[i].limit
  BY Zenon, <1>1 DEF EnforcedAt
<1>3. Counted(k, i, b)' = Counted(k, i, b) \cup {r} /\ r \notin Counted(k, i, b)
  BY CountedOnce
<1>4. ASSUME NEW q \in Counted(k, i, b) PROVE GrowsAt(q) /\ req'[q].ts[i] = req[q].ts[i] /\ q \in Reqs
                                              /\ req[q].ts[i] \in Nat
  <2>1. q \in Reqs /\ req[q].ts[i] # 0 /\ req[q].ts[i] \in Nat
    BY Zenon, <1>4, StampedThere
  <2> QED BY Zenon, <1>0, <2>1 DEF Grows, GrowsAt
<1>5. now \in Nat /\ Tiers[i].window \in Nat /\ Tiers[i].limit \in Nat
  BY Zenon, TierFacts DEF Types
<1>6. req'[r].ts[i] = now
  <2>0. InFlight(r)
    BY Zenon DEF Counts
  <2>1. req[r].ts[req[r].tier] = now
    BY Zenon, <2>0, InFlightAt
  <2>2. now # 0
    BY Zenon DEF Types
  <2>3. req[r].ts[i] # 0 /\ req[r].ts[i] = now
    BY Zenon, <2>1, <2>2
  <2> QED BY Zenon, <1>0, <2>3 DEF Grows, GrowsAt
<1> DEFINE new == Passed(k, i, b, at)'
           old == Passed(k, i, b, at)
           recent == From(k, i, b, now - Tiers[i].window + 1) \cup {r}
<1>7. /\ \A q : q \in new <=> /\ q \in Counted(k, i, b)'
                              /\ ~(req'[q].verdict = "block" /\ req'[q].tier = i)
                              /\ req'[q].ts[i] \in (at - Tiers[i].window + 1)..at
      /\ \A q : q \in old <=> /\ q \in Counted(k, i, b)
                              /\ ~(req[q].verdict = "block" /\ req[q].tier = i)
                              /\ req[q].ts[i] \in (at - Tiers[i].window + 1)..at
      /\ \A q : q \in recent <=>
           q = r \/ (q \in Counted(k, i, b) /\ req[q].ts[i] >= now - Tiers[i].window + 1)
  BY Zenon, <1>0 DEF Passed, From
<1> HIDE DEF new, old, recent
<1>8. CASE r \notin new
  <2>1. ASSUME NEW q \in new PROVE q \in old
    <3>1. q \in Counted(k, i, b)
      BY Zenon, <1>3, <1>7, <1>8, <2>1
    <3>2. GrowsAt(q) /\ req'[q].ts[i] = req[q].ts[i]
      BY Zenon, <1>4, <3>1
    <3>3. ~(req[q].verdict = "block" /\ req[q].tier = i) /\ req[q].ts[i] \in (at - Tiers[i].window + 1)..at
      <4>1. ~(req'[q].verdict = "block" /\ req'[q].tier = i)
            /\ req'[q].ts[i] \in (at - Tiers[i].window + 1)..at
        BY Zenon, <1>7, <2>1
      <4> QED BY Zenon, <3>2, <4>1 DEF GrowsAt
    <3> QED BY Zenon, <1>7, <3>1, <3>3
  <2>2. old \in SUBSET Reqs /\ new \in SUBSET old /\ new \in SUBSET Reqs
    BY Zenon, <1>4, <1>7, <2>1
  <2>3. Cardinality(new) <= Cardinality(old) /\ Cardinality(new) \in Nat /\ Cardinality(old) \in Nat
    BY Zenon, <2>2, SmallerReqs, FiniteReqs
  <2>4. Cardinality(old) <= Tiers[i].limit
    BY Zenon, <1>2 DEF old
  <2>5. Cardinality(new) <= Tiers[i].limit
    BY <1>5, <2>3, <2>4
  <2> QED BY Zenon, <2>5 DEF new
<1>9. CASE r \in new
  <2>1. now \in (at - Tiers[i].window + 1)..at
    BY Zenon, <1>6, <1>7, <1>9
  <2>2. ~over
    <3>1. ~(req'[r].verdict = "block" /\ req'[r].tier = i)
      BY Zenon, <1>7, <1>9
    <3> QED BY Zenon, <3>1 DEF Counts
  <2>3. ASSUME NEW q \in new PROVE q \in recent
    <3>1. CASE q = r
      BY Zenon, <1>7, <3>1
    <3>2. CASE q # r
      <4>1. q \in Counted(k, i, b) /\ req[q].ts[i] \in (at - Tiers[i].window + 1)..at
        BY ZenonT(30), <1>3, <1>4, <1>7, <2>3, <3>2
      <4>2. req[q].ts[i] >= now - Tiers[i].window + 1
        BY Zenon, <1>5, <2>1, <4>1, OneWindow
      <4> QED BY Zenon, <1>7, <4>1, <4>2
    <3> QED BY Zenon, <3>1, <3>2
  <2>4. recent \in SUBSET Reqs /\ new \in SUBSET recent /\ new \in SUBSET Reqs
    BY Zenon, <1>4, <1>7, <2>3
  <2>5. Cardinality(new) <= Cardinality(recent) /\ Cardinality(new) \in Nat /\ Cardinality(recent) \in Nat
    BY Zenon, <2>4, SmallerReqs, FiniteReqs
  <2>6. Cardinality(recent) <= Tiers[i].limit
    BY Zenon, <2>2 DEF recent
  <2>7. Cardinality(new) <= Tiers[i].limit
    BY <1>5, <2>5, <2>6
  <2> QED BY Zenon, <2>7 DEF new
<1> QED BY Zenon, <1>8, <1>9

\* A request that is blocked when as many others are near was over the limit.
LEMMA CountedBlocked ==
  ASSUME Types, Progress, NEW r \in Reqs, NEW b \in Backends, NEW over \in BOOLEAN, Counts(r, b, over),
         req'[r].verdict = "block", over => Cardinality(Near(r)) >= Tier(r).limit
  PROVE  Cardinality(Rivals(r)') >= Tier(r)'.limit
<1> DEFINE i == req[r].tier
           w == Tiers[i].window
<1>1. Grows /\ dep' = dep /\ Tiers' = Tiers /\ InFlight(r)
  BY Zenon, CountingGrows, DepSame DEF Counts, OthersStay
<1>2. /\ i \in TierIndex /\ req[r].ts[i] = now /\ req[r].pc # "new" /\ req[r].verdict = None
      /\ now \in Nat /\ w \in Nat /\ Tiers[i].limit \in Nat
  BY Zenon, <1>1, InFlightAt, TierFacts DEF Types
<1>3. over /\ req'[r].tier = i /\ req'[r].ts = req[r].ts /\ req'[r].client = req[r].client
  BY Zenon, <1>2, NoneApart DEF Counts
<1>4. Stamp(r)' = now /\ Tier(r)' = Tier(r) /\ Tier(r) = Tiers[i]
  BY Zenon, <1>1, <1>2, <1>3 DEF Stamp, Tier
<1> DEFINE near == Near(r)
           rivals == Rivals(r)'
<1>5. /\ \A q : q \in near <=> /\ q \in Reqs \ {r} /\ req[q].client = req[r].client /\ req[q].ts[i] # 0
                               /\ req[q].ts[i] + w > now
      /\ \A q : q \in rivals <=> /\ q \in Reqs \ {r} /\ req'[q].client = req'[r].client
                                 /\ req'[q].ts[i] # 0 /\ req'[q].ts[i] > now - w
  BY Zenon, <1>3, <1>4 DEF Near, Rivals
<1>6. Cardinality(near) >= Tiers[i].limit
  BY Zenon, <1>3, <1>4
<1> HIDE DEF i, w, near, rivals
<1>7. ASSUME NEW q \in near PROVE q \in rivals
  <2>1. q \in Reqs \ {r} /\ req[q].client = req[r].client /\ req[q].ts[i] # 0 /\ req[q].ts[i] + w > now
    BY Zenon, <1>5, <1>7
  <2>2. req'[q].ts[i] = req[q].ts[i] /\ req'[q].client = req[q].client
    BY <1>1, <1>2, <2>1, MemberStays
  <2>3. req[q].ts[i] \in Nat
    BY Zenon, <1>2, <2>1, RequestFields
  <2>4. req[q].ts[i] > now - w
    BY <1>2, <2>1, <2>3
  <2> QED BY Zenon, <1>3, <1>5, <2>1, <2>2, <2>4
<1>8. near \in SUBSET rivals /\ rivals \in SUBSET Reqs /\ near \in SUBSET Reqs
  BY Zenon, <1>5, <1>7
<1>9. Cardinality(near) <= Cardinality(rivals) /\ Cardinality(near) \in Nat /\ Cardinality(rivals) \in Nat
  BY Zenon, <1>8, SmallerReqs, FiniteReqs
<1>10. Cardinality(rivals) >= Tiers[i].limit
  BY <1>2, <1>6, <1>9
<1> QED BY Zenon, <1>4, <1>10 DEF rivals

-----------------------------------------------------------------------------
(* The deques of a process *)

\* What a store holds for a key is a sequence of times.
LEMMA StampsType ==
  ASSUME NEW store \in Seq(Entries), NEW k
  PROVE  Stamps(store, k) \in Seq(Nat)
<1>1. CASE Holds(store, k)
  <2>1. Slot(store, k) \in DOMAIN store /\ Stamps(store, k) = store[Slot(store, k)].stamps
    BY Zenon, <1>1 DEF Holds, Slot, Stamps
  <2>2. \A x \in DOMAIN store : store[x] \in Entries
    OBVIOUS
  <2>3. store[Slot(store, k)] \in Entries
    BY Zenon, <2>1, <2>2
  <2> QED BY Zenon, <2>1, <2>3 DEF Entries
<1>2. CASE ~Holds(store, k)
  <2>1. Stamps(store, k) = <<>>
    BY Zenon, <1>2 DEF Stamps
  <2>2. <<>> \in Seq(Nat)
    OBVIOUS
  <2> QED BY Zenon, <2>1, <2>2
<1> QED BY Zenon, <1>1, <1>2

\* The pruned deque has as many stamps as the window.
PrunedOk(u, c, k, i) ==
  LET s == Stamps(mem[c], KeyOf(k, i))
      w == Tiers[i].window IN
  /\ u \in Seq(Nat)
  /\ \A x, y \in DOMAIN u : x < y => u[x] <= u[y]
  /\ \A x \in DOMAIN u : u[x] <= now
  /\ \A t \in Int : /\ Cardinality(Since(u, t)) <= Cardinality(Since(s, t))
                    /\ t + w > now => Cardinality(Since(u, t)) = Cardinality(Since(s, t))
  /\ Len(u) = Cardinality(Since(u, now - w + 1))

\* Pruning from the left of a deque in order drops what is out of the window,
\* no more.
LEMMA PruneOk ==
  ASSUME Types, NEW c \in Counters, NEW k \in Clients, NEW i \in TierIndex, DequeOk(c, k, i)
  PROVE  PrunedOk(Pruned(Stamps(mem[c], KeyOf(k, i)), now, Tiers[i].window), c, k, i)
<1> DEFINE s == Stamps(mem[c], KeyOf(k, i))
           w == Tiers[i].window
           u == Pruned(s, now, w)
<1>1. mem[c] \in Seq(Entries) /\ now \in Nat /\ w \in Nat
  BY Zenon, TierFacts DEF Types
<1>2. s \in Seq(Nat)
  BY Zenon, <1>1, StampsType
<1>3. (\A x, y \in DOMAIN s : x < y => s[x] <= s[y]) /\ \A x \in DOMAIN s : s[x] <= now
  BY Zenon DEF DequeOk
<1> HIDE DEF s, w
<1>4. /\ u \in Seq(Nat)
      /\ \A x, y \in DOMAIN u : x < y => u[x] <= u[y]
      /\ \A x \in DOMAIN u : u[x] + w > now /\ \E y \in DOMAIN s : u[x] = s[y]
      /\ \A t \in Int : /\ Cardinality(Since(u, t)) <= Cardinality(Since(s, t))
                        /\ t + w > now => Cardinality(Since(u, t)) = Cardinality(Since(s, t))
  BY Zenon, <1>1, <1>2, <1>3, PrunedDeque
<1> HIDE DEF u
<1>5. \A x \in DOMAIN u : u[x] <= now
  BY Zenon, <1>3, <1>4
<1>6. Len(u) = Cardinality(Since(u, now - w + 1))
  <2>1. DOMAIN u = 1..Len(u) /\ Len(u) \in Nat /\ \A x \in DOMAIN u : u[x] \in Nat
    BY <1>4
  <2>2. ASSUME NEW x \in DOMAIN u PROVE u[x] >= now - w + 1
    <3>1. u[x] \in Nat /\ u[x] + w > now
      BY Zenon, <1>4, <2>1
    <3> QED BY <1>1, <3>1
  <2>3. Since(u, now - w + 1) = DOMAIN u
    BY Zenon, <2>2 DEF Since
  <2>4. Cardinality(1..Len(u)) = Len(u)
    <3>1. 1 \in Int /\ Len(u) \in Int
      BY <2>1
    <3>2. Cardinality(1..Len(u)) = IF 1 > Len(u) THEN 0 ELSE Len(u) - 1 + 1
      BY Zenon, <3>1, FS_Interval
    <3> QED BY <2>1, <3>2
  <2> QED BY Zenon, <2>1, <2>3, <2>4
<1>7. PrunedOk(u, c, k, i)
  BY Zenon, <1>4, <1>5, <1>6 DEF PrunedOk, s, w
<1> QED BY Zenon, <1>7 DEF u, s, w

\* A deque that no request was put in, as time passes or not.
LEMMA DequeStays ==
  ASSUME Types, Progress, Grows, dep' = dep, now' \in Nat, now <= now',
         NEW c \in Counters, NEW k \in Clients, NEW i \in TierIndex, DequeOk(c, k, i),
         Stamps(mem[c], KeyOf(k, i))' = Stamps(mem[c], KeyOf(k, i)),
         Counted(k, i, c)' = Counted(k, i, c), evicted[c] \subseteq evicted'[c]
  PROVE  DequeOk(c, k, i)'
<1> DEFINE s == Stamps(mem[c], KeyOf(k, i))
<1>1. Tiers' = Tiers /\ KeyOf(k, i)' = KeyOf(k, i) /\ c \in Backends
  BY Zenon, DepSame, NoneApart
<1>2. \A t \in Int : From(k, i, c, t)' = From(k, i, c, t)
  BY Zenon, <1>1, WindowsStay
<1>3. s \in Seq(Nat) /\ now \in Nat /\ Tiers[i].window \in Nat
  BY Zenon, StampsType, TierFacts DEF Types
<1> HIDE DEF s
<1>4. ASSUME NEW x \in DOMAIN s PROVE s[x] <= now'
  <2>1. s[x] <= now
    BY Zenon DEF DequeOk, s
  <2>2. s[x] \in Nat
    BY <1>3
  <2> QED BY <1>3, <2>1, <2>2
<1>5. ASSUME NEW t \in Int, t + Tiers[i].window > now' PROVE t + Tiers[i].window > now
  BY <1>3, <1>5
<1>6. /\ \A x, y \in DOMAIN s : x < y => s[x] <= s[y]
      /\ \A t \in Int : Cardinality(Since(s, t)) <= Cardinality(From(k, i, c, t)')
      /\ KeyOf(k, i) \notin evicted'[c] =>
           \A t \in Int : t + Tiers[i].window > now' =>
             Cardinality(From(k, i, c, t)') <= Cardinality(Since(s, t))
  <2>1. /\ \A x, y \in DOMAIN s : x < y => s[x] <= s[y]
        /\ \A t \in Int : Cardinality(Since(s, t)) <= Cardinality(From(k, i, c, t))
        /\ KeyOf(k, i) \notin evicted[c] =>
             \A t \in Int : t + Tiers[i].window > now =>
               Cardinality(From(k, i, c, t)) <= Cardinality(Since(s, t))
    BY Zenon DEF DequeOk, s
  <2> QED BY Zenon, <1>2, <1>5, <2>1
<1>7. Stamps(mem[c], KeyOf(k, i))' = s
  BY Zenon DEF s
<1> QED BY Zenon, <1>1, <1>4, <1>6, <1>7 DEF DequeOk, Since

\* A deque that is dropped or was never there.
LEMMA DequeDropped ==
  ASSUME dep' = dep, NEW c \in Counters, NEW k, NEW i,
         Stamps(mem[c], KeyOf(k, i))' = <<>>, KeyOf(k, i) \in evicted'[c]
  PROVE  DequeOk(c, k, i)'
<1>1. KeyOf(k, i)' = KeyOf(k, i)
  BY Zenon, DepSame
<1>2. ASSUME NEW t \in Int PROVE Cardinality(Since(<<>>, t)) <= Cardinality(From(k, i, c, t)')
  <2>1. Since(<<>>, t) = {}
    BY DEF Since
  <2>2. Cardinality(Since(<<>>, t)) = 0
    BY Zenon, <2>1, FS_EmptySet
  <2>3. From(k, i, c, t)' \in SUBSET Reqs
    BY Zenon DEF From, Counted
  <2> DEFINE n == Cardinality(From(k, i, c, t)')
  <2>4. n \in Nat
    BY Zenon, <2>3, FiniteReqs
  <2> HIDE DEF n
  <2>5. 0 <= n
    BY <2>4
  <2> QED BY Zenon, <2>2, <2>5 DEF n
<1>3. DOMAIN <<>> = {}
  OBVIOUS
<1> QED BY Zenon, <1>1, <1>2, <1>3 DEF DequeOk, Since

\* What the deque of a request in flight says of its window.
LEMMA MemoryCount ==
  ASSUME Types, Progress, NEW r \in Reqs, InFlight(r), NEW c \in Counters,
         NEW k \in Clients, NEW i \in TierIndex, k = req[r].client, i = req[r].tier,
         DequeOk(c, k, i), NEW u, PrunedOk(u, c, k, i)
  PROVE  /\ Len(u) \in Nat
         /\ KeyOf(k, i) \notin evicted[c] =>
              Cardinality(From(k, i, c, now - Tiers[i].window + 1) \cup {r}) <= Len(u) + 1
         /\ Len(u) <= Cardinality(Near(r))
<1> DEFINE s == Stamps(mem[c], KeyOf(k, i))
           t == now - Tiers[i].window + 1
           from == From(k, i, c, t)
<1>1. now \in Nat /\ Tiers[i].window \in Nat /\ c \in Backends
  BY Zenon, TierFacts, NoneApart DEF Types
<1>2. t \in Int /\ t + Tiers[i].window > now
  BY <1>1
<1>3. from \in SUBSET Reqs
  BY Zenon DEF From, Counted
<1>4. r \notin from
  <2>1. req[r].via[req[r].tier] = None
    BY Zenon, InFlightAt
  <2>2. req[r].via[i] = None /\ c # None
    BY Zenon, <1>1, <2>1, NoneApart
  <2> QED BY Zenon, <2>2 DEF From, Counted
<1>5. from \in SUBSET Near(r) /\ Near(r) \in SUBSET Reqs
  <2>1. ASSUME NEW q \in from PROVE q \in Near(r)
    <3>1. q \in Counted(k, i, c) /\ req[q].ts[i] >= t
      BY Zenon DEF From
    <3>2. q \in Reqs /\ req[q].client = k /\ req[q].ts[i] # 0 /\ req[q].ts[i] \in Nat
      <4> HIDE DEF from, t, s
      <4>1. req[q].client = k
        BY Zenon, <3>1 DEF Counted
      <4>2. q \in Reqs /\ req[q].ts[i] # 0 /\ req[q].ts[i] \in Nat
        BY Zenon, <1>1, <3>1, StampedThere
      <4> QED BY Zenon, <4>1, <4>2
    <3>3. req[q].ts[i] + Tiers[i].window > now
      BY Zenon, <1>1, <3>1, <3>2, StillMatters
    <3> QED BY Zenon, <1>4, <3>2, <3>3 DEF Near
  <2> QED BY Zenon, <2>1 DEF Near
<1>6. /\ u \in Seq(Nat) /\ Len(u) = Cardinality(Since(u, t))
      /\ Cardinality(Since(u, t)) = Cardinality(Since(s, t))
  <2> HIDE DEF from
  <2> QED BY Zenon, <1>2 DEF PrunedOk
<1>7. /\ Cardinality(Since(s, t)) <= Cardinality(from)
      /\ KeyOf(k, i) \notin evicted[c] => Cardinality(from) <= Cardinality(Since(s, t))
  BY Zenon, <1>2 DEF DequeOk
<1> DEFINE all == from \cup {r}
<1> HIDE DEF s, t, from
<1>8. /\ Cardinality(from) \in Nat /\ Cardinality(from) <= Cardinality(Near(r))
      /\ Cardinality(Near(r)) \in Nat /\ Cardinality(all) = Cardinality(from) + 1
  BY ZenonT(30), <1>3, <1>4, <1>5, FiniteReqs, SmallerReqs, FS_AddElement
<1>9. Len(u) \in Nat
  BY Zenon, <1>6, Lengths
<1> HIDE DEF all
<1>10. /\ KeyOf(k, i) \notin evicted[c] => Cardinality(all) <= Len(u) + 1
       /\ Len(u) <= Cardinality(Near(r))
  <2>1. /\ Len(u) <= Cardinality(from)
        /\ KeyOf(k, i) \notin evicted[c] => Cardinality(from) <= Len(u)
    BY Zenon, <1>6, <1>7
  <2>2. Len(u) <= Cardinality(Near(r))
    BY Zenon, <1>8, <1>9, <2>1, NoMore
  <2>3. Cardinality(from) <= Len(u) <=> Cardinality(from) + 1 <= Len(u) + 1
    BY Zenon, <1>8, <1>9, OneMore
  <2> QED BY Zenon, <1>8, <2>1, <2>2, <2>3
<1> QED BY Zenon, <1>9, <1>10 DEF all, from, t

\* The deque a request was put in.
LEMMA DequeGrows ==
  ASSUME Types, Progress, NEW r \in Reqs, NEW c \in Counters, NEW over \in BOOLEAN, Counts(r, c, over),
         NEW k \in Clients, NEW i \in TierIndex, k = req[r].client, i = req[r].tier,
         DequeOk(c, k, i), NEW u, PrunedOk(u, c, k, i),
         Stamps(mem[c], KeyOf(k, i))' = Append(u, now), evicted[c] \subseteq evicted'[c]
  PROVE  DequeOk(c, k, i)'
<1> DEFINE s == Stamps(mem[c], KeyOf(k, i))
           v == Append(u, now)
<1>1. /\ Tiers' = Tiers /\ KeyOf(k, i)' = KeyOf(k, i) /\ c \in Backends /\ now' = now
      /\ now \in Nat /\ Tiers[i].window \in Nat
  BY Zenon, DepSame, NoneApart, TierFacts DEF Counts, OthersStay, Types
<1>2. Grows /\ InFlight(r)
  BY ZenonT(30), <1>1, CountingGrows DEF Counts
<1>3. Counted(k, i, c)' = Counted(k, i, c) \cup {r} /\ r \notin Counted(k, i, c)
  BY ZenonT(30), <1>1, CountedOnce
<1>4. req'[r].ts[i] = now
  <2>1. req[r].ts[req[r].tier] = now
    BY Zenon, <1>2, InFlightAt
  <2>2. now # 0
    BY Zenon DEF Types
  <2>3. req[r].ts[i] # 0 /\ req[r].ts[i] = now
    BY Zenon, <2>1, <2>2
  <2> QED BY Zenon, <1>2, <2>3 DEF Grows, GrowsAt
<1>5. ASSUME NEW q \in Counted(k, i, c) PROVE req'[q].ts[i] = req[q].ts[i] /\ q \in Reqs
  <2>1. q \in Reqs /\ req[q].ts[i] # 0
    BY Zenon, <1>1, StampedThere
  <2> QED BY ZenonT(30), <1>2, <2>1 DEF Grows, GrowsAt
<1>6. ASSUME NEW t \in Int
      PROVE  /\ Cardinality(From(k, i, c, t)) \in Nat
             /\ Cardinality(From(k, i, c, t)') = IF now >= t THEN Cardinality(From(k, i, c, t)) + 1
                                                 ELSE Cardinality(From(k, i, c, t))
  <2> DEFINE old == From(k, i, c, t)
             new == From(k, i, c, t)'
  <2>1. /\ \A q : q \in old <=> q \in Counted(k, i, c) /\ req[q].ts[i] >= t
        /\ \A q : q \in new <=> q \in Counted(k, i, c)' /\ req'[q].ts[i] >= t
    BY Zenon DEF From
  <2> HIDE DEF old, new
  <2>2. IsFiniteSet(old) /\ Cardinality(old) \in Nat /\ r \notin old
    <3>1. old \in SUBSET Reqs
      BY Zenon, <1>5, <2>1
    <3> QED BY Zenon, <1>3, <2>1, <3>1, FiniteReqs
  <2>3. CASE now >= t
    <3>1. \A q : q \in new <=> q \in old \cup {r}
      BY Zenon, <1>3, <1>4, <1>5, <2>1, <2>3
    <3>2. new = old \cup {r}
      BY Zenon, <3>1
    <3>3. Cardinality(old \cup {r}) = Cardinality(old) + 1
      BY Zenon, <2>2, FS_AddElement
    <3>4. Cardinality(new) = Cardinality(old) + 1
      BY Zenon, <3>2, <3>3
    <3> QED BY Zenon, <2>2, <2>3, <3>4 DEF old, new
  <2>4. CASE ~(now >= t)
    <3>1. \A q : q \in new <=> q \in old
      BY Zenon, <1>3, <1>4, <1>5, <2>1, <2>4
    <3>2. new = old
      BY Zenon, <3>1
    <3> QED BY Zenon, <2>2, <2>4, <3>2 DEF old, new
  <2> QED BY Zenon, <2>3, <2>4
<1>7. /\ u \in Seq(Nat)
      /\ \A x, y \in DOMAIN u : x < y => u[x] <= u[y]
      /\ \A x \in DOMAIN u : u[x] <= now
      /\ \A t \in Int : /\ Cardinality(Since(u, t)) <= Cardinality(Since(s, t))
                        /\ t + Tiers[i].window > now => Cardinality(Since(u, t)) = Cardinality(Since(s, t))
  BY Zenon DEF PrunedOk
<1>8. /\ \A t \in Int : Cardinality(Since(s, t)) <= Cardinality(From(k, i, c, t))
      /\ KeyOf(k, i) \notin evicted[c] =>
           \A t \in Int : t + Tiers[i].window > now =>
             Cardinality(From(k, i, c, t)) <= Cardinality(Since(s, t))
  BY Zenon DEF DequeOk
<1>s. s \in Seq(Nat)
  BY Zenon, StampsType DEF Types
<1> HIDE DEF s
<1>9. /\ \A x, y \in DOMAIN v : x < y => v[x] <= v[y]
      /\ \A x \in DOMAIN v : v[x] <= now
  <2>1. EndsIn(v, u, now)
    BY Zenon, <1>1, <1>7, AppendIs
  <2> DEFINE n == Len(u)
  <2>2. /\ DOMAIN u = 1..n /\ n \in Nat /\ DOMAIN v = 1..(n + 1) /\ v[n + 1] = now
        /\ \A x \in 1..n : v[x] = u[x]
    BY Zenon, <2>1 DEF EndsIn
  <2> HIDE DEF v, n
  <2>3. \A x : x \in DOMAIN v <=> x \in DOMAIN u \/ x = n + 1
    BY Zenon, <2>2, OnePlaceMore
  <2>4. now <= now
    BY Zenon, <1>1, OneMore
  <2>5. \A x \in DOMAIN v : v[x] <= now
    BY Zenon, <1>7, <2>2, <2>3, <2>4
  <2>6. ASSUME NEW x \in DOMAIN v, NEW y \in DOMAIN v, x < y PROVE v[x] <= v[y]
    <3>1. x \in DOMAIN u
      <4>1. x \in 1..(n + 1) /\ y \in 1..(n + 1) /\ n \in Nat
        BY Zenon, <2>2
      <4>2. x \in 1..n
        BY Zenon, <2>6, <4>1, OnePlaceMore
      <4> QED BY Zenon, <2>2, <4>2
    <3>2. CASE y = n + 1
      BY Zenon, <2>2, <2>5, <3>2
    <3>3. CASE y \in DOMAIN u
      <4>1. x \in 1..n /\ y \in 1..n
        BY Zenon, <2>2, <3>1, <3>3
      <4>2. v[x] = u[x] /\ v[y] = u[y]
        BY Zenon, <2>2, <4>1
      <4>3. u[x] <= u[y]
        BY Zenon, <1>7, <2>6, <3>1, <3>3
      <4> QED BY Zenon, <4>2, <4>3
    <3> QED BY Zenon, <2>3, <3>2, <3>3
  <2> QED BY Zenon, <2>5, <2>6
<1>10. ASSUME NEW t \in Int
       PROVE  /\ Cardinality(Since(v, t)) <= Cardinality(From(k, i, c, t)')
              /\ KeyOf(k, i) \notin evicted'[c] /\ t + Tiers[i].window > now =>
                   Cardinality(From(k, i, c, t)') <= Cardinality(Since(v, t))
  <2> DEFINE f == Cardinality(From(k, i, c, t))
             g == Cardinality(From(k, i, c, t)')
             a == Cardinality(Since(u, t))
             b == Cardinality(Since(s, t))
             d == Cardinality(Since(v, t))
  <2>1. f \in Nat /\ g = IF now >= t THEN f + 1 ELSE f
    BY Zenon, <1>6
  <2>2. d = IF now >= t THEN a + 1 ELSE a
    BY Zenon, <1>1, <1>7, SinceAppend
  <2>3. a \in Nat /\ b \in Nat /\ a <= b /\ (t + Tiers[i].window > now => a = b)
    BY Zenon, <1>7, <1>s, SinceFinite
  <2>4. /\ b <= f
        /\ KeyOf(k, i) \notin evicted'[c] /\ t + Tiers[i].window > now => f <= b
    BY Zenon, <1>8
  <2> HIDE DEF f, g, a, b, d, v
  <2>5. d <= g /\ (KeyOf(k, i) \notin evicted'[c] /\ t + Tiers[i].window > now => g <= d)
    <3>1. a <= f /\ (KeyOf(k, i) \notin evicted'[c] /\ t + Tiers[i].window > now => f <= a)
      BY Zenon, <2>1, <2>3, <2>4, NoMore
    <3>2. CASE now >= t
      <4>1. d = a + 1 /\ g = f + 1
        BY Zenon, <2>1, <2>2, <3>2
      <4>2. (a <= f <=> a + 1 <= f + 1) /\ (f <= a <=> f + 1 <= a + 1)
        BY Zenon, <2>1, <2>3, OneMore
      <4> QED BY Zenon, <3>1, <4>1, <4>2
    <3>3. CASE ~(now >= t)
      <4>1. d = a /\ g = f
        BY Zenon, <2>1, <2>2, <3>3
      <4> QED BY Zenon, <3>1, <4>1
    <3> QED BY Zenon, <3>2, <3>3
  <2> QED BY Zenon, <2>5 DEF g, d
<1> HIDE DEF v
<1>11. Stamps(mem[c], KeyOf(k, i))' = v
  BY Zenon DEF v
<1> QED BY ZenonT(30), <1>1, <1>9, <1>10, <1>11 DEF DequeOk, Since

-----------------------------------------------------------------------------
(* The actions *)

\* What it takes for a new block to have cause.
LEMMA BlockedIs ==
  /\ BlockedOnlyOverLimit <=>
       \A r \in Reqs : req[r].verdict = "block" => Cardinality(Rivals(r)) >= Tier(r).limit
  /\ BlockedOnlyOverLimit' <=>
       \A r \in Reqs : req'[r].verdict = "block" => Cardinality(Rivals(r)') >= Tier(r)'.limit
BY Zenon DEF BlockedOnlyOverLimit, Rivals

\* The types after a step of a request.
LEMMA TypesStep ==
  ASSUME Types, dep' = dep, now' \in Nat \ {0}, req' \in [Reqs -> RequestType],
         zset' = [k \in Keys |-> zset'[k]], ttl' \in [Keys -> Nat],
         mem' \in [Counters -> Seq(Entries)], evicted' \in [Counters -> SUBSET Keys]
  PROVE  Types'
<1>1. Keys' = Keys /\ RequestType' = RequestType /\ Entries' = Entries
  BY Zenon, DepSame
<1> QED BY Zenon, <1>1 DEF Types

\* A step that counts nothing.
LEMMA UncountedSound ==
  ASSUME Sound, NEW r \in Reqs, Arrives(r) \/ Waits(r), mem' = mem, evicted' = evicted,
         Types', SortedSets'
  PROVE  Sound'
<1>1. Types /\ Progress /\ Deques /\ Enforced /\ BlockedOnlyOverLimit
  BY Zenon DEF Sound
<1>2. Progress' /\ Grows
  BY Zenon, <1>1, ArrivalGrows, WaitingGrows
<1>3. dep' = dep /\ now' = now /\ TierIndex' = TierIndex
  BY Zenon, DepSame DEF Arrives, Waits, OthersStay
<1>4. now' \in Nat /\ now <= now'
  <2>1. now \in Nat
    BY Zenon, <1>1 DEF Types
  <2> QED BY <1>3, <2>1
<1>5. ASSUME NEW k \in Clients, NEW i \in TierIndex, NEW b \in Backends
      PROVE  Counted(k, i, b)' = Counted(k, i, b)
  BY Zenon, <1>1, Uncounted
<1>6. ASSUME NEW c \in Counters, NEW k \in Clients, NEW i \in TierIndex PROVE DequeOk(c, k, i)'
  <2>1. c \in Backends /\ DequeOk(c, k, i)
    BY Zenon, <1>1, NoneApart DEF Deques
  <2>2. Counted(k, i, c)' = Counted(k, i, c) /\ evicted[c] \subseteq evicted'[c]
    BY Zenon, <1>5, <2>1
  <2>3. Stamps(mem[c], KeyOf(k, i))' = Stamps(mem[c], KeyOf(k, i))
    BY Zenon, <1>3, DepSame DEF Stamps, Holds, Slot
  <2> QED BY ZenonT(30), <1>1, <1>2, <1>3, <1>4, <2>1, <2>2, <2>3, DequeStays
<1>7. Deques'
  BY Zenon, <1>1, <1>3, <1>6 DEF Deques, OneEach
<1>8. ASSUME NEW k \in Clients, NEW i \in TierIndex, NEW b \in Backends PROVE EnforcedAt(k, i, b)'
  <2>1. \A c \in Counters : evicted[c] \subseteq evicted'[c]
    BY Zenon
  <2> QED BY ZenonT(30), <1>1, <1>2, <1>3, <1>5, <2>1, EnforcedStays DEF Enforced
<1>9. Enforced'
  BY Zenon, <1>3, <1>8 DEF Enforced
<1>10. ASSUME NEW p \in Reqs, req'[p].verdict = "block"
       PROVE  Cardinality(Rivals(p)') >= Tier(p)'.limit
  <2>1. req[p].verdict = "block"
    BY Zenon, <1>10 DEF Arrives, Waits, OthersStay
  <2>2. Cardinality(Rivals(p)) >= Tier(p).limit
    BY Zenon, <1>1, <2>1, BlockedIs
  <2> QED BY Zenon, <1>1, <1>2, <1>3, <2>1, <2>2, BlockedStays
<1>11. BlockedOnlyOverLimit'
  BY Zenon, <1>10, BlockedIs
<1> QED BY Zenon, <1>2, <1>7, <1>9, <1>11 DEF Sound

\* A step that counts a request, given what its backend found.
LEMMA CountedSound ==
  ASSUME Sound, NEW r \in Reqs, NEW b \in Backends, NEW over \in BOOLEAN, Counts(r, b, over),
         Types', SortedSets', Deques', \A c \in Counters : evicted[c] \subseteq evicted'[c],
         NEW k0, NEW i0, k0 = req[r].client, i0 = req[r].tier,
         Kept(b, k0, i0)' /\ ~over =>
           Cardinality(From(k0, i0, b, now - Tiers[i0].window + 1) \cup {r}) <= Tiers[i0].limit,
         over => Cardinality(Near(r)) >= Tier(r).limit
  PROVE  Sound'
<1>1. Types /\ Progress /\ Enforced /\ BlockedOnlyOverLimit
  BY Zenon DEF Sound
<1>2. Progress' /\ Grows
  BY Zenon, <1>1, CountingGrows
<1>3. dep' = dep /\ TierIndex' = TierIndex
  BY Zenon, DepSame DEF Counts, OthersStay
<1>4. ASSUME NEW k \in Clients, NEW i \in TierIndex, NEW c \in Backends PROVE EnforcedAt(k, i, c)'
  <2>1. EnforcedAt(k, i, c)
    BY ZenonT(30), <1>1 DEF Enforced
  <2>2. CASE Here(r, b, k, i, c)
    <3>1. k = k0 /\ i = i0 /\ k = req[r].client /\ i = req[r].tier /\ c = b
      BY Zenon, <2>2 DEF Here
    <3>2. Kept(b, k, i)' /\ ~over =>
            Cardinality(From(k, i, b, now - Tiers[i].window + 1) \cup {r}) <= Tiers[i].limit
      BY Zenon, <3>1
    <3> QED BY ZenonT(30), <1>1, <2>1, <3>1, <3>2, CountedEnforced
  <2>3. CASE ~Here(r, b, k, i, c)
    <3>1. Counted(k, i, c)' = Counted(k, i, c)
      BY ZenonT(30), <1>1, <2>3, CountedElsewhere
    <3> QED BY Zenon, <1>1, <1>2, <1>3, <2>1, <3>1, EnforcedStays
  <2> QED BY Zenon, <2>2, <2>3
<1>5. Enforced'
  BY Zenon, <1>3, <1>4 DEF Enforced
<1>6. ASSUME NEW p \in Reqs, req'[p].verdict = "block"
      PROVE  Cardinality(Rivals(p)') >= Tier(p)'.limit
  <2>1. CASE p = r
    <3>1. req'[r].verdict = "block"
      BY Zenon, <1>6, <2>1
    <3>2. Cardinality(Rivals(r)') >= Tier(r)'.limit
      BY Zenon, <1>1, <3>1, CountedBlocked
    <3> QED BY Zenon, <2>1, <3>2
  <2>2. CASE p # r
    <3>1. req[p].verdict = "block"
      BY Zenon, <1>6, <2>2 DEF Counts, OthersStay
    <3>2. Cardinality(Rivals(p)) >= Tier(p).limit
      BY Zenon, <1>1, <3>1, BlockedIs
    <3> QED BY Zenon, <1>1, <1>2, <1>3, <3>1, <3>2, BlockedStays
  <2> QED BY Zenon, <2>1, <2>2
<1>7. BlockedOnlyOverLimit'
  BY Zenon, <1>6, BlockedIs
<1> QED BY Zenon, <1>2, <1>5, <1>7 DEF Sound

\* The types after RecordHit.
LEMMA RecordTypes ==
  ASSUME Types, Progress, NEW r \in Reqs, InFlight(r), RecordHit(r)
  PROVE  zset' = [k \in Keys |-> zset'[k]] /\ ttl' \in [Keys -> Nat]
<1> DEFINE l == now + KeyLifetime(Tier(r).window)
<1>1. l \in Nat
  <2>1. now \in Nat /\ Tier(r).window \in Nat
    BY Zenon, InFlightAt, TierFacts DEF Types, Tier
  <2> QED BY <2>1 DEF KeyLifetime
<1>2. zset' = [zset EXCEPT ![BucketOf(r)] = Window(r)] /\ ttl' = [ttl EXCEPT ![BucketOf(r)] = l]
  BY Zenon DEF RecordHit
<1> HIDE DEF l
<1>3. ttl' \in [Keys -> Nat]
  BY Zenon, <1>1, <1>2 DEF Types
<1>4. zset' = [k \in Keys |-> zset'[k]]
  <2>1. zset = [k \in Keys |-> zset[k]]
    BY Zenon DEF Types
  <2> QED BY <1>2, <2>1
<1> QED BY Zenon, <1>3, <1>4

\* The deques of the processes, when Redis counts or nobody does.
LEMMA DequesStay ==
  ASSUME Sound, Grows, dep' = dep, now' = now, mem' = mem, evicted' = evicted,
         \A k \in Clients, i \in TierIndex, c \in Counters : Counted(k, i, c)' = Counted(k, i, c)
  PROVE  Deques'
<1>1. Types /\ Progress /\ Deques /\ now \in Nat
  BY Zenon DEF Sound, Types
<1>2. now' \in Nat /\ now <= now'
  BY <1>1
<1>3. ASSUME NEW c \in Counters, NEW k \in Clients, NEW i \in TierIndex PROVE DequeOk(c, k, i)'
  <2>1. DequeOk(c, k, i) /\ Counted(k, i, c)' = Counted(k, i, c) /\ evicted[c] \subseteq evicted'[c]
    BY Zenon, <1>1 DEF Deques
  <2>2. Stamps(mem[c], KeyOf(k, i))' = Stamps(mem[c], KeyOf(k, i))
    BY Zenon, DepSame DEF Stamps, Holds, Slot
  <2> QED BY Zenon, <1>1, <1>2, <2>1, <2>2, DequeStays
<1>4. TierIndex' = TierIndex
  BY Zenon, DepSame
<1> QED BY Zenon, <1>1, <1>3, <1>4 DEF Deques, OneEach

\* A deque's counter is not Redis.
LEMMA NotByRedis ==
  ASSUME Types, Progress, NEW r \in Reqs, NEW over, Counts(r, "redis", over),
         NEW k, NEW i \in TierIndex, NEW c \in Counters
  PROVE  Counted(k, i, c)' = Counted(k, i, c)
<1>1. c # "redis" /\ c \in Backends /\ "redis" \in Backends
  BY Zenon, NoneApart
<1>2. ~Here(r, "redis", k, i, c)
  BY Zenon, <1>1 DEF Here
<1> QED BY ZenonT(30), <1>1, <1>2, CountedElsewhere

\* A request counted in Redis leaves the limiter sound.
LEMMA RedisSound ==
  ASSUME Sound, Distinct, ~Coarse, NEW r \in Reqs, InFlight(r), CountInRedis(r),
         dep' = dep, now' = now, mem' = mem, evicted' = evicted
  PROVE  Sound'
<1> DEFINE n == Cardinality(Window(r))
           over == ExceedsRedis(n, Tier(r).limit)
           k == req[r].client
           i == req[r].tier
           recent == From(k, i, "redis", now - Tiers[i].window + 1) \cup {r}
<1>1. Types /\ Progress /\ SortedSets
  BY Zenon DEF Sound
<1>2. k \in Clients /\ i \in TierIndex /\ Tiers[i].limit \in Nat /\ Tier(r) = Tiers[i] /\ "redis" \in Backends
  BY Zenon, <1>1, InFlightAt, TierFacts, NoneApart DEF Tier
<1>3. n \in Nat /\ Cardinality(recent) <= n /\ n <= Cardinality(Near(r)) + 1
  BY Zenon, <1>1, RedisCount
<1>4. Cardinality(recent) \in Nat /\ Cardinality(Near(r)) \in Nat
  <2>1. \A q \in recent : q \in Reqs
    BY Zenon DEF From, Counted
  <2>2. \A q \in Near(r) : q \in Reqs
    BY Zenon DEF Near
  <2>3. recent \in SUBSET Reqs /\ Near(r) \in SUBSET Reqs
    BY Zenon, <2>1, <2>2
  <2> HIDE DEF recent
  <2> QED BY Zenon, <2>3, FiniteReqs
<1>5. over \in BOOLEAN /\ RecordHit(r) /\ req' = [req EXCEPT ![r] = Decided(r, "redis", over)]
  <2>1. RecordHit(r) /\ req' = [req EXCEPT ![r] = Decided(r, "redis", over)]
    BY Zenon DEF CountInRedis
  <2>2. over \in BOOLEAN
    BY Zenon, <1>2, <1>3, RedisDecides
  <2> QED BY Zenon, <2>1, <2>2
<1>6. (~over => Cardinality(recent) <= Tiers[i].limit) /\ (over => Cardinality(Near(r)) >= Tier(r).limit)
  <2> HIDE DEF n, recent, i
  <2> QED BY Zenon, <1>2, <1>3, <1>4, RedisDecides
<1> HIDE DEF over
<1>7. Counts(r, "redis", over)
  BY Zenon, <1>1, <1>2, <1>5, CountsIs
<1>8. Grows
  BY Zenon, <1>1, <1>2, <1>5, <1>7, CountingGrows
<1>9. SortedSets'
  <2>1. ASSUME NEW l \in Clients, NEW j \in TierIndex, NEW q \in Counted(l, j, "redis")'
        PROVE  q \in Counted(l, j, "redis") \/ (q = r /\ l = req[r].client /\ j = req[r].tier)
    <3> HIDE DEF k, i
    <3>1. CASE Here(r, "redis", l, j, "redis")
      <4>1. l = req[r].client /\ j = req[r].tier
        BY Zenon, <3>1 DEF Here
      <4>2. Counted(l, j, "redis")' = Counted(l, j, "redis") \cup {r}
        BY <1>1, <1>2, <1>7, <4>1, CountedOnce
      <4> QED BY Zenon, <2>1, <4>1, <4>2
    <3>2. CASE ~Here(r, "redis", l, j, "redis")
      BY ZenonT(30), <1>1, <1>2, <1>7, <2>1, <3>2, CountedElsewhere
    <3> QED BY Zenon, <3>1, <3>2
  <2> QED BY Zenon, <1>1, <1>5, <1>8, <2>1, RecordedSets
<1>10. Deques'
  <2>1. ASSUME NEW l \in Clients, NEW j \in TierIndex, NEW c \in Counters
        PROVE  Counted(l, j, c)' = Counted(l, j, c)
    BY Zenon, <1>1, <1>7, NotByRedis
  <2>2. \A l \in Clients, j \in TierIndex, c \in Counters : Counted(l, j, c)' = Counted(l, j, c)
    BY Zenon, <2>1
  <2> HIDE DEF k, i
  <2> QED BY <1>8, <2>2, DequesStay
<1>11. Types'
  <2>1. zset' = [l \in Keys |-> zset'[l]] /\ ttl' \in [Keys -> Nat]
    BY Zenon, <1>1, <1>5, RecordTypes
  <2>2. req' \in [Reqs -> RequestType] /\ now' \in Nat \ {0}
    BY Zenon, <1>1, <1>7 DEF Counts, OthersStay, Types
  <2>3. mem' \in [Counters -> Seq(Entries)] /\ evicted' \in [Counters -> SUBSET Keys]
    BY Zenon, <1>1 DEF Types
  <2> QED BY Zenon, <1>1, <2>1, <2>2, <2>3, TypesStep
<1>12. \A c \in Counters : evicted[c] \subseteq evicted'[c]
  BY Zenon
<1> QED BY ZenonT(30), <1>2, <1>5, <1>6, <1>7, <1>9, <1>10, <1>11, <1>12, CountedSound

\* The step of a process that counts a request in its own deques.
MemoryStep(r, c, k, i, u) ==
  LET store == mem[c]
      key == KeyOf(k, i) IN
  /\ InFlight(r) /\ c \in Counters /\ k \in Clients /\ i \in TierIndex
  /\ k = req[r].client /\ i = req[r].tier /\ Tier(r) = Tiers[i]
  /\ Counts(r, c, ExceedsMemory(Len(u), Tiers[i].limit))
  /\ UNCHANGED <<dep, now, zset, ttl>>
  /\ PrunedOk(u, c, k, i)
  /\ mem' \in [Counters -> Seq(Entries)] /\ \A d \in Counters : d # c => mem'[d] = mem[d]
  /\ StoreIs(mem'[c], store, key, Append(u, now))
  /\ evicted' \in [Counters -> SUBSET Keys] /\ \A d \in Counters : evicted[d] \subseteq evicted'[d]
  /\ MakesRoom(store, key) => Head(store).key \in evicted'[c]

\* What _in_memory_request_count does, in the terms of the lemmas above.
LEMMA MemoryIs ==
  ASSUME Sound, NEW r \in Reqs, CountInMemory(r)
  PROVE  \E c, k, i, u : MemoryStep(r, c, k, i, u)
<1> DEFINE c == req[r].counter
           k == req[r].client
           i == req[r].tier
           key == KeyOf(k, i)
           store == mem[c]
           s == Stamps(store, key)
           u == Pruned(s, now, Tiers[i].window)
           over == ExceedsMemory(Len(u), Tiers[i].limit)
           new == Append(Without(store, key), [key |-> key, stamps |-> Append(u, now)])
           gone == IF MakesRoom(store, key) THEN evicted[c] \cup {Head(store).key} ELSE evicted[c]
<1>1. Types /\ Progress /\ Deques
  BY Zenon DEF Sound
<1>2. InFlight(r) /\ UNCHANGED <<dep, now, zset, ttl>>
  BY Zenon DEF CountInMemory, InFlight
<1>3. /\ c \in Counters /\ k \in Clients /\ i \in TierIndex /\ Stamp(r) = now /\ Tier(r) = Tiers[i]
      /\ now \in Nat /\ Tiers[i].limit \in Nat /\ c \in Backends
  BY Zenon, <1>1, <1>2, InFlightAt, TierFacts, NoneApart DEF Tier, Types
<1>4. BucketOf(r) = key /\ key \in Keys
  <2>1. BucketOf(r) = key
    BY Zenon DEF BucketOf, KeyOf, Tier
  <2> QED BY Zenon, <1>3, <2>1, KeysApart
<1>5. /\ mem' = [mem EXCEPT ![c] = new] /\ evicted' = [evicted EXCEPT ![c] = gone]
      /\ req' = [req EXCEPT ![r] = Decided(r, c, over)]
  BY Zenon, <1>3, <1>4 DEF CountInMemory
<1>6. DequeOk(c, k, i) /\ OneEach(store) /\ store \in Seq(Entries)
      /\ mem \in [Counters -> Seq(Entries)] /\ evicted \in [Counters -> SUBSET Keys]
  BY Zenon, <1>1, <1>3 DEF Deques, Types
<1>7. PrunedOk(u, c, k, i)
  BY Zenon, <1>1, <1>3, <1>6, PruneOk
<1> HIDE DEF c, k, i, key, u
<1>8. u \in Seq(Nat) /\ Len(u) \in Nat /\ Append(u, now) \in Seq(Nat)
  <2>1. u \in Seq(Nat)
    BY Zenon, <1>7 DEF PrunedOk
  <2> QED BY <1>3, <2>1
<1>9. new \in Seq(Entries) /\ StoreIs(new, store, key, Append(u, now))
  <2> HIDE DEF store
  <2> QED BY Zenon, <1>4, <1>6, <1>8, StoreStep
<1>10. gone \in SUBSET Keys /\ evicted[c] \subseteq gone /\ (MakesRoom(store, key) => Head(store).key \in gone)
  <2>1. MakesRoom(store, key) => Head(store).key \in Keys
    <3>1. Left(Without(store, key), store, key)
      <4> HIDE DEF store
      <4> QED BY Zenon, <1>6, WithoutIs
    <3>2. MakesRoom(store, key) => Head(store) = store[1] /\ 1 \in DOMAIN store
      BY Zenon, <3>1 DEF Left
    <3> HIDE DEF store
    <3>3. \A x \in DOMAIN store : store[x] \in Entries
      BY <1>6
    <3> QED BY Zenon, <3>2, <3>3 DEF Entries
  <2> QED BY Zenon, <1>3, <1>6, <2>1
<1> HIDE DEF new, gone, store
<1>11. /\ mem' \in [Counters -> Seq(Entries)] /\ mem'[c] = new
       /\ \A d \in Counters : d # c => mem'[d] = mem[d]
       /\ evicted' \in [Counters -> SUBSET Keys] /\ evicted'[c] = gone
       /\ \A d \in Counters : d # c => evicted'[d] = evicted[d]
  BY Zenon, <1>3, <1>5, <1>6, <1>9, <1>10
<1>12. over \in BOOLEAN
  BY Zenon, <1>3, <1>8, MemoryDecides
<1>13. Counts(r, c, over)
  <2> HIDE DEF over
  <2> QED BY Zenon, <1>1, <1>2, <1>3, <1>5, <1>12, CountsIs
<1>14. \A d \in Counters : evicted[d] \subseteq evicted'[d]
  BY Zenon, <1>10, <1>11
<1>15. k = req[r].client /\ i = req[r].tier
  BY Zenon DEF k, i
<1>16. MemoryStep(r, c, k, i, u)
  BY ZenonT(30), <1>2, <1>3, <1>7, <1>9, <1>10, <1>11, <1>13, <1>14, <1>15 DEF MemoryStep, store, key
<1> QED BY Zenon, <1>16

\* The deques after a request was counted in memory.
LEMMA MemoryDeques ==
  ASSUME Sound, Distinct, NEW r \in Reqs, NEW c, NEW k, NEW i, NEW u, MemoryStep(r, c, k, i, u),
         NEW d \in Counters, NEW l \in Clients, NEW j \in TierIndex
  PROVE  DequeOk(d, l, j)'
<1> DEFINE over == ExceedsMemory(Len(u), Tiers[i].limit)
           key == KeyOf(k, i)
<1>1. Types /\ Progress /\ DequeOk(d, l, j)
  BY Zenon DEF Sound, Deques
<1>2. /\ c \in Counters /\ k \in Clients /\ i \in TierIndex /\ Counts(r, c, over) /\ dep' = dep /\ now' = now
      /\ k = req[r].client /\ i = req[r].tier /\ PrunedOk(u, c, k, i)
      /\ StoreIs(mem'[c], mem[c], key, Append(u, now)) /\ evicted[d] \subseteq evicted'[d]
      /\ (MakesRoom(mem[c], key) => Head(mem[c]).key \in evicted'[c]) /\ (d # c => mem'[d] = mem[d])
  BY Zenon DEF MemoryStep
<1>3. c \in Backends /\ d \in Backends /\ over \in BOOLEAN /\ now' \in Nat /\ now <= now'
  <2>1. u \in Seq(Nat) /\ Tiers[i].limit \in Nat /\ now \in Nat
    BY Zenon, <1>1, <1>2, TierFacts DEF PrunedOk, Types
  <2>l. Len(u) \in Nat
    BY Zenon, <2>1, Lengths
  <2>2. over \in BOOLEAN
    BY Zenon, <2>1, <2>l, MemoryDecides
  <2>3. now' \in Nat /\ now <= now'
    BY <1>2, <2>1
  <2> QED BY Zenon, <1>2, <2>2, <2>3, NoneApart
<1> HIDE DEF over, key
<1>4. Grows
  BY Zenon, <1>1, <1>2, <1>3, CountingGrows
<1>5. KeyOf(l, j)' = KeyOf(l, j)
  BY Zenon, <1>2, DepSame
<1>6. CASE Here(r, c, l, j, d)
  <2>1. l = k /\ j = i /\ d = c
    BY Zenon, <1>2, <1>6 DEF Here
  <2>2. Stamps(mem[c], KeyOf(k, i))' = Append(u, now)
    BY Zenon, <1>2, <1>5, <2>1 DEF StoreIs, key
  <2>3. DequeOk(c, k, i) /\ evicted[c] \subseteq evicted'[c]
    BY Zenon, <1>1, <1>2, <2>1
  <2>4. DequeOk(c, k, i)'
    BY ZenonT(30), <1>1, <1>2, <1>3, <2>2, <2>3, DequeGrows
  <2> QED BY Zenon, <2>1, <2>4
<1>7. CASE ~Here(r, c, l, j, d)
  <2>1. Counted(l, j, d)' = Counted(l, j, d)
    <3>1. Types /\ Progress /\ Counts(r, c, over) /\ c \in Backends /\ d \in Backends
      BY Zenon, <1>1, <1>2, <1>3
    <3> QED BY ZenonT(30), <1>7, <3>1, CountedElsewhere
  <2>2. d = c => KeyOf(l, j) # key
    <3>1. ASSUME d = c, KeyOf(l, j) = key PROVE FALSE
      <4>1. KeyOf(l, j) = KeyOf(k, i)
        BY Zenon, <3>1 DEF key
      <4>2. k \in Clients /\ i \in TierIndex /\ Distinct
        BY Zenon, <1>2
      <4>3. l = k /\ j = i
        BY Zenon, <4>1, <4>2, KeysApart
      <4> QED BY Zenon, <1>2, <1>7, <3>1, <4>3 DEF Here
    <3> QED BY Zenon, <3>1
  <2>3. CASE d = c /\ MakesRoom(mem[c], key) /\ KeyOf(l, j) = Head(mem[c]).key
    <3>1. Stamps(mem[d], KeyOf(l, j))' = <<>> /\ KeyOf(l, j) \in evicted'[d]
      BY Zenon, <1>2, <1>5, <2>2, <2>3 DEF StoreIs
    <3> QED BY Zenon, <1>2, <3>1, DequeDropped
  <2>4. CASE ~(d = c /\ MakesRoom(mem[c], key) /\ KeyOf(l, j) = Head(mem[c]).key)
    <3>1. Stamps(mem[d], KeyOf(l, j))' = Stamps(mem[d], KeyOf(l, j))
      <4>1. CASE d = c
        BY Zenon, <1>2, <1>5, <2>2, <2>4, <4>1 DEF StoreIs
      <4>2. CASE d # c
        BY Zenon, <1>2, <1>5, <4>2
      <4> QED BY Zenon, <4>1, <4>2
    <3> QED BY ZenonT(30), <1>1, <1>2, <1>3, <1>4, <2>1, <3>1, DequeStays
  <2> QED BY Zenon, <2>3, <2>4
<1> QED BY Zenon, <1>6, <1>7

\* A request counted in memory leaves the limiter sound.
LEMMA MemorySound ==
  ASSUME Sound, Distinct, NEW r \in Reqs, CountInMemory(r)
  PROVE  Sound'
<1>0. PICK c, k, i, u : MemoryStep(r, c, k, i, u)
  BY Zenon, MemoryIs
<1> DEFINE over == ExceedsMemory(Len(u), Tiers[i].limit)
           recent == From(k, i, c, now - Tiers[i].window + 1) \cup {r}
<1>1. Types /\ Progress /\ Deques /\ SortedSets
  BY Zenon DEF Sound
<1>2. /\ InFlight(r) /\ c \in Counters /\ k \in Clients /\ i \in TierIndex /\ Counts(r, c, over)
      /\ k = req[r].client /\ i = req[r].tier /\ PrunedOk(u, c, k, i) /\ Tier(r) = Tiers[i]
      /\ \A d \in Counters : evicted[d] \subseteq evicted'[d]
  BY Zenon, <1>0 DEF MemoryStep
<1>d. dep' = dep /\ now' = now /\ zset' = zset /\ ttl' = ttl
      /\ mem' \in [Counters -> Seq(Entries)] /\ evicted' \in [Counters -> SUBSET Keys]
  BY Zenon, <1>0 DEF MemoryStep
<1>3. /\ Tiers[i].limit \in Nat /\ now \in Nat /\ c \in Backends /\ c # "redis" /\ "redis" \in Backends
      /\ DequeOk(c, k, i) /\ TierIndex' = TierIndex
  BY ZenonT(30), <1>1, <1>2, <1>d, TierFacts, NoneApart, DepSame DEF Types, Deques
<1>4. /\ Len(u) \in Nat
      /\ KeyOf(k, i) \notin evicted[c] => Cardinality(recent) <= Len(u) + 1
      /\ Len(u) <= Cardinality(Near(r))
  BY ZenonT(30), <1>1, <1>2, <1>3, MemoryCount
<1>5. over \in BOOLEAN
  BY Zenon, <1>3, <1>4, MemoryDecides
<1>6. Cardinality(recent) \in Nat /\ Cardinality(Near(r)) \in Nat
  <2>1. \A q \in recent : q \in Reqs
    BY Zenon DEF From, Counted
  <2>2. \A q \in Near(r) : q \in Reqs
    BY Zenon DEF Near
  <2>3. recent \in SUBSET Reqs /\ Near(r) \in SUBSET Reqs
    BY Zenon, <2>1, <2>2
  <2> HIDE DEF recent
  <2> QED BY Zenon, <2>3, FiniteReqs
<1>7. /\ KeyOf(k, i) \notin evicted[c] /\ ~over => Cardinality(recent) <= Tiers[i].limit
      /\ over => Cardinality(Near(r)) >= Tiers[i].limit
  <2> HIDE DEF recent
  <2> QED BY Zenon, <1>3, <1>4, <1>6, MemoryDecides
<1> HIDE DEF over
<1>8. Kept(c, k, i)' /\ ~over => Cardinality(recent) <= Tiers[i].limit
  <2>1. Kept(c, k, i)' => KeyOf(k, i) \notin evicted[c]
    BY Zenon, <1>2, <1>d, DepSame DEF Kept
  <2> QED BY Zenon, <1>7, <2>1
<1>9. Grows
  BY Zenon, <1>1, <1>2, <1>3, <1>5, CountingGrows
<1>10. SortedSets'
  <2>1. ASSUME NEW l \in Clients, NEW j \in TierIndex PROVE Known(l, j)' /\ Held(l, j)'
    <3>1. ~Here(r, c, l, j, "redis")
      BY Zenon, <1>3 DEF Here
    <3>2. Counted(l, j, "redis")' = Counted(l, j, "redis")
      <4>1. Types /\ Progress /\ Counts(r, c, over) /\ c \in Backends /\ "redis" \in Backends
        BY Zenon, <1>1, <1>2, <1>3
      <4> QED BY ZenonT(30), <3>1, <4>1, CountedElsewhere
    <3>3. Known(l, j) /\ Held(l, j)
      BY Zenon, <1>1 DEF SortedSets
    <3>4. now' \in Nat /\ now' >= now
      BY <1>3, <1>d
    <3>5. zset'[KeyOf(l, j)] = zset[KeyOf(l, j)] /\ ttl'[KeyOf(l, j)] = ttl[KeyOf(l, j)]
      BY Zenon, <1>d
    <3> QED BY ZenonT(30), <1>1, <1>9, <1>d, <3>2, <3>3, <3>4, <3>5, SetStays
  <2> QED BY Zenon, <1>3, <2>1 DEF SortedSets
<1>11. Deques'
  <2>1. ASSUME NEW d \in Counters, NEW l \in Clients, NEW j \in TierIndex PROVE DequeOk(d, l, j)'
    BY Zenon, <1>0, MemoryDeques
  <2>2. ASSUME NEW d \in Counters PROVE OneEach(mem'[d])
    BY Zenon, <1>0, <1>1 DEF MemoryStep, StoreIs, Deques
  <2> QED BY Zenon, <1>3, <2>1, <2>2 DEF Deques, OneEach
<1>12. Types'
  <2>1. req' \in [Reqs -> RequestType] /\ now' \in Nat \ {0}
    BY Zenon, <1>1, <1>2, <1>d DEF Counts, OthersStay, Types
  <2>2. zset' = [l \in Keys |-> zset'[l]] /\ ttl' \in [Keys -> Nat]
    BY Zenon, <1>1, <1>d DEF Types
  <2> QED BY Zenon, <1>1, <1>d, <2>1, <2>2, TypesStep
<1> QED BY ZenonT(30), <1>2, <1>3, <1>5, <1>7, <1>8, <1>10, <1>11, <1>12, CountedSound

\* A step that counts nothing and leaves Redis alone.
LEMMA QuietSound ==
  ASSUME Sound, NEW r \in Reqs, Arrives(r) \/ Waits(r),
         zset' = zset, ttl' = ttl, mem' = mem, evicted' = evicted
  PROVE  Sound'
<1>1. Types /\ Progress /\ SortedSets
  BY Zenon DEF Sound
<1>2. Grows
  BY Zenon, <1>1, ArrivalGrows, WaitingGrows
<1>3. dep' = dep /\ now' = now /\ TierIndex' = TierIndex /\ req' \in [Reqs -> RequestType]
  BY Zenon, DepSame DEF Arrives, Waits, OthersStay
<1>4. now \in Nat
  BY Zenon, <1>1 DEF Types
<1>5. now' \in Nat /\ now' >= now
  BY <1>3, <1>4
<1>6. ASSUME NEW k \in Clients, NEW i \in TierIndex PROVE Known(k, i)' /\ Held(k, i)'
  <2>1. "redis" \in Backends
    BY Zenon, NoneApart
  <2>2. Counted(k, i, "redis")' = Counted(k, i, "redis")
    BY Zenon, <1>1, <2>1, Uncounted
  <2>3. Known(k, i) /\ Held(k, i)
    BY Zenon, <1>1 DEF SortedSets
  <2>4. zset'[KeyOf(k, i)] = zset[KeyOf(k, i)] /\ ttl'[KeyOf(k, i)] = ttl[KeyOf(k, i)]
    BY Zenon
  <2> QED BY ZenonT(30), <1>1, <1>2, <1>3, <1>5, <2>2, <2>3, <2>4, SetStays
<1>7. SortedSets'
  BY Zenon, <1>3, <1>6 DEF SortedSets
<1>8. Types'
  <2>1. /\ now' \in Nat \ {0} /\ zset' = [k \in Keys |-> zset'[k]] /\ ttl' \in [Keys -> Nat]
        /\ mem' \in [Counters -> Seq(Entries)] /\ evicted' \in [Counters -> SUBSET Keys]
    BY Zenon, <1>1, <1>3 DEF Types
  <2> QED BY Zenon, <1>1, <1>3, <2>1, TypesStep
<1> QED BY Zenon, <1>7, <1>8, UncountedSound

\* A hit that is recorded though its answer is lost.
LEMMA LostSound ==
  ASSUME Sound, Distinct, ~Coarse, NEW r \in Reqs, Waits(r), RecordHit(r), mem' = mem, evicted' = evicted
  PROVE  Sound'
<1>1. Types /\ Progress /\ SortedSets
  BY Zenon DEF Sound
<1>2. Grows
  BY Zenon, <1>1, WaitingGrows
<1>3. dep' = dep /\ now' = now /\ req' \in [Reqs -> RequestType] /\ InFlight(r)
  BY Zenon DEF Waits, OthersStay
<1>4. \A k \in Clients, i \in TierIndex : \A q \in Counted(k, i, "redis")' :
        q \in Counted(k, i, "redis") \/ (q = r /\ k = req[r].client /\ i = req[r].tier)
  <2>1. "redis" \in Backends
    BY Zenon, NoneApart
  <2>2. ASSUME NEW k \in Clients, NEW i \in TierIndex PROVE Counted(k, i, "redis")' = Counted(k, i, "redis")
    BY Zenon, <1>1, <2>1, Uncounted
  <2> QED BY Zenon, <2>2
<1>5. SortedSets'
  BY Zenon, <1>1, <1>2, <1>3, <1>4, RecordedSets
<1>6. Types'
  <2>1. zset' = [k \in Keys |-> zset'[k]] /\ ttl' \in [Keys -> Nat]
    BY Zenon, <1>1, <1>3, RecordTypes
  <2>2. now' \in Nat \ {0} /\ mem' \in [Counters -> Seq(Entries)] /\ evicted' \in [Counters -> SUBSET Keys]
    BY Zenon, <1>1, <1>3 DEF Types
  <2> QED BY Zenon, <1>1, <1>3, <2>1, <2>2, TypesStep
<1> QED BY Zenon, <1>5, <1>6, UncountedSound

\* Time passes when nothing is in flight.
LEMMA StillSound ==
  ASSUME Sound, req' = req, UNCHANGED <<dep, zset, ttl, mem, evicted>>, now' \in Nat, now <= now',
         now' # now => \A r \in Reqs : ~InFlight(r)
  PROVE  Sound'
<1>1. Types /\ Progress /\ SortedSets /\ Deques /\ Enforced /\ BlockedOnlyOverLimit /\ now \in Nat \ {0}
  BY Zenon DEF Sound, Types
<1>2. TierIndex' = TierIndex /\ UseRedis' = UseRedis /\ dep' = dep /\ RequestType' = RequestType
  BY Zenon, DepSame
<1>3. Grows
  BY Zenon DEF Grows, GrowsAt
<1>4. ASSUME NEW r \in Reqs PROVE ProgressOf(r)'
  <2>1. ProgressOf(r) /\ InFlight(r)' = InFlight(r) /\ Stamp(r)' = Stamp(r)
    BY Zenon, <1>1 DEF Progress, InFlight, Stamp
  <2>2. ASSUME NEW i \in TierIndex PROVE req[r].ts[i] <= now'
    <3>1. req[r].ts[i] \in Nat /\ req[r].ts[i] <= now
      BY Zenon, <1>1, <2>1, RequestFields DEF ProgressOf
    <3>2. now \in Nat
      BY Zenon, <1>1
    <3> QED BY Zenon, <3>1, <3>2, NoMore
  <2> QED BY Zenon, <1>2, <2>1, <2>2 DEF ProgressOf
<1>5. Progress'
  BY Zenon, <1>4 DEF Progress
<1>6. \A k, i, b : Counted(k, i, b)' = Counted(k, i, b)
  BY Zenon DEF Counted
<1>7. SortedSets'
  <2>1. ASSUME NEW k \in Clients, NEW i \in TierIndex PROVE Known(k, i)' /\ Held(k, i)'
    <3>1. Known(k, i) /\ Held(k, i) /\ Counted(k, i, "redis")' = Counted(k, i, "redis")
      BY Zenon, <1>1, <1>6 DEF SortedSets
    <3>2. zset'[KeyOf(k, i)] = zset[KeyOf(k, i)] /\ ttl'[KeyOf(k, i)] = ttl[KeyOf(k, i)]
      BY Zenon
    <3>3. now' >= now
      BY <1>1
    <3> QED BY ZenonT(30), <1>1, <1>2, <1>3, <3>1, <3>2, <3>3, SetStays
  <2> QED BY Zenon, <1>2, <2>1 DEF SortedSets
<1>8. Deques'
  <2>1. ASSUME NEW c \in Counters, NEW k \in Clients, NEW i \in TierIndex PROVE DequeOk(c, k, i)'
    <3>1. DequeOk(c, k, i) /\ Counted(k, i, c)' = Counted(k, i, c) /\ evicted[c] \subseteq evicted'[c]
      BY Zenon, <1>1, <1>6 DEF Deques
    <3>2. Stamps(mem[c], KeyOf(k, i))' = Stamps(mem[c], KeyOf(k, i))
      BY Zenon, <1>2, DepSame DEF Stamps, Holds, Slot
    <3> QED BY ZenonT(30), <1>1, <1>2, <1>3, <3>1, <3>2, DequeStays
  <2> QED BY Zenon, <1>1, <1>2, <2>1 DEF Deques, OneEach
<1>9. Enforced'
  <2>1. ASSUME NEW k \in Clients, NEW i \in TierIndex, NEW b \in Backends PROVE EnforcedAt(k, i, b)'
    <3>1. EnforcedAt(k, i, b) /\ Counted(k, i, b)' = Counted(k, i, b)
      BY Zenon, <1>1, <1>6 DEF Enforced
    <3>2. \A c \in Counters : evicted[c] \subseteq evicted'[c]
      BY Zenon
    <3> QED BY Zenon, <1>1, <1>2, <1>3, <3>1, <3>2, EnforcedStays
  <2> QED BY Zenon, <1>2, <2>1 DEF Enforced
<1>10. BlockedOnlyOverLimit'
  <2>1. ASSUME NEW r \in Reqs, req'[r].verdict = "block" PROVE Cardinality(Rivals(r)') >= Tier(r)'.limit
    <3>1. req[r].verdict = "block"
      BY Zenon, <2>1
    <3>2. Cardinality(Rivals(r)) >= Tier(r).limit
      BY Zenon, <1>1, <3>1, BlockedIs
    <3> QED BY ZenonT(30), <1>1, <1>2, <1>3, <3>1, <3>2, BlockedStays
  <2> QED BY Zenon, <2>1, BlockedIs
<1>11. Types'
  <2>1. now' \in Nat \ {0}
    BY <1>1
  <2>2. /\ req' \in [Reqs -> RequestType] /\ zset' = [k \in Keys |-> zset'[k]] /\ ttl' \in [Keys -> Nat]
        /\ mem' \in [Counters -> Seq(Entries)] /\ evicted' \in [Counters -> SUBSET Keys]
    BY Zenon, <1>1 DEF Types
  <2> QED BY Zenon, <1>1, <1>2, <2>1, <2>2, TypesStep
<1> QED BY ZenonT(30), <1>5, <1>7, <1>8, <1>9, <1>10, <1>11 DEF Sound

\* Every step leaves it so.
LEMMA RateStep ==
  ASSUME MaxLatency = 0, Sound, Distinct, Fine, Next
  PROVE  Sound'
<1>1. Types /\ Progress
  BY Zenon DEF Sound
<1>2. ASSUME NEW r \in Reqs, Arrive(r) PROVE Sound'
  BY Zenon, <1>1, <1>2, ArriveIs, QuietSound
<1>3. ASSUME NEW r \in Reqs, req[r].pc \in {"redis", "load", "retry"} PROVE UseRedis /\ ~Coarse /\ InFlight(r)
  BY Zenon, <1>1, <1>3 DEF Progress, ProgressOf, Fine, InFlight
<1>4. ASSUME NEW r \in Reqs, EvalSha(r) PROVE Sound'
  <2>1. req[r].pc = "redis" /\ dep' = dep /\ now' = now /\ mem' = mem /\ evicted' = evicted
    BY Zenon, <1>4 DEF EvalSha
  <2>2. UseRedis /\ ~Coarse /\ InFlight(r)
    BY Zenon, <1>3, <2>1
  <2>3. CASE scripts
    <3>1. CountInRedis(r)
      BY Zenon, <1>4, <2>3 DEF EvalSha
    <3> QED BY Zenon, <2>1, <2>2, <3>1, RedisSound
  <2>4. CASE ~scripts
    <3>1. req' = [req EXCEPT ![r] = [req[r] EXCEPT !.pc = "load"]] /\ zset' = zset /\ ttl' = ttl
      BY Zenon, <1>4, <2>4 DEF EvalSha
    <3>2. Waits(r)
      BY ZenonT(30), <1>1, <2>1, <2>2, <3>1, WaitsIs
    <3> QED BY Zenon, <2>1, <3>1, <3>2, QuietSound
  <2> QED BY Zenon, <2>3, <2>4
<1>5. ASSUME NEW r \in Reqs, Pipeline(r) \/ RetryEvalSha(r) PROVE Sound'
  <2>1. /\ req[r].pc \in {"redis", "load", "retry"} /\ dep' = dep /\ now' = now /\ mem' = mem
        /\ evicted' = evicted /\ CountInRedis(r)
    BY Zenon, <1>5 DEF Pipeline, RetryEvalSha
  <2>2. UseRedis /\ ~Coarse /\ InFlight(r)
    BY Zenon, <1>3, <2>1
  <2> QED BY Zenon, <2>1, <2>2, RedisSound
<1>6. ASSUME NEW r \in Reqs, ScriptLoad(r) PROVE Sound'
  <2>1. /\ req[r].pc \in {"redis", "load", "retry"} /\ dep' = dep /\ now' = now /\ mem' = mem
        /\ evicted' = evicted /\ zset' = zset /\ ttl' = ttl
        /\ req' = [req EXCEPT ![r] = [req[r] EXCEPT !.pc = "retry"]]
    BY Zenon, <1>6 DEF ScriptLoad
  <2>2. UseRedis /\ InFlight(r)
    BY Zenon, <1>3, <2>1
  <2>3. Waits(r)
    BY Zenon, <1>1, <2>1, <2>2, WaitsIs
  <2> QED BY Zenon, <2>1, <2>3, QuietSound
<1>7. ASSUME NEW r \in Reqs, RedisFails(r) PROVE Sound'
  <2> DEFINE e == IF FailOpen THEN [req[r] EXCEPT !.pc = "memory"]
                  ELSE [req[r] EXCEPT !.pc = "done", !.verdict = "error"]
  <2>1. /\ req[r].pc \in {"redis", "load", "retry"} /\ dep' = dep /\ now' = now /\ mem' = mem
        /\ evicted' = evicted /\ req' = [req EXCEPT ![r] = e]
        /\ (zset' = zset /\ ttl' = ttl) \/ RecordHit(r)
    BY Zenon, <1>7 DEF RedisFails
  <2>2. ~Coarse /\ InFlight(r)
    BY Zenon, <1>3, <2>1
  <2>3. \/ e = [req[r] EXCEPT !.pc = "memory"]
        \/ e = [req[r] EXCEPT !.pc = "done", !.verdict = "error"]
    BY Zenon
  <2> HIDE DEF e
  <2>4. Waits(r)
    BY ZenonT(30), <1>1, <2>1, <2>2, <2>3, WaitsIs
  <2>5. CASE zset' = zset /\ ttl' = ttl
    BY Zenon, <2>1, <2>4, <2>5, QuietSound
  <2>6. CASE RecordHit(r)
    BY ZenonT(30), <2>1, <2>2, <2>4, <2>6, LostSound
  <2> QED BY Zenon, <2>1, <2>5, <2>6
<1>8. ASSUME NEW r \in Reqs, CountInMemory(r) PROVE Sound'
  BY Zenon, <1>8, MemorySound
<1>n. now \in Nat
  BY Zenon, <1>1 DEF Types
<1>9. CASE Flush
  <2>1. req' = req /\ UNCHANGED <<dep, zset, ttl, mem, evicted>> /\ now' = now
    BY Zenon, <1>9 DEF Flush
  <2>2. now' \in Nat /\ now <= now'
    BY <1>n, <2>1
  <2> QED BY Zenon, <2>1, <2>2, StillSound
<1>10. CASE Tick
  <2>1. req' = req /\ UNCHANGED <<dep, zset, ttl, mem, evicted>> /\ now' = now + 1
    BY Zenon, <1>10 DEF Tick
  <2>2. now' \in Nat /\ now <= now'
    BY <1>n, <2>1
  <2>3. ASSUME NEW r \in Reqs, InFlight(r) PROVE FALSE
    <3>1. Stamp(r) = now /\ now - Stamp(r) < MaxLatency
      BY Zenon, <1>1, <1>10, <2>3, InFlightAt DEF Tick
    <3> QED BY <1>n, <3>1
  <2>4. \A r \in Reqs : ~InFlight(r)
    BY Zenon, <2>3
  <2> QED BY Zenon, <2>1, <2>2, <2>4, StillSound
<1> QED BY ZenonT(30), <1>2, <1>4, <1>5, <1>6, <1>7, <1>8, <1>9, <1>10 DEF Next, Step

\* The inductive invariant holds always.
LEMMA RateInvAlways == MaxLatency = 0 /\ Spec => []RateInv
<1> SUFFICES ASSUME MaxLatency = 0 PROVE Spec => []RateInv
  BY Zenon
<1>1. Init => RateInv
  BY Zenon, RateInit DEF RateInv
<1>2. RateInv /\ [Next]_vars => RateInv'
  <2> SUFFICES ASSUME RateInv, [Next]_vars, Distinct', Fine' PROVE Sound'
    BY Zenon DEF RateInv
  <2>1. dep' = dep
    BY Zenon, NextKeepsDep
  <2>2. Distinct /\ Fine
    BY Zenon, <2>1 DEF Distinct, Fine, Tiers, TierIndex, UseRedis, Coarse
  <2>3. Sound
    BY Zenon, <2>2 DEF RateInv
  <2>4. CASE Next
    BY Zenon, <2>2, <2>3, <2>4, RateStep
  <2>5. CASE UNCHANGED vars
    <3>1. req' = req /\ UNCHANGED <<dep, zset, ttl, mem, evicted>> /\ now' = now
      BY Zenon, <2>5 DEF vars
    <3>2. now \in Nat
      BY Zenon, <2>3 DEF Sound, Types
    <3>3. now' \in Nat /\ now <= now'
      BY <3>1, <3>2
    <3> QED BY Zenon, <2>3, <3>1, <3>3, StillSound
  <2> QED BY Zenon, <2>4, <2>5
<1> QED BY <1>1, <1>2, PTL DEF Spec

\* The limits hold, for any clients, processes, tiers, limits, windows, number of
\* requests, Redis faults and store size: of the requests that one backend counted
\* for a tier no window holds more admitted ones than the limit, in Redis
\* (RATE_LIMIT_SCRIPT or the pipeline) and, unless its key was dropped to make
\* room, in a process' own deques.  Supposed are a bucket for each tier of a
\* request (RateLimitCheck.check otherwise counts it twice in one), with Redis
\* readings of the clock that differ, and requests that are counted at the time
\* they were stamped with.
THEOREM LimitIsEnforced == MaxLatency = 0 /\ Spec => [](Distinct /\ Fine => LimitEnforced)
<1>1. RateInv => (Distinct /\ Fine => LimitEnforced)
  BY Zenon, SoundLimits DEF RateInv
<1> QED BY <1>1, RateInvAlways, PTL

\* Nobody is refused without cause, under the same suppositions: when a tier
\* blocks a request, as many others of the client as the limit reached the tier
\* within the window.
THEOREM BlockedWithCause == MaxLatency = 0 /\ Spec => [](Distinct /\ Fine => BlockedOnlyOverLimit)
<1>1. RateInv => (Distinct /\ Fine => BlockedOnlyOverLimit)
  BY Zenon DEF RateInv, Sound
<1> QED BY <1>1, RateInvAlways, PTL
=============================================================================
