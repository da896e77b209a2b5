--------------------------- MODULE CompiledCache ---------------------------
(***************************************************************************)
(* The cache of compiled patterns of a PatternCompiler                     *)
(* (src/guard_core/detection_engine/compiler.py), a dictionary and a list  *)
(* of its keys in the order of their use, as threads share it: the first   *)
(* look at the dictionary is made before the lock is taken.                *)
(***************************************************************************)
EXTENDS Integers, FiniteSets, SequencesExt

CONSTANTS CcThreads, CcKeys,
          CcSize,     \* max_cache_size
          CcMaxUses   \* bound: the uses that are counted

ASSUME CcAssumption == CcSize \in Nat \ {0} /\ CcMaxUses \in Nat

VARIABLES cache,      \* _compiled_cache, its keys
          order,      \* _cache_order
          ccAt, wanted,
          uses,       \* history: number of uses so far
          lastUse     \* history: per key, the number of its last use

ccVars == <<cache, order, ccAt, wanted, uses, lastUse>>

CcInit == /\ cache = {} /\ order = <<>>
          /\ ccAt = [t \in CcThreads |-> "idle"]
          /\ wanted = [t \in CcThreads |-> CHOOSE k \in CcKeys : TRUE]
          /\ uses = 0 /\ lastUse = [k \in CcKeys |-> 0]

CcGoto(t, label) == ccAt' = [ccAt EXCEPT ![t] = label]

CcUsed(k) == uses' = uses + 1 /\ lastUse' = [lastUse EXCEPT ![k] = uses + 1]

CompilePattern(t, k) ==
    /\ ccAt[t] = "idle" /\ uses < CcMaxUses
    /\ wanted' = [wanted EXCEPT ![t] = k]
    /\ CcGoto(t, IF k \in cache THEN "hit" ELSE "miss")
    /\ UNCHANGED <<cache, order, uses, lastUse>>

\* Variant: a hit does not move the key to the end of the order.
HitUnmoved(t) ==
    /\ ccAt[t] = "hit"
    /\ IF wanted[t] \in cache
       THEN CcUsed(wanted[t]) /\ CcGoto(t, "idle")
       ELSE CcGoto(t, "miss") /\ UNCHANGED <<uses, lastUse>>
    /\ UNCHANGED <<cache, order, wanted>>

\* The first block under the lock: the key may have been evicted meanwhile.
Hit(t) ==
    LET k == wanted[t] IN
    /\ ccAt[t] = "hit"
    /\ IF k \in cache
       THEN /\ order' = Append(Remove(order, k), k)
            /\ CcUsed(k) /\ CcGoto(t, "idle")
       ELSE CcGoto(t, "miss") /\ UNCHANGED <<order, uses, lastUse>>
    /\ UNCHANGED <<cache, wanted>>

CcEvicting(k) == k \notin cache /\ Cardinality(cache) >= CcSize

\* Variant: the key found missing before the lock is not looked up again.
MissUnchecked(t) ==
    LET k == wanted[t]
        full == Cardinality(cache) >= CcSize
    IN
    /\ ccAt[t] = "miss"
    /\ cache' = (IF full THEN cache \ {Head(order)} ELSE cache) \cup {k}
    /\ order' = Append(IF full THEN Tail(order) ELSE order, k)
    /\ CcUsed(k) /\ CcGoto(t, "idle")
    /\ UNCHANGED wanted

\* The second block: the oldest key makes room.  A key that another thread has
\* added meanwhile is returned without being moved.
Miss(t) ==
    LET k == wanted[t] IN
    /\ ccAt[t] = "miss"
    /\ IF k \in cache
       THEN UNCHANGED <<cache, order, uses, lastUse>>
       ELSE /\ cache' = (IF CcEvicting(k) THEN cache \ {Head(order)} ELSE cache)
                            \cup {k}
            /\ order' = Append(IF CcEvicting(k) THEN Tail(order) ELSE order, k)
            /\ CcUsed(k)
    /\ CcGoto(t, "idle")
    /\ UNCHANGED wanted

ClearCache == /\ cache # {}
              /\ cache' = {} /\ order' = <<>>
              /\ UNCHANGED <<ccAt, wanted, uses, lastUse>>

CcNext == \/ \E t \in CcThreads : \/ \E k \in CcKeys : CompilePattern(t, k)
                                  \/ Hit(t) \/ Miss(t)
          \/ ClearCache

CcSpec == CcInit /\ [][CcNext]_ccVars

----------------------------------------------------------------------------

\* The order lists every cached key once and nothing else, and the cache keeps
\* its size: list.remove and pop(0) find what they expect in every
\* interleaving of hits, misses, evictions and clear_cache.
OrderIsCache == /\ IsInjective(order)
                /\ ToSet(order) = cache
                /\ Cardinality(cache) <= CcSize

\* Only the key whose last use is the oldest makes room for another, however
\* lookups and insertions of the threads overlap.  (A lookup that finds its
\* key inserted by another thread meanwhile does not count as a use.)
EvictsColdest ==
    [][\A k \in cache \ cache' :
           cache' # {} => \A other \in cache \ {k} : lastUse[k] < lastUse[other]]_ccVars

\* Cache and order together are a cache that evicts what was used least recently.
LeastRecentlyUsed == []OrderIsCache /\ EvictsColdest
============================================================================
