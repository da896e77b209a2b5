-------------------------- MODULE PatternRegistry --------------------------
(***************************************************************************)
(* The registry of detection patterns                                      *)
(* (src/guard_core/handlers/_suspatterns_registry.py): in every process    *)
(* the default patterns, two parallel lists of sources and of compiled     *)
(* forms, and the custom patterns, two sets; and the one Redis key that    *)
(* keeps the custom patterns of all processes as a comma-separated string. *)
(*                                                                         *)
(* A caller is a task <<w, i>> of worker w.  Tasks of a worker change at   *)
(* awaits only: on the store, and on the thread that validates a pattern.  *)
(* RgPieces gives the parts the stored string is split into: a pattern     *)
(* without a comma is its own only piece.                                  *)
(***************************************************************************)
EXTENDS Integers, FiniteSets, SequencesExt

CONSTANTS RgCallers,      \* pairs <<worker, task>>
          RgBuiltin,      \* the built-in patterns, a sequence
          RgPatterns,     \* what callers add
          RgPieces,       \* pattern -> the set of its pieces
          RgUnsafe,       \* the pieces and patterns validation refuses
          RgDeployments,  \* records [callers, patterns, failures, crashes, early]
          RgMaxCalls      \* bound: the calls of all callers

RgAll == RgPatterns \cup UNION {RgPieces[x] : x \in RgPatterns}

ASSUME RgAssumption ==
    /\ \A d \in RgDeployments : d.callers \subseteq RgCallers
    /\ RgPieces \in [RgPatterns -> SUBSET RgAll]

RgWorkers == {c[1] : c \in RgCallers}

VARIABLES rgDeployed,
          patterns, compiled,               \* of each worker: the lists
          customPatterns, compiledCustom,   \* of each worker: the sets
          attached,                         \* of each worker: redis_handler is set
          stored,                           \* the pieces under patterns:custom
          rgAt, adding, asCustom, todo, joined,  \* of each caller
          calls,                            \* counts the calls (bound)
          added,                            \* history: patterns callers added
          kept                              \* history: of those, not removed again

rgWorker == <<patterns, compiled, customPatterns, compiledCustom, attached>>
rgVars == <<rgDeployed, rgWorker, stored, rgAt, adding, asCustom, todo, joined,
            calls, added, kept>>

RgInit == /\ rgDeployed \in RgDeployments
          /\ patterns = [w \in RgWorkers |-> RgBuiltin]
          /\ compiled = [w \in RgWorkers |-> RgBuiltin]
          /\ customPatterns = [w \in RgWorkers |-> {}]
          /\ compiledCustom = [w \in RgWorkers |-> {}]
          /\ attached = [w \in RgWorkers |-> FALSE]
          /\ stored = {}
          /\ rgAt = [c \in RgCallers |-> "idle"]
          /\ adding = [c \in RgCallers |-> ""]
          /\ asCustom = [c \in RgCallers |-> FALSE]
          /\ todo = [c \in RgCallers |-> {}]
          /\ joined = [c \in RgCallers |-> {}]
          /\ calls = 0 /\ added = {} /\ kept = {}

RgGoto(c, label) == rgAt' = [rgAt EXCEPT ![c] = label]

\* "restore" is the loop of initialize_redis, which calls add_pattern.
RgReturn(c) == RgGoto(c, IF todo[c] = {} THEN "idle" ELSE "restore")

RgCall(c) == /\ rgAt[c] = "idle" /\ calls < RgMaxCalls
             /\ rgDeployed.early \/ attached[c[1]]
             /\ calls' = calls + 1

\* The pieces of the string joined from a set of patterns.
Split(S) == UNION {IF x \in RgPatterns THEN RgPieces[x] ELSE {x} : x \in S}

----------------------------------------------------------------------------
(* initialize_redis, once in the life of a process.                        *)

InitializeRedis(c) ==
    /\ rgAt[c] = "idle" /\ ~attached[c[1]]
    /\ attached' = [attached EXCEPT ![c[1]] = TRUE]
    /\ RgGoto(c, "get")
    /\ UNCHANGED <<rgDeployed, patterns, compiled, customPatterns, compiledCustom,
                   stored, adding, asCustom, todo, joined, calls, added, kept>>

GetCachedPatterns(c) ==
    /\ rgAt[c] = "get"
    /\ \E got \in {stored} \cup (IF rgDeployed.failures THEN {{}} ELSE {}) :
           /\ todo' = [todo EXCEPT ![c] = got]
           /\ RgGoto(c, IF got = {} THEN "idle" ELSE "restore")
    /\ UNCHANGED <<rgDeployed, rgWorker, stored, adding, asCustom, joined, calls,
                   added, kept>>

RestoreNext(c, x) ==
    /\ rgAt[c] = "restore" /\ x \in todo[c]
    /\ todo' = [todo EXCEPT ![c] = @ \ {x}]
    /\ IF x \in customPatterns[c[1]]
       THEN RgGoto(c, IF todo'[c] = {} THEN "idle" ELSE "restore")
            /\ UNCHANGED <<adding, asCustom>>
       ELSE /\ adding' = [adding EXCEPT ![c] = x]
            /\ asCustom' = [asCustom EXCEPT ![c] = TRUE]
            /\ RgGoto(c, "validate")
    /\ UNCHANGED <<rgDeployed, rgWorker, stored, joined, calls, added, kept>>

----------------------------------------------------------------------------
(* add_pattern: the validation runs in a thread; then, without an await,   *)
(* the pattern is registered and the string to store is joined.            *)

AddPattern(c, x, custom) ==
    /\ RgCall(c)
    /\ adding' = [adding EXCEPT ![c] = x]
    /\ asCustom' = [asCustom EXCEPT ![c] = custom]
    /\ RgGoto(c, "validate")
    /\ added' = added \cup {x}
    /\ UNCHANGED <<rgDeployed, rgWorker, stored, todo, joined, kept>>

Rejected(c) ==
    /\ rgAt[c] = "validate" /\ adding[c] \in RgUnsafe
    /\ RgReturn(c)
    /\ UNCHANGED <<rgDeployed, rgWorker, stored, adding, asCustom, todo, joined,
                   calls, added, kept>>

AddCustom(c) ==
    LET w == c[1] IN
    /\ rgAt[c] = "validate" /\ asCustom[c] /\ adding[c] \notin RgUnsafe
    /\ compiledCustom' = [compiledCustom EXCEPT ![w] = @ \cup {adding[c]}]
    /\ customPatterns' = [customPatterns EXCEPT ![w] = @ \cup {adding[c]}]
    /\ kept' = kept \cup {adding[c]}
    /\ IF attached[w]
       THEN RgGoto(c, "set") /\ joined' = [joined EXCEPT ![c] = customPatterns'[w]]
       ELSE RgReturn(c) /\ UNCHANGED joined
    /\ UNCHANGED <<rgDeployed, patterns, compiled, attached, stored, adding,
                   asCustom, todo, calls, added>>

AddDefault(c) ==
    LET w == c[1] IN
    /\ rgAt[c] = "validate" /\ ~asCustom[c] /\ adding[c] \notin RgUnsafe
    /\ compiled' = [compiled EXCEPT ![w] = Append(@, adding[c])]
    /\ patterns' = [patterns EXCEPT ![w] = Append(@, adding[c])]
    /\ RgReturn(c)
    /\ UNCHANGED <<rgDeployed, customPatterns, compiledCustom, attached, stored,
                   adding, asCustom, todo, joined, calls, added, kept>>

\* set_key of the string as it was joined; a failure ends add_pattern, the
\* restore that called it, and remove_pattern.
SetKey(c) ==
    /\ rgAt[c] = "set"
    /\ \/ /\ stored' = Split(joined[c])
          /\ RgReturn(c)
          /\ UNCHANGED todo
       \/ /\ rgDeployed.failures
          /\ RgGoto(c, "idle")
          /\ todo' = [todo EXCEPT ![c] = {}]
          /\ UNCHANGED stored
    /\ joined' = [joined EXCEPT ![c] = {}]
    /\ UNCHANGED <<rgDeployed, rgWorker, adding, asCustom, calls, added, kept>>

----------------------------------------------------------------------------
(* remove_pattern.                                                         *)

\* Variant: the stored string is left as it was.
RemoveCustomKept(c, x) ==
    LET w == c[1] IN
    /\ RgCall(c) /\ x \in customPatterns[w]
    /\ customPatterns' = [customPatterns EXCEPT ![w] = @ \ {x}]
    /\ compiledCustom' = [compiledCustom EXCEPT ![w] = @ \ {x}]
    /\ kept' = kept \ {x}
    /\ UNCHANGED <<rgDeployed, patterns, compiled, attached, stored, rgAt, adding,
                   asCustom, todo, joined, added>>

RemoveCustom(c, x) ==
    LET w == c[1] IN
    /\ RgCall(c) /\ x \in customPatterns[w]
    /\ customPatterns' = [customPatterns EXCEPT ![w] = @ \ {x}]
    /\ compiledCustom' = [compiledCustom EXCEPT ![w] = @ \ {x}]
    /\ kept' = kept \ {x}
    /\ IF attached[w]
       THEN RgGoto(c, "set") /\ joined' = [joined EXCEPT ![c] = customPatterns'[w]]
       ELSE UNCHANGED <<rgAt, joined>>
    /\ UNCHANGED <<rgDeployed, patterns, compiled, attached, stored, adding,
                   asCustom, todo, added>>

RgIndex(w, x) == CHOOSE i \in DOMAIN patterns[w] :
                     patterns[w][i] = x /\ \A j \in 1..(i - 1) : patterns[w][j] # x

RemoveDefault(c, x) ==
    LET w == c[1]
        i == RgIndex(w, x)
    IN
    /\ RgCall(c) /\ Contains(patterns[w], x)
    /\ patterns' = [patterns EXCEPT ![w] = RemoveAt(@, i)]
    /\ compiled' = [compiled EXCEPT ![w] = IF i \in DOMAIN @ THEN RemoveAt(@, i) ELSE @]
    /\ UNCHANGED <<rgDeployed, customPatterns, compiledCustom, attached, stored,
                   rgAt, adding, asCustom, todo, joined, added, kept>>

\* reset, which leaves the store alone; a service does not call it.
Reset(c) ==
    LET w == c[1] IN
    /\ rgDeployed.early /\ RgCall(c)
    /\ customPatterns' = [customPatterns EXCEPT ![w] = {}]
    /\ compiledCustom' = [compiledCustom EXCEPT ![w] = {}]
    /\ attached' = [attached EXCEPT ![w] = FALSE]
    /\ UNCHANGED <<rgDeployed, patterns, compiled, stored, rgAt, adding, asCustom,
                   todo, joined, added, kept>>

\* The process ends and a new one starts; with crashes at any point, else when
\* none of its calls is under way.
Restart(w) ==
    /\ \E c \in rgDeployed.callers : c[1] = w
    /\ attached[w]
    /\ rgDeployed.crashes \/ \A c \in RgCallers : c[1] = w => rgAt[c] = "idle"
    /\ calls < RgMaxCalls /\ calls' = calls + 1
    /\ patterns' = [patterns EXCEPT ![w] = RgBuiltin]
    /\ compiled' = [compiled EXCEPT ![w] = RgBuiltin]
    /\ customPatterns' = [customPatterns EXCEPT ![w] = {}]
    /\ compiledCustom' = [compiledCustom EXCEPT ![w] = {}]
    /\ attached' = [attached EXCEPT ![w] = FALSE]
    /\ LET Cleared(f, v) == [c \in RgCallers |-> IF c[1] = w THEN v ELSE f[c]]
       IN  /\ rgAt' = Cleared(rgAt, "idle") /\ adding' = Cleared(adding, "")
           /\ asCustom' = Cleared(asCustom, FALSE) /\ todo' = Cleared(todo, {})
           /\ joined' = Cleared(joined, {})
    /\ UNCHANGED <<rgDeployed, stored, added, kept>>

RgNext ==
    \/ \E c \in rgDeployed.callers :
           \/ InitializeRedis(c) \/ GetCachedPatterns(c) \/ Rejected(c)
           \/ AddCustom(c) \/ AddDefault(c) \/ SetKey(c) \/ Reset(c)
           \/ \E x \in RgAll : RestoreNext(c, x) \/ RemoveCustom(c, x)
           \/ \E x \in rgDeployed.patterns :
                  \/ \E custom \in BOOLEAN : AddPattern(c, x, custom)
                  \/ RemoveDefault(c, x)
    \/ \E w \in RgWorkers : Restart(w)

RgSpec == RgInit /\ [][RgNext]_rgVars

----------------------------------------------------------------------------

RgQuiet(w) == \A c \in RgCallers : c[1] = w => rgAt[c] = "idle"

\* In one process whose calls do not overlap, with a store that answers, orderly
\* restarts and no commas, the custom patterns in use and the stored string are
\* what callers added and did not remove, across any number of restarts.
CustomPatternsDurable ==
    \A w \in RgWorkers :
        \/ rgDeployed.failures \/ rgDeployed.crashes \/ rgDeployed.early
        \/ Cardinality(rgDeployed.callers) > 1
        \/ \E x \in rgDeployed.patterns : RgPieces[x] # {x}
        \/ ~attached[w] \/ ~RgQuiet(w)
        \/ customPatterns[w] = kept /\ stored = kept
============================================================================
