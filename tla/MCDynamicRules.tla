--------------------------- MODULE MCDynamicRules ---------------------------
(* Instances of DynamicRules for TLC. *)
EXTENDS DynamicRules

CONSTANTS c1, i1, i2

Rule(id, version, expires, limit, threshold, emergency) ==
    [id |-> id, version |-> version, expires |-> expires, limit |-> limit,
     threshold |-> threshold, emergency |-> emergency]

\* The configuration before any rule; 4 can be halved twice.
Base == [limit |-> "base", threshold |-> 4, emergency |-> FALSE]

\* An expiring emergency rule, its successor, and a rule under another id.
A1 == Rule("a", 1, 0, "strict", None, TRUE)
A2 == Rule("a", 2, 1, None, 3, TRUE)
B2 == Rule("b", 2, Never, "loose", 2, FALSE)

\* Two versions that do not expire.
L1 == Rule("a", 1, Never, "strict", None, FALSE)
L2 == Rule("a", 2, Never, "loose", None, TRUE)

AllRules == {A1, A2, B2, L1, L2}

\* The awaits at which a cancellation leaves no half-applied rule.
Harmless == {"idle", "expiry", "fetch", "received", "lock", "bans"}

\* An update loop and force_update overlapping, with faults, without the file;
\* the loop alone, with everything that can fail; both stores; two initialisers
\* and a caller without faults.
Overlap == [rules |-> {A1, A2, B2}, callers |-> {c1}, inits |-> {i1}, file |-> FALSE,
            cancel |-> Harmless, faults |-> {"agent", "apply", "redis", "crash"}]
Alone == [Overlap EXCEPT !.callers = {}, !.faults = @ \cup {"lag"}]
BothStores == [rules |-> {L1, L2}, callers |-> {c1}, inits |-> {i1}, file |-> TRUE,
               cancel |-> {}, faults |-> {"agent", "apply", "file", "crash"}]
Rollout == [rules |-> {A1, A2}, callers |-> {c1}, inits |-> {i1, i2}, file |-> FALSE,
            cancel |-> {}, faults |-> {}]
AllDeployments == {Overlap, Alone, BothStores, Rollout}

\* The loop can be cancelled at every await.
Cancelled == {[Alone EXCEPT !.cancel = Awaits \ {"off", "load"}, !.faults = {}]}
=============================================================================
