------------------------------ MODULE MCHandlers ------------------------------
(* The request-side handlers and the detection engine, for TLC.  They share no  *)
(* state here: a behaviour is one of the module that part names.               *)
EXTENDS ClientAddress, Behavior, DetectionScan, CompiledCache, VerdictCache,
        PatternRegistry, PerfMonitor

VARIABLE part

-----------------------------------------------------------------------------
(* ClientAddress: no proxies, one kind or two are listed; the unix token.  *)

Proxies == [listed : {{}, {"p"}, {"p", "q"}}, unix : {FALSE}, depth : 1..3]
           \cup [listed : {{"p"}}, unix : {TRUE}, depth : 1..2]
NoProxy == [listed |-> {}, unix |-> FALSE, depth |-> 1]

-----------------------------------------------------------------------------
(* Behavior: one usage rule in memory; more clients or endpoints than there *)
(* is room for; Redis that may fail; threads; a usage and a return rule;      *)
(* global rules, one of which correlates.                                  *)

Usage(threshold, window) ==
    [kind |-> "usage", pattern |-> "none", threshold |-> threshold, window |-> window,
     correlate |-> FALSE]
Return(threshold, window, pattern, correlate) ==
    [Usage(threshold, window) EXCEPT !.kind = "return", !.pattern = pattern,
                                     !.correlate = correlate]

OneRule == [threads |-> FALSE, redis |-> FALSE, failures |-> FALSE,
            route |-> <<Usage(1, 1)>>, global |-> <<>>, clients |-> {"b1"},
            endpoints |-> {"e1"}, requests |-> 1..3]
ManyClients == [OneRule EXCEPT !.clients = {"b1", "b2"}]
ManyEndpoints == [OneRule EXCEPT !.endpoints = {"e1", "e2"}]
OverRedis == [OneRule EXCEPT !.redis = TRUE, !.failures = TRUE]
OnThreads == [OneRule EXCEPT !.threads = TRUE]
UsageAndReturn == [OneRule EXCEPT !.route = <<Usage(1, 2), Return(1, 1, "p", FALSE)>>,
                                  !.requests = 1..2]
GlobalRules ==
    [OneRule EXCEPT !.route = <<>>, !.requests = 1..2,
         !.global = <<Usage(1, 1), Return(3, 1, "q", TRUE), Return(1, 1, "p", FALSE)>>]
Trackers == {OneRule, ManyClients, ManyEndpoints, OverRedis, OnThreads, UsageAndReturn,
             GlobalRules}

-----------------------------------------------------------------------------
(* DetectionScan: documents three deep, with keys and leaves of every      *)
(* kind, as a body, in a query parameter and in a form field.              *)

PlainKey == Key("no", FALSE, FALSE)
Keys == {PlainKey, Key("no", TRUE, FALSE), Key("no", FALSE, TRUE), Key("pattern", FALSE, FALSE)}
Part(key, node) == [key |-> key, node |-> node, skipped |-> FALSE]
Leaves == {Leaf("no", 1), Leaf("no", 2), Leaf("meaning", 1), Leaf("pattern", 2)}

\* Lists and dicts of one of the nodes and a leaf before or after it.
Around(nodes) ==
    LET leaf == Part(PlainKey, Leaf("no", 2))
    IN  {Container("list", <<>>)}
        \cup {Container(kind, <<Part(k, n), leaf>>) :
                 kind \in {"list", "dict"}, k \in Keys, n \in nodes}
        \cup {Container(kind, <<leaf, Part(k, n)>>) :
                 kind \in {"list", "dict"}, k \in Keys, n \in nodes}

Flat == Around(Leaves)
Nested == Around({Container("dict", <<Part(k, Leaf("no", 1)), Part(PlainKey, l)>>) :
                     k \in Keys, l \in {Leaf("no", 2), Leaf("meaning", 1)}})
Deep == Around(Around({Container("dict", <<Part(PlainKey, Leaf("meaning", 1))>>)}))

NoBody == [scanned |-> FALSE, declared |-> "none", bounded |-> FALSE, type |-> "other",
           parts |-> <<>>, whole |-> Leaf("no", 1)]
Bare == [query |-> <<>>, path |-> Leaf("no", 1), headers |-> <<>>, body |-> NoBody]
JsonBody(doc) ==
    [NoBody EXCEPT !.scanned = TRUE, !.declared = "small", !.type = "json", !.whole = Text(doc)]

InBody == {[Bare EXCEPT !.body = JsonBody(doc)] : doc \in Flat \cup Nested \cup Deep}
InQuery == {[Bare EXCEPT !.query = <<Part(PlainKey, Text(doc))>>,
                         !.headers = <<Part(PlainKey, Leaf("no", 1))>>] : doc \in Flat \cup Nested}
InForm == {[Bare EXCEPT !.body = [NoBody EXCEPT
               !.scanned = TRUE, !.declared = "large", !.bounded = b, !.type = "form",
               !.parts = <<Part(k, Text(doc)), Part(PlainKey, Leaf("no", 1))>>]] :
               doc \in Flat, k \in Keys, b \in BOOLEAN}
InHeader == {[Bare EXCEPT
                !.headers = <<[Part(k, l) EXCEPT !.skipped = s], Part(PlainKey, Leaf("no", 1))>>,
                !.body = [NoBody EXCEPT !.scanned = TRUE, !.declared = d, !.bounded = b,
                                        !.type = "json", !.whole = w]] :
                k \in Keys, l \in Leaves, s \in BOOLEAN, d \in {"none", "small"},
                b \in BOOLEAN, w \in Leaves}

Limits(values, chars, depth, semantic) ==
    [values |-> values, chars |-> chars, depth |-> depth, semantic |-> semantic]
Ample == Limits(99, 99, 2, TRUE)

One(req, conf, faulty) ==
    [faulty |-> faulty, request |-> [s \in {"s1"} |-> req], setting |-> [s \in DsScans |-> conf]]

\* Budgets that pay for all, for three or four values, for six characters; an
\* engine that fails; two scans with different configurations.
NotScanned == One(Bare, Ample, FALSE)
Scanned ==
    {NotScanned}
    \cup {One(r, c, FALSE) : r \in InBody \cup InQuery,
             c \in {Ample, Limits(99, 99, 3, TRUE), Limits(3, 99, 2, TRUE), Limits(99, 6, 3, FALSE)}}
    \cup {One(r, c, FALSE) : r \in InForm \cup InHeader, c \in {Ample, Limits(4, 99, 3, TRUE)}}
    \cup {One(r, Ample, TRUE) : r \in InHeader}
    \cup {[faulty |-> FALSE, request |-> [s \in DsScans |-> [Bare EXCEPT !.body = JsonBody(doc)]],
           setting |-> [s \in DsScans |-> IF s = "s1" THEN Ample ELSE Limits(4, 99, 2, FALSE)]] :
           doc \in Flat}

-----------------------------------------------------------------------------
(* VerdictCache: one or two processes of one or two engine versions.       *)

Engines == [procs : {{"v1"}, {"v1", "v2"}}, versions : {{"e1"}, {"e1", "e2"}}, faults : BOOLEAN]
OneEngine == [procs |-> {"v1"}, versions |-> {"e1"}, faults |-> FALSE]

-----------------------------------------------------------------------------
(* PatternRegistry: one caller; two tasks with failures and calls before   *)
(* the restore; two workers that restart; a pattern with a comma.          *)

Pieces == [x \in {"a", "b", "l,r"} |-> IF x = "l,r" THEN {"l", "r"} ELSE {x}]
Builtin == <<"x">>
RegistryCallers == {<<"w1", 1>>, <<"w1", 2>>, <<"w2", 1>>}
OneCaller == [callers |-> {<<"w1", 1>>}, patterns |-> {"a", "b"}, failures |-> FALSE,
              crashes |-> FALSE, early |-> FALSE]
Registries ==
    {OneCaller,
     [OneCaller EXCEPT !.callers = {<<"w1", 1>>, <<"w1", 2>>}, !.failures = TRUE, !.early = TRUE],
     [OneCaller EXCEPT !.callers = {<<"w1", 1>>, <<"w2", 1>>}, !.crashes = TRUE],
     [OneCaller EXCEPT !.patterns = {"a", "l,r"}, !.crashes = TRUE]}

-----------------------------------------------------------------------------
HandlersInit ==
    /\ part \in {"client", "tracking", "scan", "compiled", "verdicts", "registry", "monitor"}
    /\ DsInit /\ (part # "scan" => request = NotScanned.request)
    /\ CaInit /\ (part # "client" => caDeployed = NoProxy /\ sender = "c")
    /\ BvInit /\ (part # "tracking" => bvDeployed = OneRule)
    /\ CcInit
    /\ VcInit /\ (part # "verdicts" => vcDeployed = OneEngine)
    /\ RgInit /\ (part # "registry" => rgDeployed = OneCaller)
    /\ PmInit /\ (part # "monitor" => ~threads)

HandlersVars == <<caVars, bvVars, dsVars, ccVars, vcVars, rgVars, pmVars, part>>

HandlersNext ==
    /\ part' = part
    /\ IF part = "client" THEN CaNext ELSE UNCHANGED caVars
    /\ IF part = "tracking" THEN BvNext ELSE UNCHANGED bvVars
    /\ IF part = "scan" THEN DsNext ELSE UNCHANGED dsVars
    /\ IF part = "compiled" THEN CcNext ELSE UNCHANGED ccVars
    /\ IF part = "verdicts" THEN VcNext ELSE UNCHANGED vcVars
    /\ IF part = "registry" THEN RgNext ELSE UNCHANGED rgVars
    /\ IF part = "monitor" THEN PmNext ELSE UNCHANGED pmVars

HandlersSpec == HandlersInit /\ [][HandlersNext]_HandlersVars
=============================================================================
