-------------------------- MODULE PipelineExecute --------------------------
(***************************************************************************)
(* SecurityCheckPipeline.execute: requests walk the check list while it is *)
(* rebuilt by other requests and edited through add_check, insert_check    *)
(* and remove_check.                                                       *)
(*                                                                         *)
(* A rebuild assigns a new list object, the three editing methods change   *)
(* the current object in place, and a request iterates over the object it  *)
(* found when its loop started.  So lists are objects here: lists[i] is    *)
(* the contents of the i-th one made, cur the one self.checks refers to.   *)
(* When the list has to be rebuilt is the subject of PipelineRebuild; here *)
(* it is stale or not, and wanted is what the next rebuild produces.       *)
(***************************************************************************)
EXTENDS Naturals, Sequences, Functions

CONSTANTS
    None,
    Requests,
    Builds,       \* check lists a rebuild may produce, depending on the config
    Customs,      \* names of checks an adapter adds
    Enforced,     \* checks with enforced_on_excluded_paths
    LiveEdits,    \* editing methods called while requests are in flight
    RebuildFails, \* rebuild_checks may raise
    Positions,    \* where insert_check inserts
    MaxLists      \* bound on list objects

VARIABLES
    lists, cur, stale, wanted,
    failSecure, redisFailOpen,
    req           \* per request: where it is in which list, and its history

pipeline == <<lists, cur, stale, wanted>>
config == <<failSecure, redisFailOpen>>
vars == <<pipeline, config, req>>

Checks == Customs \cup UNION {Range(b) : b \in Builds} \cup Enforced

\* No check occurs twice in what _build_checks makes of the configuration.
ASSUME BuildsAssumption ==
    /\ None \notin Checks \cup {"allow"}
    /\ \A b \in Builds : b \in Seq(Checks) /\ IsInjective(b)

Waiting == [at |-> None, list |-> 0, next |-> 0, scoped |-> FALSE,
            must |-> {}, ran |-> <<>>, outcome |-> None]

InFlight(r) == req[r].at # None

Init ==
    /\ \E b \in Builds : lists = <<b>> /\ wanted = b
    /\ cur = 1 /\ stale = FALSE
    /\ failSecure \in BOOLEAN /\ redisFailOpen \in BOOLEAN
    /\ req = [r \in Requests |-> Waiting]

Applies(c, q) == q.scoped => c \in Enforced

(***************************************************************************)
(* The for loop: the iterator yields the element at its index, whatever    *)
(* the list holds there by now, and moves on.                              *)
(***************************************************************************)

\* Variant of Advanced: the index is not moved on past a skipped check.
AdvancedShort(q) ==
    LET rest == {i \in q.next..Len(lists'[q.list]) : Applies(lists'[q.list][i], q)}
    IN  IF rest = {}
        THEN [Waiting EXCEPT !.must = q.must, !.ran = q.ran, !.outcome = "allow"]
        ELSE LET i == CHOOSE i \in rest : \A j \in rest : i <= j
             IN  [q EXCEPT !.at = lists'[q.list][i], !.next = @ + 1]

Advanced(q) ==
    LET rest == {i \in q.next..Len(lists'[q.list]) : Applies(lists'[q.list][i], q)}
    IN  IF rest = {}
        THEN [Waiting EXCEPT !.must = q.must, !.ran = q.ran, !.outcome = "allow"]
        ELSE LET i == CHOOSE i \in rest : \A j \in rest : i <= j
             IN  [q EXCEPT !.at = lists'[q.list][i], !.next = i + 1]

Entered(scoped) ==
    LET q == [Waiting EXCEPT !.list = cur', !.next = 1, !.scoped = scoped]
    IN  Advanced([q EXCEPT !.must = {c \in Range(lists'[cur']) : Applies(c, q)}])

Ended(outcome) == [Waiting EXCEPT !.outcome = outcome]

(***************************************************************************)
(* The start of execute: rebuild if stale, then enter the loop.  A rebuild *)
(* that raises leaves everything as it was.                                *)
(***************************************************************************)
Execute(r) ==
    /\ req[r].at = None /\ req[r].outcome = None
    /\ IF stale
       THEN /\ Len(lists) < MaxLists
            /\ lists' = Append(lists, wanted)
            /\ cur' = Len(lists) + 1
            /\ stale' = FALSE
       ELSE UNCHANGED <<lists, cur, stale>>
    /\ \E scoped \in BOOLEAN : req' = [req EXCEPT ![r] = Entered(scoped)]
    /\ UNCHANGED <<wanted, config>>

ExecuteRebuildFails(r) ==
    /\ req[r].at = None /\ req[r].outcome = None
    /\ stale /\ RebuildFails
    /\ UNCHANGED <<pipeline, config>>
    /\ \E scoped \in BOOLEAN :
        req' = [req EXCEPT ![r] =
                  IF ~failSecure THEN Entered(scoped)
                  ELSE Ended(IF lists[cur] = <<>> THEN "raised" ELSE "error")]

(***************************************************************************)
(* One check: it passes, blocks (the block hook cannot raise) or raises.   *)
(***************************************************************************)
CheckPasses(r) ==
    /\ InFlight(r)
    /\ UNCHANGED <<pipeline, config>>
    /\ req' = [req EXCEPT ![r] = Advanced([req[r] EXCEPT !.ran = Append(@, req[r].at)])]

CheckBlocks(r) ==
    /\ InFlight(r)
    /\ req' = [req EXCEPT ![r] = Ended("block")]
    /\ UNCHANGED <<pipeline, config>>

\* Variant of Tolerated: redis_fail_open excuses every error.
ToleratedAny(isRedisError) == redisFailOpen \/ ~failSecure

Tolerated(isRedisError) == (isRedisError /\ redisFailOpen) \/ ~failSecure

CheckRaises(r) ==
    /\ InFlight(r)
    /\ UNCHANGED <<pipeline, config>>
    /\ \E isRedisError \in BOOLEAN :
        req' = [req EXCEPT ![r] =
                  IF Tolerated(isRedisError)
                  THEN Advanced(IF isRedisError
                                THEN [req[r] EXCEPT !.must = @ \ {req[r].at}] ELSE req[r])
                  ELSE Ended("error")]

(***************************************************************************)
(* The configuration changes, and the three editing methods.               *)
(***************************************************************************)
Reconfigure ==
    /\ \E b \in Builds \ {wanted} : wanted' = b
    /\ stale' = TRUE
    /\ UNCHANGED <<lists, cur, config, req>>

MayEdit(method) == method \in LiveEdits \/ \A r \in Requests : ~InFlight(r)

\* list.insert, and the list without what is at position i.
Inserted(s, i, c) == SubSeq(s, 1, i - 1) \o <<c>> \o SubSeq(s, i, Len(s))
Removed(s, i) == SubSeq(s, 1, i - 1) \o SubSeq(s, i + 1, Len(s))

AddCheck(c) ==
    /\ MayEdit("add") /\ c \notin Range(lists[cur])
    /\ lists' = [lists EXCEPT ![cur] = Append(@, c)]
    /\ UNCHANGED <<cur, stale, wanted, config, req>>

InsertCheck(i, c) ==
    /\ MayEdit("insert") /\ c \notin Range(lists[cur])
    /\ i \in 1..Len(lists[cur])
    /\ lists' = [lists EXCEPT ![cur] = Inserted(lists[cur], i, c)]
    /\ UNCHANGED <<cur, stale, wanted, config, req>>

RemoveCheck(c) ==
    /\ MayEdit("remove")
    /\ \E i \in 1..Len(lists[cur]) :
         /\ lists[cur][i] = c /\ \A j \in 1..(i - 1) : lists[cur][j] # c
         /\ lists' = [lists EXCEPT ![cur] = Removed(lists[cur], i)]
    /\ req' = [r \in Requests |-> IF req[r].list = cur
                                  THEN [req[r] EXCEPT !.must = @ \ {c}] ELSE req[r]]
    /\ UNCHANGED <<cur, stale, wanted, config>>

Step(r) == CheckPasses(r) \/ CheckBlocks(r) \/ CheckRaises(r)

Next ==
    \/ \E r \in Requests : Execute(r) \/ ExecuteRebuildFails(r) \/ Step(r)
    \/ Reconfigure
    \/ \E c \in Customs :
        \/ AddCheck(c) \/ RemoveCheck(c)
        \/ \E i \in Positions : InsertCheck(i, c)

Spec == Init /\ [][Next]_vars

(***************************************************************************)
(* Properties.                                                             *)
(***************************************************************************)

\* Fail-secure: a request that gets through has been passed by every check that
\* applied to it and was on the list from its start to its end, whatever was
\* rebuilt, added or raised meanwhile; only a Redis error under
\* redis_fail_open excuses a check.
AdmittedOnlyIfChecked ==
    \A r \in Requests :
        failSecure /\ req[r].outcome = "allow" => req[r].must \subseteq Range(req[r].ran)

\* No check sees a request twice (a second look would count it twice).
NoCheckRunsTwice ==
    \A r \in Requests : IsInjective(req[r].ran)
=============================================================================
