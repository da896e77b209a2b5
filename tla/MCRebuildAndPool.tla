--------------------------- MODULE MCRebuildAndPool ---------------------------
(* What the threads of the synchronous tree replace while others use it, for    *)
(* TLC: the list of checks and the regex pool.  They share no state: a          *)
(* behaviour is one of the module that part names.                              *)
EXTENDS PipelineRebuild, RegexPool

VARIABLE part

ThreadsInit ==
    /\ part \in {"rebuild", "regex"}
    /\ Init /\ (part # "rebuild" => ~field /\ ~route)
    /\ RxInit

ThreadsVars == <<vars, rxVars, part>>

ThreadsNext ==
    /\ part' = part
    /\ IF part = "rebuild" THEN Next ELSE UNCHANGED vars
    /\ IF part = "regex" THEN RxNext ELSE UNCHANGED rxVars

\* Fairness and RxFairness, each asked of its own part only.
ThreadsFairness ==
    /\ \A t \in Requests : WF_vars(part = "rebuild" /\ RequestStep(t))
    /\ \A w \in Writers : WF_vars(part = "rebuild" /\ wpc[w] # "idle" /\ WriterStep(w))
    /\ \A s \in RxScans : /\ WF_rxVars(part = "regex" /\ RxStep(s))
                          /\ SF_rxVars(part = "regex" /\ RunJob(s))

ThreadsSpec == ThreadsInit /\ [][ThreadsNext]_ThreadsVars /\ ThreadsFairness
=============================================================================
