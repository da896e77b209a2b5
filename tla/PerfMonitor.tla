---------------------------- MODULE PerfMonitor ----------------------------
(***************************************************************************)
(* The performance monitor of the detection engine                         *)
(* (src/guard_core/detection_engine/monitor.py): statistics per pattern,   *)
(* bounded in number, and the anomaly events they give rise to, at most    *)
(* one reservation per pattern and cooldown.                               *)
(*                                                                         *)
(* Recorders share the monitor.  As tasks they change only while an event  *)
(* is being sent; as threads everywhere outside the lock.  Execution times *)
(* are abstracted to what they trip.                                       *)
(***************************************************************************)
EXTENDS Integers, FiniteSets, SequencesExt

CONSTANTS PmRecorders, PmPatterns,
          PmTracked,     \* max_tracked_patterns
          PmSamples,     \* min_samples_for_anomaly
          PmCooldown,    \* anomaly_emission_cooldown, in clock ticks
          PmMaxTime, PmMaxRecords,   \* bounds: the clock, the metrics recorded
          PmThreads      \* the kinds of recorders that are explored, BOOLEANs

ASSUME PmAssumption == PmTracked \in Nat \ {0} /\ PmThreads \subseteq BOOLEAN

PmNever == -1

VARIABLES threads, now,
          stats,      \* pattern_stats in insertion order: [name, samples, emitted]
          pmAt, name, anomalies, seen,   \* of each recorder; seen is its `now`
          records,    \* counts the metrics (bound)
          granted     \* history: per pattern, the time of the last reservation
                      \* made since its statistics exist

pmVars == <<threads, now, stats, pmAt, name, anomalies, seen, records, granted>>

PmInit == /\ threads \in PmThreads /\ now = 0
          /\ stats = <<>>
          /\ pmAt = [r \in PmRecorders |-> "idle"]
          /\ name = [r \in PmRecorders |-> CHOOSE p \in PmPatterns : TRUE]
          /\ anomalies = [r \in PmRecorders |-> 0]
          /\ seen = [r \in PmRecorders |-> 0]
          /\ records = 0
          /\ granted = [p \in PmPatterns |-> PmNever]

PmTracks(p) == \E i \in DOMAIN stats : stats[i].name = p
PmOf(p) == CHOOSE i \in DOMAIN stats : stats[i].name = p

\* A task runs on until it sends.
PmMay(r) == threads \/ \A q \in PmRecorders \ {r} : pmAt[q] \in {"idle", "send"}

PmGoto(r, label) == pmAt' = [pmAt EXCEPT ![r] = label]

PmForget(S) == granted' = [p \in PmPatterns |-> IF p \in S THEN PmNever ELSE granted[p]]

----------------------------------------------------------------------------
(* record_metric: the block under the lock, then _check_anomalies.  A      *)
(* metric trips timeout or slow_execution or neither, and the statistical  *)
(* test once there are samples enough; callbacks are left out.             *)

\* The statistics with an entry for p; the oldest entry makes room for it.
Tracked(p) ==
    IF PmTracks(p) THEN stats
    ELSE Append(IF Len(stats) >= PmTracked THEN Tail(stats) ELSE stats,
                [name |-> p, samples |-> 0, emitted |-> PmNever])

RecordMetric(r, p, timeout, slow, outlier) ==
    LET kept == Tracked(p)
        i == CHOOSE j \in DOMAIN kept : kept[j].name = p
        n == IF timeout \/ kept[i].samples = PmSamples
             THEN kept[i].samples ELSE kept[i].samples + 1
        trips == Cardinality({k \in {1} : timeout \/ slow})
                 + Cardinality({k \in {2} : outlier})
    IN
    /\ pmAt[r] = "idle" /\ PmMay(r) /\ records < PmMaxRecords
    /\ outlier => n >= PmSamples
    /\ timeout => ~slow
    /\ stats' = [kept EXCEPT ![i].samples = n]
    /\ PmForget({q \in PmPatterns : \A j \in DOMAIN kept : kept[j].name # q})
    /\ records' = records + 1
    /\ name' = [name EXCEPT ![r] = p]
    /\ anomalies' = [anomalies EXCEPT ![r] = trips]
    /\ PmGoto(r, IF trips > 0 THEN "clock" ELSE "idle")
    /\ UNCHANGED <<threads, now, seen>>

----------------------------------------------------------------------------
(* _reserve_anomaly_emission: the clock is read before the lock is taken.  *)

ReadClock(r) ==
    /\ pmAt[r] = "clock" /\ PmMay(r)
    /\ seen' = [seen EXCEPT ![r] = now]
    /\ PmGoto(r, "reserve")
    /\ UNCHANGED <<threads, now, stats, name, anomalies, records, granted>>

PmWaits(r) == LET last == stats[PmOf(name[r])].emitted
              IN  last # PmNever /\ seen[r] - last < PmCooldown

\* Variant: the time is kept when the first event has been sent.
ReserveUnstamped(r) ==
    /\ pmAt[r] = "reserve" /\ PmMay(r)
    /\ IF PmTracks(name[r]) /\ PmWaits(r)
       THEN PmGoto(r, "idle") /\ UNCHANGED granted
       ELSE PmGoto(r, "send") /\ granted' = [granted EXCEPT ![name[r]] =
                                                 IF PmTracks(name[r]) THEN now ELSE @]
    /\ UNCHANGED <<threads, now, stats, name, anomalies, seen, records>>

ReserveAnomalyEmission(r) ==
    LET p == name[r] IN
    /\ pmAt[r] = "reserve" /\ PmMay(r)
    /\ IF ~PmTracks(p)
       THEN PmGoto(r, "send") /\ UNCHANGED <<stats, granted>>
       ELSE IF PmWaits(r)
       THEN PmGoto(r, "idle") /\ UNCHANGED <<stats, granted>>
       ELSE /\ stats' = [stats EXCEPT ![PmOf(p)].emitted = seen[r]]
            /\ granted' = [granted EXCEPT ![p] = now]
            /\ PmGoto(r, "send")
    /\ UNCHANGED <<threads, now, name, anomalies, seen, records>>

\* One event for every anomaly of the metric.
SendAnomalyEvent(r) ==
    /\ pmAt[r] = "send" /\ PmMay(r)
    /\ anomalies' = [anomalies EXCEPT ![r] = @ - 1]
    /\ PmGoto(r, IF anomalies[r] = 1 THEN "idle" ELSE "send")
    /\ UNCHANGED <<threads, now, stats, name, seen, records, granted>>

----------------------------------------------------------------------------

RemovePatternStats(p) ==
    /\ PmTracks(p)
    /\ stats' = SelectSeq(stats, LAMBDA s : s.name # p)
    /\ PmForget({p})
    /\ UNCHANGED <<threads, now, pmAt, name, anomalies, seen, records>>

ClearStats == /\ stats # <<>>
              /\ stats' = <<>>
              /\ PmForget(PmPatterns)
              /\ UNCHANGED <<threads, now, pmAt, name, anomalies, seen, records>>

PmTick == /\ now < PmMaxTime /\ now' = now + 1
          /\ threads \/ \A r \in PmRecorders : pmAt[r] \in {"idle", "send"}
          /\ UNCHANGED <<threads, stats, pmAt, name, anomalies, seen, records, granted>>

PmNext ==
    \/ \E r \in PmRecorders :
           \/ \E p \in PmPatterns, timeout, slow, outlier \in BOOLEAN :
                  RecordMetric(r, p, timeout, slow, outlier)
           \/ ReadClock(r) \/ ReserveAnomalyEmission(r) \/ SendAnomalyEvent(r)
    \/ \E p \in PmPatterns : RemovePatternStats(p)
    \/ ClearStats \/ PmTick

PmSpec == PmInit /\ [][PmNext]_pmVars

----------------------------------------------------------------------------

\* Among tasks, two reservations for one pattern lie at least the cooldown
\* apart, however long the events of the first take to send, as long as the
\* statistics of the pattern are not dropped in between.
ReservationsSpaced ==
    [][\A p \in PmPatterns :
           ~threads /\ granted[p] # PmNever /\ granted'[p] # PmNever
               /\ (\E r \in PmRecorders : /\ pmAt[r] = "reserve" /\ pmAt'[r] = "send"
                                          /\ name[r] = p)
               => now - granted[p] >= PmCooldown]_pmVars
============================================================================
