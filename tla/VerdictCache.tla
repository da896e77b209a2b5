---------------------------- MODULE VerdictCache ----------------------------
(***************************************************************************)
(* The file that keeps the verdicts of the pattern-safety probes           *)
(* (src/guard_core/detection_engine/_validation_cache.py) and its use by   *)
(* validate_pattern_safety (compiler.py).  Processes of one or of two      *)
(* engine versions share the file; each holds the entries it loaded when   *)
(* it started and those it added.  A verdict is represented by the version *)
(* that reached it.  A process may die between any two steps, and writing  *)
(* the file may fail.                                                      *)
(***************************************************************************)
EXTENDS Integers, FiniteSets

CONSTANTS VcProcs, VcPatterns,
          VcDeployments,   \* records [procs, versions, faults]
          VcMaxStarts      \* bound: the starts of all processes

VcNone == "none"

ASSUME VcAssumption ==
    \A d \in VcDeployments : /\ d.procs \subseteq VcProcs /\ IsFiniteSet(d.procs)
                             /\ IsFiniteSet(d.versions) /\ VcNone \notin d.versions
                             /\ d.faults \in BOOLEAN

VARIABLES vcDeployed,
          file,       \* pattern -> the version of its entry, or none
          entries,    \* of each process: _entries
          tmp,        \* of each process: the temporary file, a function or none
          version,    \* of each process, none when it is not running
          vcAt, probing,
          starts,     \* counts the starts (bound)
          certified,  \* history: <<version, pattern>> whose verdict was written
          probed      \* history: the pairs whose probes were run again afterwards

vcVars == <<vcDeployed, file, entries, tmp, version, vcAt, probing, starts,
            certified, probed>>

VcEmpty == [k \in VcPatterns |-> VcNone]

VcInit == /\ vcDeployed \in VcDeployments
          /\ file = VcEmpty
          /\ entries = [p \in VcProcs |-> VcEmpty]
          /\ tmp = [p \in VcProcs |-> VcEmpty]
          /\ version = [p \in VcProcs |-> VcNone]
          /\ vcAt = [p \in VcProcs |-> "down"]
          /\ probing = [p \in VcProcs |-> VcNone]
          /\ starts = 0
          /\ certified = {} /\ probed = {}

VcGoto(p, label) == vcAt' = [vcAt EXCEPT ![p] = label]

\* The entries of this version.
Load(v) == [k \in VcPatterns |-> IF file[k] = v THEN v ELSE VcNone]

\* The constructor; a file that cannot be read is ignored.
Open(p, v) ==
    /\ vcAt[p] = "down" /\ starts < VcMaxStarts
    /\ starts' = starts + 1
    /\ version' = [version EXCEPT ![p] = v]
    /\ \E e \in {Load(v)} \cup (IF vcDeployed.faults THEN {VcEmpty} ELSE {}) :
           entries' = [entries EXCEPT ![p] = e]
    /\ VcGoto(p, "idle")
    /\ UNCHANGED <<vcDeployed, file, tmp, probing, certified, probed>>

\* validate_pattern_safety for a pattern that passes the static checks: the
\* cached verdict, or the probes.
ValidatePatternSafety(p, k) ==
    /\ vcAt[p] = "idle" /\ entries[p][k] = VcNone
    /\ probing' = [probing EXCEPT ![p] = k]
    /\ probed' = IF <<version[p], k>> \in certified
                 THEN probed \cup {<<version[p], k>>} ELSE probed
    /\ VcGoto(p, "put")
    /\ UNCHANGED <<vcDeployed, file, entries, tmp, version, starts, certified>>

\* Variant: only the new verdict is written.
PutAlone(p) ==
    /\ vcAt[p] = "put"
    /\ entries' = [entries EXCEPT ![p][probing[p]] = version[p]]
    /\ tmp' = [tmp EXCEPT ![p] = [VcEmpty EXCEPT ![probing[p]] = version[p]]]
    /\ VcGoto(p, "replace")
    /\ UNCHANGED <<vcDeployed, file, version, probing, starts, certified, probed>>

\* put and _save up to the temporary file of its own that mkstemp makes.
Put(p) ==
    /\ vcAt[p] = "put"
    /\ entries' = [entries EXCEPT ![p][probing[p]] = version[p]]
    /\ tmp' = [tmp EXCEPT ![p] = entries'[p]]
    /\ VcGoto(p, "replace")
    /\ UNCHANGED <<vcDeployed, file, version, probing, starts, certified, probed>>

\* os.replace.
ReplaceFile(p) ==
    /\ vcAt[p] = "replace"
    /\ file' = tmp[p]
    /\ certified' = certified \cup {<<version[p], probing[p]>>}
    /\ VcGoto(p, "idle")
    /\ probing' = [probing EXCEPT ![p] = VcNone]
    /\ UNCHANGED <<vcDeployed, entries, tmp, version, starts, probed>>

\* An OSError on the way is logged; the verdict stays in memory.
SaveFailed(p) ==
    /\ vcDeployed.faults /\ vcAt[p] = "replace"
    /\ VcGoto(p, "idle")
    /\ probing' = [probing EXCEPT ![p] = VcNone]
    /\ UNCHANGED <<vcDeployed, file, entries, tmp, version, starts, certified,
                   probed>>

\* The process ends, at any point.
Stop(p) ==
    /\ vcAt[p] # "down"
    /\ VcGoto(p, "down")
    /\ version' = [version EXCEPT ![p] = VcNone]
    /\ probing' = [probing EXCEPT ![p] = VcNone]
    /\ entries' = [entries EXCEPT ![p] = VcEmpty]
    /\ tmp' = [tmp EXCEPT ![p] = VcEmpty]
    /\ UNCHANGED <<vcDeployed, file, starts, certified, probed>>

VcNext == \E p \in vcDeployed.procs :
              \/ \E v \in vcDeployed.versions : Open(p, v)
              \/ \E k \in VcPatterns : ValidatePatternSafety(p, k)
              \/ Put(p) \/ ReplaceFile(p) \/ SaveFailed(p) \/ Stop(p)

VcSpec == VcInit /\ [][VcNext]_vcVars

----------------------------------------------------------------------------

\* No process decides by a verdict that another engine version reached, though
\* all versions share and overwrite one file.
OwnVersionOnly ==
    \A p \in VcProcs, k \in VcPatterns : entries[p][k] \in {VcNone, version[p]}

\* With one process and one version and no failing file, a pattern whose
\* verdict reached the file is never probed again, over any number of restarts
\* and crashes.
NeverReprobed ==
    \/ vcDeployed.faults \/ Cardinality(vcDeployed.procs) > 1
    \/ Cardinality(vcDeployed.versions) > 1
    \/ probed = {}
============================================================================
