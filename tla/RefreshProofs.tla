--------------------------- MODULE RefreshProofs ---------------------------
(***************************************************************************)
(* Cloud ranges, for any workers, providers, requests, interval and        *)
(* deployments: one background refresh at a time with a gate that is shut  *)
(* exactly while it runs, and ranges that a failed refresh leaves alone,   *)
(* in tasks and in threads; and, in tasks, refreshes that start an         *)
(* interval apart and a stamp that a failed schedule does not move.        *)
(*                                                                         *)
(* The country database, for any callers, calls, versions and retries: in  *)
(* one process with tasks, a whole file and a last good reader.            *)
(***************************************************************************)
EXTENDS CloudRanges, GeoIp, FiniteSetTheorems, TLAPS

ClLabels == {"begin", "idle", "get", "fetch", "set", "ranges", "regions"}
ClReqLabels == {"idle", "previous", "bump", "schedule", "restore"}

ClTypes ==
  /\ clDeployment \in ClDeployment
  /\ clNow \in Nat
  /\ clFlight \in [Workers -> BOOLEAN]
  /\ clLast \in [Workers -> Int]
  /\ clStarted \in [Workers -> Int]
  /\ clStamped \in [Workers -> Int]
  /\ clStarts \in [Workers -> Int]
  /\ clPc \in [Workers \X ClTasks -> ClLabels]
  /\ clReqPc \in [Workers \X clDeployment.requests -> ClReqLabels]
  /\ clPrevious \in [Workers \X clDeployment.requests -> Int]

\* The gate is shut exactly while one of the two background slots is in use.
Gated ==
  \A w \in Workers :
    /\ clFlight[w] <=> \E t \in ClBackground : clPc[<<w, t>>] # "idle"
    /\ \A t, u \in ClBackground :
         clPc[<<w, t>>] # "idle" /\ clPc[<<w, u>>] # "idle" => t = u

\* The stamp x is not before the last start, up to the truncation to seconds,
\* and not after the last start or adapter's stamp.
Sound(w, x) == clStarted[w] - 1 <= x /\ x <= clStamped[w]

\* In tasks: while a request is in the check, no other is, and what it holds,
\* or the stamp it has not yet moved, is sound.
StampsOf(w) ==
  /\ clStarted[w] <= clNow
  /\ (\A k \in ClHandlers(w) : clReqPc[k] = "idle") => Sound(w, clLast[w])
  /\ \A j, k \in ClHandlers(w) : clReqPc[j] # "idle" /\ clReqPc[k] # "idle" => j = k
  /\ \A k \in ClHandlers(w) :
       /\ clReqPc[k] \in {"previous", "bump"}
            => Sound(w, clLast[w]) /\ clNow - clLast[w] > ClInterval
       /\ clReqPc[k] = "bump" => clPrevious[k] = clLast[w]
       /\ clReqPc[k] \in {"schedule", "restore"} => Sound(w, clPrevious[k])
       /\ clReqPc[k] = "schedule"
            => /\ clNow - clPrevious[k] > ClInterval
               /\ clLast[w] = ClSeconds

Stamps == \A w \in Workers : StampsOf(w)

ClInv == ClTypes /\ Gated /\ (~clDeployment.threads => Stamps)

\* What a step of a refresh does to the gate.
TaskStep(k) ==
  /\ UNCHANGED <<clDeployment, clNow, clReq>>
  /\ clPc[k] # "idle"
  /\ ClMay(k[1], k)
  /\ \E l \in ClLabels : /\ ClGoto(k, l)
                         /\ \/ l = "idle" /\ End(k)
                            \/ UNCHANGED clGate /\ (l # "idle" \/ k[2] = "boot")

LEMMA RefreshIsTaskStep == ASSUME NEW k, ClRefresh(k) PROVE TaskStep(k)
<1> USE DEF TaskStep, ClAt, ClLabels
<1>0. ASSUME NEW p, NEW failed, NextProvider(k, p, failed)
      PROVE \E l \in ClLabels : /\ ClGoto(k, l)
                                /\ \/ l = "idle" /\ End(k)
                                   \/ UNCHANGED clGate /\ (l # "idle" \/ k[2] = "boot")
  BY Zenon, <1>0 DEF NextProvider
<1>1. CASE Begin(k)
  BY Zenon, <1>1 DEF Begin
<1>2. CASE Get(k)
  BY Zenon, <1>0, <1>2 DEF Get
<1>3. CASE Fetch(k)
  BY Zenon, <1>0, <1>3 DEF Fetch
<1>4. CASE Set(k)
  BY Zenon, <1>0, <1>4 DEF Set
<1>5. CASE AssignRanges(k)
  BY Zenon, <1>5 DEF AssignRanges
<1>6. CASE AssignRegions(k)
  BY Zenon, <1>0, <1>6 DEF AssignRegions
<1> QED BY Zenon, <1>1, <1>2, <1>3, <1>4, <1>5, <1>6 DEF ClRefresh

\* int(time.time()) is at most half a second behind.
LEMMA Truncated == ASSUME clNow \in Int PROVE ClSeconds \in {clNow - 1, clNow}
BY DEF ClSeconds

LEMMA ClInvInit == ClInit => ClInv
<1> SUFFICES ASSUME ClInit PROVE ClInv
  BY Zenon
<1>1. ClTypes
  BY ClAssumption, ClDeploymentsAssumption
  DEF ClInit, ClTypes, ClLabels, ClReqLabels, ClNever, Workers
<1>2. Gated
  BY Zenon DEF ClInit, Gated, Workers, ClTasks, ClBackground
<1>3. Stamps
  BY <1>1, ClAssumption DEF ClInit, ClTypes, Stamps, StampsOf, Sound, ClHandlers, ClNever, Workers
<1> QED BY Zenon, <1>1, <1>2, <1>3 DEF ClInv

\* A step of the refresh k of the worker w.
LEMMA TaskKeepsTypes ==
  ASSUME ClInv, NEW w \in Workers, NEW k \in Runs(w), TaskStep(k)
  PROVE  ClTypes'
<1>1. k \in Workers \X ClTasks /\ k[1] = w
  BY Zenon DEF Runs
<1>2. ClSeconds \in Int
  BY DEF ClInv, ClTypes, ClSeconds
<1>3. UNCHANGED <<clDeployment, clNow, clReqPc, clPrevious>> /\ Workers' = Workers
  BY Zenon DEF TaskStep, clReq, Workers
<1>4. clPc' \in [Workers \X ClTasks -> ClLabels]
  BY Zenon DEF TaskStep, ClGoto, ClInv, ClTypes
<1>5. CASE UNCHANGED clGate
  BY Zenon, <1>3, <1>4, <1>5 DEF ClInv, ClTypes, clGate
<1>6. CASE End(k)
  <2>1. CASE UNCHANGED clGate
    BY Zenon, <1>3, <1>4, <2>1 DEF ClInv, ClTypes, clGate
  <2>2. CASE ~UNCHANGED clGate
    BY ZenonT(30), <1>1, <1>2, <1>3, <1>4, <1>6, <2>2 DEF ClInv, ClTypes, End
  <2> QED BY Zenon, <2>1, <2>2
<1> QED BY Zenon, <1>5, <1>6 DEF TaskStep

LEMMA TaskKeepsGate ==
  ASSUME ClInv, NEW w \in Workers, NEW k \in Runs(w), TaskStep(k)
  PROVE  Gated'
<1>1. k \in Workers \X ClTasks /\ k[1] = w /\ k = <<w, k[2]>> /\ k[2] \in ClTasks
  BY DEF Runs
<1>2. Workers' = Workers
  BY Zenon DEF TaskStep, Workers
<1>3. PICK l \in ClLabels : /\ ClGoto(k, l)
                            /\ \/ l = "idle" /\ End(k)
                               \/ UNCHANGED clGate /\ (l # "idle" \/ k[2] = "boot")
  BY Zenon DEF TaskStep
<1>4. /\ clPc'[<<w, k[2]>>] = l
      /\ \A v \in Workers, t \in ClBackground :
           v # w \/ t # k[2] => clPc'[<<v, t>>] = clPc[<<v, t>>]
  BY <1>1, <1>3 DEF ClGoto, ClInv, ClTypes, ClTasks, ClBackground
<1>5. CASE k[2] = "boot"
  <2>1. UNCHANGED clFlight
    BY Zenon, <1>3, <1>5 DEF End, clGate
  <2>2. \A v \in Workers, t \in ClBackground : clPc'[<<v, t>>] = clPc[<<v, t>>]
    BY Zenon, <1>4, <1>5 DEF ClBackground
  <2>3. ASSUME NEW v \in Workers
        PROVE  /\ clFlight'[v] <=> \E t \in ClBackground : clPc'[<<v, t>>] # "idle"
               /\ \A t, u \in ClBackground :
                    clPc'[<<v, t>>] # "idle" /\ clPc'[<<v, u>>] # "idle" => t = u
    <3>1. /\ clFlight[v] <=> \E t \in ClBackground : clPc[<<v, t>>] # "idle"
          /\ \A t, u \in ClBackground :
               clPc[<<v, t>>] # "idle" /\ clPc[<<v, u>>] # "idle" => t = u
      BY Zenon DEF ClInv, Gated
    <3>2. clFlight'[v] = clFlight[v] /\ \A t \in ClBackground : clPc'[<<v, t>>] = clPc[<<v, t>>]
      BY Zenon, <2>1, <2>2
    <3>3. (\E t \in ClBackground : clPc'[<<v, t>>] # "idle")
            <=> \E t \in ClBackground : clPc[<<v, t>>] # "idle"
      BY Zenon, <3>2
    <3> QED BY Zenon, <3>1, <3>2, <3>3
  <2> QED BY Zenon, <1>2, <2>3 DEF Gated
<1>6. CASE k[2] # "boot" /\ l # "idle"
  <2>1. UNCHANGED clFlight
    BY Zenon, <1>3, <1>6 DEF clGate
  <2>2. \A v \in Workers, t \in ClBackground :
          clPc'[<<v, t>>] # "idle" <=> clPc[<<v, t>>] # "idle"
    BY Zenon, <1>1, <1>4, <1>6 DEF TaskStep
  <2> QED BY <1>2, <2>1, <2>2 DEF ClInv, Gated
<1>7. CASE k[2] # "boot" /\ l = "idle"
  <2>1. clFlight' = [clFlight EXCEPT ![w] = FALSE]
    BY Zenon, <1>1, <1>3, <1>7 DEF End
  <2>2. k[2] \in ClBackground /\ clPc[<<w, k[2]>>] # "idle"
    BY Zenon, <1>1, <1>7 DEF TaskStep, ClTasks, ClBackground
  <2>3. \A t \in ClBackground : clPc'[<<w, t>>] = "idle"
    BY <1>1, <1>4, <1>7, <2>2 DEF ClInv, Gated
  <2>4. \A v \in Workers \ {w}, t \in ClBackground : clPc'[<<v, t>>] = clPc[<<v, t>>]
    BY Zenon, <1>4
  <2>5. ~clFlight'[w] /\ \A v \in Workers \ {w} : clFlight'[v] = clFlight[v]
    BY Zenon, <2>1 DEF ClInv, ClTypes
  <2> SUFFICES ASSUME NEW v \in Workers
               PROVE /\ clFlight'[v] <=> \E t \in ClBackground : clPc'[<<v, t>>] # "idle"
                     /\ \A t, u \in ClBackground :
                          clPc'[<<v, t>>] # "idle" /\ clPc'[<<v, u>>] # "idle" => t = u
    BY Zenon, <1>2 DEF Gated
  <2>6. CASE v = w
    BY Zenon, <2>3, <2>5, <2>6
  <2>7. CASE v # w
    BY <2>4, <2>5, <2>7 DEF ClInv, Gated
  <2> QED BY Zenon, <2>6, <2>7
<1> QED BY Zenon, <1>5, <1>6, <1>7

LEMMA TaskKeepsStamps ==
  ASSUME ClInv, NEW w \in Workers, NEW k \in Runs(w), TaskStep(k), ~clDeployment.threads
  PROVE  Stamps'
<1>1. k[1] = w /\ k \notin ClHandlers(w)
  BY Zenon, ClNamesAssumption DEF Runs, ClHandlers, ClInv, ClTypes, ClDeployment
<1>2. /\ UNCHANGED <<clDeployment, clNow, clReqPc, clPrevious>>
      /\ Workers' = Workers /\ ClSeconds' = ClSeconds
      /\ \A v \in Workers : ClHandlers(v)' = ClHandlers(v)
  BY Zenon DEF TaskStep, clReq, Workers, ClSeconds, ClHandlers
<1>3. CASE UNCHANGED clGate
  BY <1>2, <1>3 DEF ClInv, Stamps, StampsOf, Sound, clGate
<1>4. CASE End(k) /\ k[2] # "boot" /\ clDeployment.stamps
  \* The adapter's stamp: no request is in the check.
  <2>1. \A r \in ClHandlers(w) : clReqPc[r] = "idle"
    BY Zenon, <1>1 DEF TaskStep, ClMay
  <2>2. /\ UNCHANGED clStarted
        /\ clLast'[w] = ClSeconds /\ clStamped'[w] = ClSeconds
        /\ \A v \in Workers \ {w} : clLast'[v] = clLast[v] /\ clStamped'[v] = clStamped[v]
    BY <1>1, <1>4 DEF End, ClInv, ClTypes
  <2>3. clNow \in Int /\ clStarted[w] \in Int /\ clStarted[w] <= clNow
    BY DEF ClInv, ClTypes, Stamps, StampsOf
  <2>4. Sound(w, clLast[w])'
    BY <2>2, <2>3, Truncated DEF Sound
  <2> QED BY <1>2, <2>1, <2>2, <2>3, <2>4 DEF ClInv, Stamps, StampsOf, Sound
<1>5. CASE End(k) /\ k[2] # "boot" /\ ~clDeployment.stamps
  <2>1. UNCHANGED <<clLast, clStarted, clStamped>>
    BY Zenon, <1>5 DEF End
  <2> QED BY <1>2, <2>1 DEF ClInv, Stamps, StampsOf, Sound
<1>6. CASE End(k) /\ k[2] = "boot"
  BY Zenon, <1>3, <1>6 DEF End
<1> QED BY Zenon, <1>3, <1>4, <1>5, <1>6 DEF TaskStep

\* A step of the request k of the worker w moves only k on.
RequestAlone(w, k) ==
  /\ UNCHANGED <<clDeployment, clNow>>
  /\ ClMay(w, k)
  /\ \A j \in (Workers \X clDeployment.requests) \ {k} :
       clReqPc'[j] = clReqPc[j] /\ clPrevious'[j] = clPrevious[j]
  /\ \A v \in Workers \ {w} :
       clLast'[v] = clLast[v] /\ clStarted'[v] = clStarted[v] /\ clStamped'[v] = clStamped[v]

\* So in tasks only what the check of k does is of interest.
LEMMA OthersKeepStamps ==
  ASSUME ClInv, ~clDeployment.threads, NEW w \in Workers, NEW k \in ClHandlers(w),
         RequestAlone(w, k),
         clStarted'[w] <= clNow,
         clReqPc'[k] = "idle" => Sound(w, clLast[w])',
         clReqPc'[k] \in {"previous", "bump"}
           => Sound(w, clLast[w])' /\ clNow - clLast'[w] > ClInterval,
         clReqPc'[k] = "bump" => clPrevious'[k] = clLast'[w],
         clReqPc'[k] \in {"schedule", "restore"} => Sound(w, clPrevious[k])',
         clReqPc'[k] = "schedule" => /\ clNow - clPrevious'[k] > ClInterval
                                     /\ clLast'[w] = ClSeconds
  PROVE  Stamps'
<1>1. /\ UNCHANGED clNow /\ Workers' = Workers /\ ClSeconds' = ClSeconds
      /\ \A v \in Workers : ClHandlers(v)' = ClHandlers(v)
      /\ \A v \in Workers : ClHandlers(v) \subseteq Workers \X clDeployment.requests
  BY Zenon DEF RequestAlone, Workers, ClSeconds, ClHandlers
<1>2. \A j \in ClHandlers(w) \ {k} : clReqPc'[j] = "idle"
  BY Zenon, <1>1 DEF RequestAlone, ClMay
<1>3. StampsOf(w)'
  BY Zenon, <1>1, <1>2 DEF StampsOf
<1>4. ASSUME NEW v \in Workers, v # w PROVE StampsOf(v)'
  <2>1. \A j \in ClHandlers(v) : clReqPc'[j] = clReqPc[j] /\ clPrevious'[j] = clPrevious[j]
    BY Zenon, <1>1, <1>4 DEF RequestAlone, ClHandlers
  <2>2. clLast'[v] = clLast[v] /\ clStarted'[v] = clStarted[v] /\ clStamped'[v] = clStamped[v]
    BY Zenon, <1>4 DEF RequestAlone
  <2> QED BY <1>1, <2>1, <2>2 DEF ClInv, Stamps, StampsOf, Sound
<1> QED BY Zenon, <1>1, <1>3, <1>4 DEF Stamps

\* The steps of the check that leave the gate alone.
LEMMA CheckKeepsInv ==
  ASSUME ClInv, NEW w \in Workers, NEW k \in ClHandlers(w),
         Due(k) \/ Previous(k) \/ Bump(k) \/ Restore(k)
  PROVE  ClInv'
<1>1. k \in Workers \X clDeployment.requests /\ k[1] = w
  BY Zenon DEF ClHandlers
<1>2. ClSeconds \in Int /\ ClInterval \in Int
  BY ClAssumption DEF ClInv, ClTypes, ClSeconds
<1>3. /\ UNCHANGED <<clDeployment, clNow, clPc, clFlight, clStarted, clStamped, clStarts>>
      /\ Workers' = Workers
      /\ ClMay(w, k)
      /\ \E l \in ClReqLabels : clReqPc' = [clReqPc EXCEPT ![k] = l]
      /\ clPrevious' = clPrevious \/ clPrevious' = [clPrevious EXCEPT ![k] = clLast[w]]
      /\ \/ clLast' = clLast
         \/ clLast' = [clLast EXCEPT ![w] = ClSeconds]
         \/ clLast' = [clLast EXCEPT ![w] = clPrevious[k]]
  BY Zenon, <1>1 DEF Due, Previous, Bump, Restore, ClReqAt, ClReqGoto, ClReqLabels, clGate, clTask,
              Workers
<1>4. ClTypes'
  BY SMTT(60), <1>1, <1>2, <1>3 DEF ClInv, ClTypes
<1>5. Gated'
  BY Zenon, <1>3 DEF ClInv, Gated
<1>6. ASSUME ~clDeployment.threads PROVE Stamps'
  <2>1. RequestAlone(w, k)
    BY Zenon, <1>1, <1>3 DEF RequestAlone, ClInv, ClTypes
  <2>2. StampsOf(w) /\ clStarted'[w] <= clNow
    BY Zenon, <1>3, <1>6 DEF ClInv, Stamps, StampsOf
  <2>3. clReqPc[k] = "idle" => \A j \in ClHandlers(w) : clReqPc[j] = "idle"
    BY Zenon, <1>3, <1>6 DEF ClMay
  <2>4. CASE Due(k)
    <3>1. /\ clReqPc'[k] = "previous" /\ clReqPc[k] = "idle" /\ UNCHANGED clLast
          /\ clNow - clLast[w] > ClInterval
      BY Zenon, <1>1, <2>4 DEF Due, ClReqAt, ClReqGoto, ClInv, ClTypes, clGate
    <3>2. Sound(w, clLast[w])'
      BY Zenon, <1>3, <2>2, <2>3, <3>1 DEF StampsOf, Sound
    <3> QED BY Zenon, <1>6, <2>1, <2>2, <3>1, <3>2, OthersKeepStamps
  <2>5. CASE Previous(k)
    <3>1. /\ clReqPc'[k] = "bump" /\ clReqPc[k] = "previous" /\ UNCHANGED clLast
          /\ clPrevious'[k] = clLast[w]
      BY Zenon, <1>1, <2>5 DEF Previous, ClReqAt, ClReqGoto, ClInv, ClTypes, clGate
    <3>2. Sound(w, clLast[w])' /\ clNow - clLast'[w] > ClInterval
      BY Zenon, <1>3, <2>2, <3>1 DEF StampsOf, Sound
    <3> QED BY Zenon, <1>6, <2>1, <2>2, <3>1, <3>2, OthersKeepStamps
  <2>6. CASE Bump(k)
    <3>1. /\ clReqPc'[k] = "schedule" /\ clReqPc[k] = "bump" /\ UNCHANGED clPrevious
          /\ clLast'[w] = ClSeconds
      BY Zenon, <1>1, <2>6 DEF Bump, ClReqAt, ClReqGoto, ClInv, ClTypes
    <3>2. Sound(w, clPrevious[k])' /\ clNow - clPrevious'[k] > ClInterval
      BY Zenon, <1>3, <2>2, <3>1 DEF StampsOf, Sound
    <3> QED BY Zenon, <1>6, <2>1, <2>2, <3>1, <3>2, OthersKeepStamps
  <2>7. CASE Restore(k)
    <3>1. clReqPc'[k] = "idle" /\ clReqPc[k] = "restore" /\ clLast'[w] = clPrevious[k]
      BY Zenon, <1>1, <2>7 DEF Restore, ClReqAt, ClReqGoto, ClInv, ClTypes
    <3>2. Sound(w, clLast[w])'
      BY Zenon, <1>3, <2>2, <3>1 DEF StampsOf, Sound
    <3> QED BY Zenon, <1>6, <2>1, <2>2, <3>1, <3>2, OthersKeepStamps
  <2> QED BY Zenon, <2>4, <2>5, <2>6, <2>7
<1> QED BY Zenon, <1>3, <1>4, <1>5, <1>6 DEF ClInv

LEMMA ScheduleKeepsInv ==
  ASSUME ClInv, NEW w \in Workers, NEW k \in ClHandlers(w), Schedule(k)
  PROVE  ClInv'
<1>1. k \in Workers \X clDeployment.requests /\ k[1] = w
  BY Zenon DEF ClHandlers
<1>2. /\ UNCHANGED <<clDeployment, clNow, clLast, clPrevious>> /\ Workers' = Workers
      /\ ClMay(w, k) /\ clReqPc[k] = "schedule"
  BY Zenon, <1>1 DEF Schedule, ClReqAt, Start, clGate, Workers
<1>3. CASE UNCHANGED <<clGate, clPc>> /\ ClReqGoto(k, "restore")
  <2>1. /\ UNCHANGED <<clFlight, clStarted, clStamped, clStarts, clPc>>
        /\ clReqPc' = [clReqPc EXCEPT ![k] = "restore"]
    BY Zenon, <1>3 DEF clGate, ClReqGoto
  <2>2. ClTypes' /\ Gated'
    <3>1. ClTypes'
      BY Zenon, <1>1, <1>2, <2>1 DEF ClInv, ClTypes, ClReqLabels
    <3>2. Gated'
      BY <1>2, <2>1 DEF ClInv, Gated
    <3> QED BY Zenon, <3>1, <3>2
  <2>3. ASSUME ~clDeployment.threads PROVE Stamps'
    <3>1. RequestAlone(w, k) /\ clReqPc'[k] = "restore"
      BY Zenon, <1>1, <1>2, <2>1 DEF RequestAlone, ClInv, ClTypes
    <3>2. Sound(w, clPrevious[k])' /\ clStarted'[w] <= clNow
      BY Zenon, <1>1, <1>2, <2>1, <2>3 DEF ClInv, Stamps, StampsOf, Sound
    <3> QED BY Zenon, <2>3, <3>1, <3>2, OthersKeepStamps
  <2> QED BY Zenon, <1>2, <2>2, <2>3 DEF ClInv
<1>4. CASE ~clFlight[w] /\ Start(k, NextSlot(w))
  <2> DEFINE slot == NextSlot(w)
  <2>1. slot \in ClBackground /\ \A t \in ClBackground : clPc[<<w, t>>] = "idle"
    BY Zenon, <1>4 DEF ClInv, Gated, ClBackground, NextSlot
  <2> HIDE DEF slot
  <2>2. /\ clPc' = [clPc EXCEPT ![<<w, slot>>] = "begin"]
        /\ clFlight' = [clFlight EXCEPT ![w] = TRUE]
        /\ clStarted' = [clStarted EXCEPT ![w] = clNow]
        /\ clStamped' = [clStamped EXCEPT ![w] = clNow]
        /\ clStarts' = [clStarts EXCEPT ![w] = @ + 1]
        /\ clReqPc' = [clReqPc EXCEPT ![k] = "idle"]
    BY Zenon, <1>1, <1>4 DEF slot, Start, ClGoto, ClReqGoto
  <2>3. ClTypes'
    BY <1>1, <1>2, <2>1, <2>2 DEF ClInv, ClTypes, ClLabels, ClReqLabels, ClTasks, ClBackground
  <2>4. Gated'
    <3>1. /\ clFlight'[w] /\ \A v \in Workers \ {w} : clFlight'[v] = clFlight[v]
          /\ clPc'[<<w, slot>>] = "begin"
          /\ \A v \in Workers, t \in ClBackground :
               v # w \/ t # slot => clPc'[<<v, t>>] = clPc[<<v, t>>]
      BY Zenon, <2>1, <2>2 DEF ClInv, ClTypes, ClTasks, ClBackground
    <3> SUFFICES ASSUME NEW v \in Workers
                 PROVE /\ clFlight'[v] <=> \E t \in ClBackground : clPc'[<<v, t>>] # "idle"
                       /\ \A t, u \in ClBackground :
                            clPc'[<<v, t>>] # "idle" /\ clPc'[<<v, u>>] # "idle" => t = u
      BY Zenon, <1>2 DEF Gated
    <3>2. CASE v = w
      BY <2>1, <3>1, <3>2
    <3>3. CASE v # w
      <4>1. /\ clFlight'[v] = clFlight[v]
            /\ \A t \in ClBackground : clPc'[<<v, t>>] = clPc[<<v, t>>]
        BY Zenon, <3>1, <3>3
      <4> QED BY <4>1 DEF ClInv, Gated
    <3> QED BY Zenon, <3>2, <3>3
  <2>5. ASSUME ~clDeployment.threads PROVE Stamps'
    <3>1. RequestAlone(w, k) /\ clReqPc'[k] = "idle"
      BY Zenon, <1>1, <1>2, <2>2 DEF RequestAlone, ClInv, ClTypes
    <3>2. clLast'[w] = ClSeconds /\ clStarted'[w] = clNow /\ clStamped'[w] = clNow
      BY Zenon, <1>1, <1>2, <2>2, <2>5 DEF ClInv, ClTypes, Stamps, StampsOf
    <3>3. Sound(w, clLast[w])' /\ clStarted'[w] <= clNow
      BY <3>2, Truncated DEF Sound, ClInv, ClTypes
    <3> QED BY Zenon, <2>5, <3>1, <3>3, OthersKeepStamps
  <2> QED BY Zenon, <1>2, <2>3, <2>4, <2>5 DEF ClInv
<1> QED BY Zenon, <1>1, <1>3, <1>4 DEF Schedule

LEMMA TickKeepsInv == ASSUME ClInv, ClTick PROVE ClInv'
<1>1. /\ UNCHANGED <<clDeployment, clFlight, clLast, clStarted, clStamped, clStarts, clPc,
                     clReqPc, clPrevious>>
      /\ Workers' = Workers /\ clNow' = clNow + 1
      /\ \A w \in Workers : ClHandlers(w)' = ClHandlers(w)
  BY Zenon DEF ClTick, clGate, clTask, clReq, Workers, ClHandlers
<1>2. ClTypes' /\ Gated'
  <2>1. ClTypes'
    BY <1>1 DEF ClInv, ClTypes
  <2>2. Gated'
    BY Zenon, <1>1 DEF ClInv, Gated
  <2> QED BY Zenon, <2>1, <2>2
<1>3. ASSUME ~clDeployment.threads, NEW w \in Workers PROVE StampsOf(w)'
  <2>1. \A k \in ClHandlers(w) : clReqPc[k] = "idle"
    BY Zenon, <1>3 DEF ClTick, ClInv, ClTypes, ClHandlers
  <2>2. clStarted'[w] <= clNow'
    BY <1>1, <1>3 DEF ClInv, ClTypes, Stamps, StampsOf
  <2> QED BY Zenon, <1>1, <1>3, <2>1, <2>2 DEF ClInv, Stamps, StampsOf, Sound
<1> QED BY Zenon, <1>1, <1>2, <1>3 DEF ClInv, Stamps

LEMMA RestartKeepsInv ==
  ASSUME ClInv, NEW w \in Workers, ClRestart(w)
  PROVE  ClInv'
<1>1. /\ UNCHANGED <<clDeployment, clNow, clStarts>>
      /\ Workers' = Workers /\ ClSeconds' = ClSeconds
      /\ \A v \in Workers : ClHandlers(v)' = ClHandlers(v)
  BY Zenon DEF ClRestart, Workers, ClSeconds, ClHandlers
<1>2. ClNever \in Int /\ ClNever <= clNow
  BY ClAssumption DEF ClNever, ClInv, ClTypes
<1>3. ClTypes'
  BY Zenon, <1>1, <1>2 DEF ClRestart, ClInv, ClTypes, ClLabels, ClReqLabels
<1>4. Gated'
  BY ZenonT(30), <1>1 DEF ClRestart, ClInv, ClTypes, Gated, Runs, ClTasks, ClBackground
<1>5. ASSUME ~clDeployment.threads, NEW v \in Workers PROVE StampsOf(v)'
  <2>1. CASE v = w
    <3>1. /\ clLast'[w] = ClNever /\ clStarted'[w] = ClNever /\ clStamped'[w] = ClNever
          /\ \A k \in ClHandlers(w) : clReqPc'[k] = "idle"
      BY Zenon DEF ClRestart, ClInv, ClTypes, ClHandlers
    <3> QED BY SMTT(60), <1>1, <1>2, <2>1, <3>1 DEF StampsOf, Sound
  <2>2. CASE v # w
    <3>1. /\ clLast'[v] = clLast[v] /\ clStarted'[v] = clStarted[v]
          /\ clStamped'[v] = clStamped[v]
          /\ \A k \in ClHandlers(v) :
               clReqPc'[k] = clReqPc[k] /\ clPrevious'[k] = clPrevious[k]
      BY Zenon, <2>2 DEF ClRestart, ClInv, ClTypes, ClHandlers
    <3> QED BY SMTT(60), <1>1, <1>5, <3>1 DEF ClInv, Stamps, StampsOf, Sound
  <2> QED BY Zenon, <2>1, <2>2
<1> QED BY Zenon, <1>1, <1>3, <1>4, <1>5 DEF ClInv, Stamps

LEMMA ClInvStep == ClInv /\ [ClNext]_clVars => ClInv'
<1> SUFFICES ASSUME ClInv, [ClNext]_clVars PROVE ClInv'
  BY Zenon
<1>1. ASSUME NEW w \in Workers, NEW k \in Runs(w), ClRefresh(k) PROVE ClInv'
  <2>1. TaskStep(k)
    BY Zenon, <1>1, RefreshIsTaskStep
  <2>2. UNCHANGED clDeployment
    BY Zenon, <2>1 DEF TaskStep
  <2> QED BY Zenon, <2>1, <2>2, TaskKeepsTypes, TaskKeepsGate, TaskKeepsStamps DEF ClInv
<1>2. ASSUME NEW w \in Workers, NEW k \in ClHandlers(w), Due(k) \/ ClRequest(k) PROVE ClInv'
  BY Zenon, <1>2, CheckKeepsInv, ScheduleKeepsInv DEF ClRequest
<1>3. CASE UNCHANGED clVars
  <2>1. /\ UNCHANGED <<clDeployment, clNow, clFlight, clLast, clStarted, clStamped, clStarts,
                       clPc, clReqPc, clPrevious>>
        /\ Workers' = Workers /\ ClSeconds' = ClSeconds
        /\ \A w \in Workers : ClHandlers(w)' = ClHandlers(w)
    BY Zenon, <1>3 DEF clVars, clGate, clTask, clReq, Workers, ClSeconds, ClHandlers
  <2>2. ClTypes'
    BY Zenon, <2>1 DEF ClInv, ClTypes
  <2>3. Gated'
    BY Zenon, <2>1 DEF ClInv, Gated
  <2>4. ~clDeployment.threads => Stamps'
    BY <2>1 DEF ClInv, Stamps, StampsOf, Sound
  <2> QED BY Zenon, <2>1, <2>2, <2>3, <2>4 DEF ClInv
<1> QED BY Zenon, <1>1, <1>2, <1>3, TickKeepsInv, RestartKeepsInv DEF ClNext

LEMMA ClInvAlways == ClSpec => []ClInv
BY ClInvInit, ClInvStep, PTL DEF ClSpec

\* schedule_refresh is single-flight, for any number of workers and requests, in
\* tasks and in threads.
THEOREM OneRefreshAtATime == ClSpec => []SingleFlight
<1>1. ASSUME ClInv, NEW w \in Workers PROVE Cardinality(Refreshing(w)) <= 1
  <2>1. CASE Refreshing(w) = {}
    BY <2>1, FS_EmptySet
  <2>2. CASE Refreshing(w) # {}
    <3>1. PICK t \in Refreshing(w) : TRUE
      BY Zenon, <2>2
    <3>2. Refreshing(w) = {t}
      BY Zenon, <1>1, <3>1 DEF ClInv, Gated, Refreshing
    <3> QED BY <3>2, FS_Singleton
  <2> QED BY Zenon, <2>1, <2>2
<1>2. ClInv => SingleFlight
  BY Zenon, <1>1 DEF SingleFlight
<1> QED BY <1>2, ClInvAlways, PTL

\* _run_refresh reopens the gate however it ends: it is never left shut.
THEOREM GateIsReopened == ClSpec => []GateReopened
<1>1. ClInv => GateReopened
  BY Zenon DEF ClInv, Gated, GateReopened, Refreshing
<1> QED BY <1>1, ClInvAlways, PTL

\* A request whose schedule_refresh fails gives back the stamp it moved, in tasks.
THEOREM StampGivenBack == ClSpec => []FailedScheduleCostsNothing
<1>1. ClInv => FailedScheduleCostsNothing
  BY Zenon DEF ClInv, Stamps, StampsOf, Sound, FailedScheduleCostsNothing
<1> QED BY <1>1, ClInvAlways, PTL

\* CloudIpRefreshCheck starts background refreshes an interval apart, in tasks.
THEOREM RefreshesAreSpaced == ClSpec => SpacedStarts
<1>1. ASSUME ClInv, [ClNext]_clVars, NEW w \in Workers, ~clDeployment.threads,
             clStarts'[w] > clStarts[w]
      PROVE  clNow - clStarted[w] > ClInterval - 1
  <2>1. clStarts[w] \in Int /\ clStarts' # clStarts
    BY <1>1 DEF ClInv, ClTypes
  <2>2. ASSUME NEW v \in Workers, NEW k \in Runs(v), ClRefresh(k) PROVE UNCHANGED clStarts
    BY Zenon, <2>2, RefreshIsTaskStep DEF TaskStep, End, clGate
  <2>3. PICK v \in Workers : \E r \in ClHandlers(v) : Schedule(r)
    BY Zenon, <1>1, <2>1, <2>2
    DEF ClNext, ClTick, ClRestart, Due, ClRequest, Previous, Bump, Restore, clVars, clGate
  <2>4. PICK k \in ClHandlers(v) : Schedule(k) /\ k[1] = v
    BY Zenon, <2>3 DEF ClHandlers
  <2>5. clStarts' = [clStarts EXCEPT ![v] = @ + 1] /\ clReqPc[k] = "schedule"
    BY Zenon, <2>1, <2>4 DEF Schedule, Start, ClReqAt, clGate
  <2>6. v = w
    BY <1>1, <2>1, <2>5 DEF ClInv, ClTypes
  <2>7. Sound(w, clPrevious[k]) /\ clNow - clPrevious[k] > ClInterval
    BY Zenon, <1>1, <2>5, <2>6 DEF ClInv, Stamps, StampsOf
  <2>8. clPrevious[k] \in Int /\ clStarted[w] \in Int /\ clNow \in Int /\ ClInterval \in Int
    BY <1>1, <2>6, ClAssumption DEF ClInv, ClTypes, ClHandlers
  <2> QED BY <2>7, <2>8 DEF Sound
<1>2. ClInv /\ [ClNext]_clVars
        => \A w \in Workers : ~clDeployment.threads /\ clStarts'[w] > clStarts[w]
                               => clNow - clStarted[w] > ClInterval - 1
  BY Zenon, <1>1
<1> QED BY <1>2, ClInvAlways, PTL DEF ClSpec, SpacedStarts

\* The gate of schedule_refresh admits one background refresh and is shut only
\* while that one runs, in tasks and in threads, for any number of requests.
THEOREM GateHolds == ClSpec => []GateFollowsRefresh
<1>1. SingleFlight /\ GateReopened => GateFollowsRefresh
  BY Zenon DEF GateFollowsRefresh
<1> QED BY <1>1, OneRefreshAtATime, GateIsReopened, PTL

\* In tasks the stamp of CloudIpRefreshCheck spaces the refreshes by the interval
\* and counts none that did not start.
THEOREM ScheduleIsKept == ClSpec => RefreshesOnSchedule
BY StampGivenBack, RefreshesAreSpaced, PTL DEF RefreshesOnSchedule

-----------------------------------------------------------------------------
\* A refresh that is about to store or assign ranges has some.
ClHolding ==
  /\ clGot = [k \in Workers \X ClTasks |-> clGot[k]]
  /\ \A k \in Workers \X ClTasks : clPc[k] \in {"set", "ranges"} => clGot[k] # 0

LEMMA ClHoldingInit == ClInit => ClHolding
<1> SUFFICES ASSUME ClInit PROVE ClHolding
  BY Zenon
<1>1. clGot = [k \in Workers \X ClTasks |-> 0]
      /\ clPc = [k \in Workers \X ClTasks |-> IF k[2] = "boot" THEN "begin" ELSE "idle"]
  BY Zenon DEF ClInit
<1> QED BY Zenon, <1>1 DEF ClHolding

\* How a refresh comes by what it holds.
LEMMA RefreshHolds ==
  ASSUME ClInv, ClHolding, NEW k \in Workers \X ClTasks, ClRefresh(k)
  PROVE  /\ Workers' = Workers
         /\ \A j \in Workers \X ClTasks : j # k => clGot'[j] = clGot[j] /\ clPc'[j] = clPc[j]
         /\ clGot' = [j \in Workers \X ClTasks |-> clGot'[j]]
         /\ clPc'[k] \in {"set", "ranges"} => clGot'[k] # 0
<1> USE DEF ClAt, ClGoto, ClHolding
<1>t. clPc \in [Workers \X ClTasks -> ClLabels]
  BY Zenon DEF ClInv, ClTypes
<1>n. clNow + 1 # 0
  BY DEF ClInv, ClTypes
<1>0. ASSUME NEW p, NEW failed, NextProvider(k, p, failed)
      PROVE  clGot' = [clGot EXCEPT ![k] = 0] /\ \E l \in {"idle", "fetch", "get"} : ClGoto(k, l)
  BY Zenon, <1>0 DEF NextProvider
<1>w. Workers' = Workers
  BY Zenon, RefreshIsTaskStep DEF TaskStep, Workers
<1>1. CASE Begin(k)
  <2>1. clGot' = clGot /\ \E l \in {"idle", "fetch", "get"} : ClGoto(k, l)
    BY Zenon, <1>1 DEF Begin
  <2> QED BY Zenon, <1>t, <1>w, <2>1
<1>2. CASE Get(k)
  <2>1. \/ clGot' = [clGot EXCEPT ![k] = 0] /\ \E l \in {"idle", "fetch", "get"} : ClGoto(k, l)
        \/ \E cached : /\ clGot' = [clGot EXCEPT ![k] = cached]
                       /\ ClGoto(k, IF cached = 0 THEN "fetch" ELSE "ranges")
    BY Zenon, <1>0, <1>2 DEF Get
  <2> QED BY Zenon, <1>t, <1>w, <2>1
<1>3. CASE Fetch(k)
  <2>1. \/ clGot' = [clGot EXCEPT ![k] = 0] /\ \E l \in {"idle", "fetch", "get"} : ClGoto(k, l)
        \/ clGot' = [clGot EXCEPT ![k] = clNow + 1] /\ \E l \in {"ranges", "set"} : ClGoto(k, l)
    BY Zenon, <1>0, <1>3 DEF Fetch
  <2> QED BY Zenon, <1>n, <1>t, <1>w, <2>1
<1>4. CASE Set(k)
  <2>1. \/ clGot' = [clGot EXCEPT ![k] = 0] /\ \E l \in {"idle", "fetch", "get"} : ClGoto(k, l)
        \/ clGot' = clGot /\ clPc[k] = "set" /\ ClGoto(k, "ranges")
    BY Zenon, <1>0, <1>4 DEF Set
  <2> QED BY Zenon, <1>t, <1>w, <2>1
<1>5. CASE AssignRanges(k)
  <2>1. clGot' = clGot /\ ClGoto(k, "regions")
    BY Zenon, <1>5 DEF AssignRanges
  <2> QED BY Zenon, <1>t, <1>w, <2>1
<1>6. CASE AssignRegions(k)
  <2>1. clGot' = [clGot EXCEPT ![k] = 0] /\ \E l \in {"idle", "fetch", "get"} : ClGoto(k, l)
    BY Zenon, <1>0, <1>6 DEF AssignRegions
  <2> QED BY Zenon, <1>t, <1>w, <2>1
<1> QED BY Zenon, <1>1, <1>2, <1>3, <1>4, <1>5, <1>6 DEF ClRefresh

LEMMA ClHoldingStep == ClInv /\ ClHolding /\ [ClNext]_clVars => ClHolding'
<1> SUFFICES ASSUME ClInv, ClHolding, [ClNext]_clVars PROVE ClHolding'
  BY Zenon
<1> USE DEF ClHolding
<1>t. clPc \in [Workers \X ClTasks -> ClLabels]
  BY Zenon DEF ClInv, ClTypes
<1>1. ASSUME NEW w \in Workers, NEW k \in Runs(w), ClRefresh(k) PROVE ClHolding'
  <2>1. k \in Workers \X ClTasks
    BY Zenon DEF Runs
  <2> QED BY Zenon, <1>1, <2>1, RefreshHolds
<1>2. ASSUME NEW w \in Workers, NEW k \in ClHandlers(w), Schedule(k) PROVE ClHolding'
  <2>1. /\ clGot' = clGot /\ Workers' = Workers
        /\ clPc' = clPc \/ \E j : clPc' = [clPc EXCEPT ![j] = "begin"]
    BY Zenon, <1>2 DEF Schedule, Start, ClGoto, Workers
  <2>2. ASSUME NEW j \in Workers \X ClTasks, clPc'[j] \in {"set", "ranges"} PROVE clPc'[j] = clPc[j]
    BY Zenon, <1>t, <2>1, <2>2
  <2> QED BY Zenon, <2>1, <2>2
<1>3. CASE UNCHANGED <<clDeployment, clPc, clGot>>
  BY Zenon, <1>3 DEF Workers
<1>4. ASSUME NEW w \in Workers, NEW k \in ClHandlers(w), Due(k) \/ Previous(k) \/ Bump(k) \/ Restore(k)
      PROVE  UNCHANGED <<clDeployment, clPc, clGot>>
  BY Zenon, <1>4 DEF Due, Previous, Bump, Restore, clTask
<1>5. ASSUME NEW w \in Workers, ClRestart(w) PROVE ClHolding'
  <2>1. /\ Workers' = Workers
        /\ DOMAIN clGot = Workers \X ClTasks /\ DOMAIN clPc = Workers \X ClTasks
        /\ clGot' = [k \in DOMAIN clGot |-> IF k \in Runs(w) THEN 0 ELSE clGot[k]]
        /\ clPc' = [k \in DOMAIN clPc |-> IF k \notin Runs(w) THEN clPc[k]
                                          ELSE IF k[2] = "boot" THEN "begin" ELSE "idle"]
    BY Zenon, <1>t, <1>5 DEF ClRestart, Workers
  <2> QED BY Zenon, <2>1
<1>6. CASE ClTick \/ UNCHANGED clVars
  BY Zenon, <1>3, <1>6 DEF ClTick, clVars, clTask
<1> QED BY Zenon, <1>1, <1>2, <1>3, <1>4, <1>5, <1>6 DEF ClNext, ClRequest

\* A worker that blocks by some ranges of a provider goes on to, until it dies:
\* a failed fetch, an expired store or a failing Redis never empties them.
THEOREM RangesAreKept == ClSpec => RangesKept
<1>1. ASSUME ClInv, ClHolding, [ClNext]_clVars, NEW k \in DOMAIN clRanges,
             clRanges[k] # 0, clRanges'[k] = 0
      PROVE  clPc'[<<k[1], "boot">>] = "begin"
  <2>1. ASSUME NEW w \in Workers, NEW j \in Runs(w), ClRefresh(j) PROVE FALSE
    <3>1. j \in Workers \X ClTasks
      BY Zenon DEF Runs
    <3>2. CASE AssignRanges(j)
      <4>1. clRanges' = [clRanges EXCEPT ![<<j[1], Current(j)>>] = clGot[j]] /\ clGot[j] # 0
        BY Zenon, <1>1, <3>1, <3>2 DEF AssignRanges, ClAt, ClHolding
      <4> QED BY Zenon, <1>1, <4>1
    <3>3. CASE UNCHANGED clRanges
      BY Zenon, <1>1, <3>3
    <3> QED BY Zenon, <2>1, <3>2, <3>3
            DEF ClRefresh, Begin, Get, Fetch, Set, AssignRegions, clView
  <2>2. ASSUME NEW w \in Workers, ClRestart(w) PROVE clPc'[<<k[1], "boot">>] = "begin"
    <3>1. k[1] = w
      BY Zenon, <1>1, <2>2 DEF ClRestart
    <3>2. /\ <<w, "boot">> \in DOMAIN clPc /\ <<w, "boot">> \in Runs(w)
          /\ <<w, "boot">>[2] = "boot"
      BY Zenon, <1>1 DEF ClInv, ClTypes, Runs, ClTasks
    <3> QED BY Zenon, <2>2, <3>1, <3>2 DEF ClRestart
  <2>3. ASSUME NEW w \in Workers, NEW j \in ClHandlers(w), Due(j) \/ ClRequest(j) PROVE FALSE
    BY Zenon, <1>1, <2>3 DEF Due, ClRequest, Previous, Bump, Schedule, Restore, clView
  <2> QED BY Zenon, <1>1, <2>1, <2>2, <2>3 DEF ClNext, ClTick, clVars, clView
<1>2. ClInv /\ ClHolding /\ [ClNext]_clVars =>
        [\A k \in DOMAIN clRanges :
           clRanges[k] # 0 /\ clRanges'[k] = 0 => clPc'[<<k[1], "boot">>] = "begin"]_clVars
  BY Zenon, <1>1
<1> QED BY <1>2, ClInvInit, ClInvStep, ClHoldingInit, ClHoldingStep, PTL DEF ClSpec, RangesKept
-----------------------------------------------------------------------------
(* GeoIp *)

GiLabels == GiAwaits \cup {"outdated?", "open tmp", "write", "writing", "replace", "read back",
                           "open", "swap"}

\* One process, whose calls change at awaits only.
GiOne == ~giDeployment.threads /\ Cardinality(GiWorkers) = 1

GiTypes ==
  /\ giPublished \in Nat \ {0}
  /\ giRedis \in Int
  /\ giData \in [GiInodes -> Int]
  /\ giFile \in GiInodes \cup {GiNone}
  /\ giTmp \in GiInodes \cup {GiNone}
  /\ giReader \in [GiWorkers -> GiInodes \cup {GiNone}]
  /\ giClosed \in [GiWorkers -> BOOLEAN]
  /\ giServed \in [GiWorkers -> BOOLEAN]
  /\ giPc \in [GiCallersIn -> GiLabels]
  /\ giGot \in [GiCallersIn -> Int]
  /\ giFd \in [GiCallersIn -> GiInodes \cup {GiNone}]

\* No two calls are between awaits.
GiExclusive == \A j, k \in GiCallersIn : j # k => giPc[j] \in GiAwaits \/ giPc[k] \in GiAwaits

\* The temporary file is neither the file nor what a reader maps; who writes has
\* it open, who is about to rename it has filled it, and what is swapped in is
\* the file.
GiApart ==
  /\ giTmp # GiNone => giTmp # giFile /\ \A w \in GiWorkers : giReader[w] # giTmp
  /\ \A k \in GiCallersIn :
       /\ giPc[k] \in {"write", "writing"} => giTmp # GiNone /\ giFd[k] = giTmp
       /\ giPc[k] = "replace" => giTmp # GiNone /\ giData[giTmp] = giGot[k]
       /\ giPc[k] = "swap" => giFile # GiNone /\ giFd[k] = giFile /\ giData[giFile] # GiBad

\* What a reader maps is a database, and it is closed only to be swapped.
GiReads ==
  \A w \in GiWorkers :
    /\ giReader[w] # GiNone => giData[giReader[w]] # GiBad
    /\ giServed[w] => giReader[w] # GiNone
    /\ giServed[w] /\ giClosed[w] => \E k \in GiCallersIn : giPc[k] = "swap"

\* Where downloads are databases, so is whatever is on its way into the file.
GiGood ==
  /\ giFile # GiNone => giData[giFile] # GiBad
  /\ giRedis # GiBad
  /\ \A k \in GiCallersIn :
       giPc[k] \in {"open tmp", "write", "writing", "replace", "store"} => giGot[k] # GiBad

GiSound == GiTypes /\ GiExclusive /\ GiApart /\ GiReads /\ (~giDeployment.badDownloads => GiGood)

GiInv == giDeployment \in GiDeployments /\ (GiOne => GiSound)

LEMMA GiInvInit == GiInit => GiInv
<1> SUFFICES ASSUME GiInit PROVE GiInv
  BY Zenon
<1>1. GiTypes
  BY DEF GiInit, GiTypes, GiLabels, GiAwaits, GiBad, GiNone
<1>2. \A k \in GiCallersIn : giPc[k] = "idle"
  BY Zenon DEF GiInit
<1>3. \A w \in GiWorkers : giReader[w] = GiNone /\ ~giServed[w]
  BY Zenon DEF GiInit
<1>4. giFile = GiNone /\ giTmp = GiNone /\ giRedis = GiNone /\ GiNone # GiBad
  BY DEF GiInit, GiNone, GiBad
<1> QED BY Zenon, <1>1, <1>2, <1>3, <1>4 DEF GiInv, GiSound, GiExclusive, GiApart, GiReads, GiGood, GiAwaits, GiInit

\* A function does not have more values than arguments.
LEMMA ValuesBound ==
  ASSUME NEW S, IsFiniteSet(S), NEW f, f = [x \in S |-> f[x]]
  PROVE  IsFiniteSet({f[x] : x \in S}) /\ Cardinality({f[x] : x \in S}) <= Cardinality(S)
<1>1. f \in Surjection(S, {f[x] : x \in S})
  BY Zenon DEF Surjection
<1> QED BY Zenon, <1>1, FS_Surjection

\* An inode nothing refers to exists.
LEMMA FreshExists ==
  ASSUME giDeployment \in GiDeployments, GiOne, GiTypes
  PROVE  /\ FreshInode \in GiInodes
         /\ FreshInode \notin {giFile, giTmp}
         /\ \A w \in GiWorkers : giReader[w] # FreshInode
<1> DEFINE Fds == {giFd[k] : k \in GiCallersIn}
           Maps == {giReader[w] : w \in GiWorkers}
           Ends == {giFile, giTmp}
           Used == (Ends \cup Fds) \cup Maps
<1>1. /\ IsFiniteSet(GiCallersIn) /\ IsFiniteSet(GiInodes)
      /\ Cardinality(GiCallersIn) + Cardinality(GiWorkers) + 2 < Cardinality(GiInodes)
  BY Zenon, GiInodesAssumption DEF GiCallersIn, GiWorkers
<1>2. IsFiniteSet(GiWorkers) /\ IsFiniteSet(Fds) /\ Cardinality(Fds) <= Cardinality(GiCallersIn)
  <2> DEFINE f == [k \in GiCallersIn |-> k[1]]
  <2>1. f = [k \in GiCallersIn |-> f[k]] /\ GiWorkers = {f[k] : k \in GiCallersIn}
    BY Zenon DEF GiWorkers
  <2>2. giFd = [k \in GiCallersIn |-> giFd[k]]
    BY Zenon DEF GiTypes
  <2> HIDE DEF f
  <2>3. IsFiniteSet({f[k] : k \in GiCallersIn})
    BY Zenon, <1>1, <2>1, ValuesBound
  <2>4. IsFiniteSet(Fds) /\ Cardinality(Fds) <= Cardinality(GiCallersIn)
    BY Zenon, <1>1, <2>2, ValuesBound
  <2> QED BY Zenon, <2>1, <2>3, <2>4
<1>3. IsFiniteSet(Maps) /\ Cardinality(Maps) <= Cardinality(GiWorkers)
  <2>1. giReader = [w \in GiWorkers |-> giReader[w]]
    BY Zenon DEF GiTypes
  <2> QED BY Zenon, <1>2, <2>1, ValuesBound
<1>4. IsFiniteSet(Ends) /\ Cardinality(Ends) <= 2
  <2>1. IsFiniteSet({giFile}) /\ Cardinality({giFile}) = 1
    BY Zenon, FS_Singleton
  <2>2. /\ Cardinality({giFile} \cup {giTmp})
             = IF giTmp \in {giFile} THEN Cardinality({giFile}) ELSE Cardinality({giFile}) + 1
        /\ IsFiniteSet({giFile} \cup {giTmp})
    BY Zenon, <2>1, FS_AddElement
  <2>3. Ends = {giFile} \cup {giTmp}
    BY Zenon
  <2> QED BY <2>1, <2>2, <2>3
<1> HIDE DEF Fds, Maps, Ends
<1>5. IsFiniteSet(Ends \cup Fds) /\ Cardinality(Ends \cup Fds) <= 2 + Cardinality(GiCallersIn)
  <2>1. /\ IsFiniteSet(Ends \cup Fds)
        /\ Cardinality(Ends \cup Fds) = Cardinality(Ends) + Cardinality(Fds) - Cardinality(Ends \cap Fds)
        /\ IsFiniteSet(Ends \cap Fds)
    BY Zenon, <1>2, <1>4, FS_Union, FS_Intersection
  <2>2. Cardinality(Ends) \in Nat /\ Cardinality(Fds) \in Nat /\ Cardinality(Ends \cap Fds) \in Nat
        /\ Cardinality(GiCallersIn) \in Nat
    BY Zenon, <1>1, <1>2, <1>4, <2>1, FS_CardinalityType
  <2> QED BY <1>2, <1>4, <2>1, <2>2
<1>6. IsFiniteSet(Used) /\ Cardinality(Used) < Cardinality(GiInodes)
  <2>1. /\ IsFiniteSet(Used)
        /\ Cardinality(Used) = Cardinality(Ends \cup Fds) + Cardinality(Maps)
                                 - Cardinality((Ends \cup Fds) \cap Maps)
        /\ IsFiniteSet((Ends \cup Fds) \cap Maps)
    BY Zenon, <1>3, <1>5, FS_Union, FS_Intersection
  <2>2. Cardinality(Ends \cup Fds) \in Nat /\ Cardinality(Maps) \in Nat
        /\ Cardinality((Ends \cup Fds) \cap Maps) \in Nat
        /\ Cardinality(GiCallersIn) \in Nat /\ Cardinality(GiWorkers) \in Nat
        /\ Cardinality(GiInodes) \in Nat
    BY Zenon, <1>1, <1>2, <1>3, <1>5, <2>1, FS_CardinalityType
  <2> HIDE DEF Used
  <2> QED BY <1>1, <1>3, <1>5, <2>1, <2>2
<1>7. ~(GiInodes \subseteq Used)
  <2> HIDE DEF Used
  <2>1. GiInodes \subseteq Used => Cardinality(GiInodes) <= Cardinality(Used)
    BY Zenon, <1>6, FS_Subset
  <2>2. Cardinality(Used) \in Nat /\ Cardinality(GiInodes) \in Nat
    BY Zenon, <1>1, <1>6, FS_CardinalityType
  <2> QED BY <1>6, <2>1, <2>2
<1>8. \E i \in GiInodes : /\ i \notin {giFile, giTmp}
                          /\ \A k \in GiCallersIn : giFd[k] # i
                          /\ \A w \in GiWorkers : giReader[w] # i
  BY Zenon, <1>7 DEF Fds, Maps, Ends
<1> QED BY Zenon, <1>8 DEF FreshInode

\* There is one worker, and every call is its.
LEMMA OneWorker ==
  ASSUME giDeployment \in GiDeployments, GiOne
  PROVE  /\ \A k \in GiCallersIn : k[1] \in GiWorkers
         /\ \A v, w \in GiWorkers : v = w
<1>1. IsFiniteSet(GiCallersIn)
  BY Zenon, GiInodesAssumption DEF GiCallersIn
<1> DEFINE f == [k \in GiCallersIn |-> k[1]]
<1>2. f = [k \in GiCallersIn |-> f[k]] /\ GiWorkers = {f[k] : k \in GiCallersIn}
  BY Zenon DEF GiWorkers
<1> HIDE DEF f
<1>3. IsFiniteSet({f[k] : k \in GiCallersIn})
  BY Zenon, <1>1, <1>2, ValuesBound
<1>4. \E w : GiWorkers = {w}
  BY Zenon, <1>2, <1>3, FS_Singleton DEF GiOne
<1> QED BY Zenon, <1>4 DEF GiWorkers

\* Between awaits a call runs alone.
LEMMA GiAlone ==
  ASSUME giDeployment \in GiDeployments, GiOne, GiTypes, NEW k \in GiCallersIn, GiMay(k),
         NEW a \in GiLabels, GiGoto(k, a), UNCHANGED giDeployment
  PROVE  /\ giPc' \in [GiCallersIn -> GiLabels] /\ giPc'[k] = a
         /\ \A j \in GiCallersIn : j # k => giPc[j] \in GiAwaits /\ giPc'[j] = giPc[j]
         /\ GiExclusive'
<1>1. /\ giPc' \in [GiCallersIn -> GiLabels] /\ giPc'[k] = a
      /\ \A j \in GiCallersIn : j # k => giPc'[j] = giPc[j]
  BY Zenon DEF GiGoto, GiTypes
<1>2. \A j \in GiCallersIn : j # k => giPc[j] \in GiAwaits
  BY Zenon, OneWorker DEF GiMay, GiOne
<1>3. GiCallersIn' = GiCallersIn
  BY Zenon DEF GiCallersIn
<1> QED BY Zenon, <1>1, <1>2, <1>3 DEF GiExclusive

\* A step between awaits that writes no file.
LEMMA NoWrite ==
  ASSUME giDeployment \in GiDeployments, GiOne, GiSound, NEW k \in GiCallersIn, GiMay(k),
         NEW a \in {"idle", "cached?", "request", "store", "backoff", "outdated?", "open tmp",
                    "read back", "open"},
         GiGoto(k, a), UNCHANGED <<giDeployment, giPublished, giDisk, giManager, giFd>>,
         giPc[k] # "swap", giRedis' \in Int, giGot' \in [GiCallersIn -> Int],
         \A j \in GiCallersIn : j # k => giGot'[j] = giGot[j],
         ~giDeployment.badDownloads =>
           /\ giRedis' # GiBad
           /\ a \in {"open tmp", "store"} => giGot'[k] # GiBad
  PROVE  GiSound'
<1>0. GiCallersIn' = GiCallersIn /\ GiWorkers' = GiWorkers /\ a \in GiLabels
  BY Zenon DEF GiCallersIn, GiWorkers, GiLabels, GiAwaits
<1>1. /\ giPc' \in [GiCallersIn -> GiLabels] /\ giPc'[k] = a
      /\ \A j \in GiCallersIn : j # k => giPc[j] \in GiAwaits /\ giPc'[j] = giPc[j]
      /\ GiExclusive'
  BY Zenon, <1>0, GiAlone DEF GiSound
<1>2. GiTypes'
  BY Zenon, <1>0, <1>1 DEF GiSound, GiTypes, giDisk, giManager
<1>3. \A j \in GiCallersIn : giPc'[j] \notin {"write", "writing", "replace", "swap"}
  BY Zenon, <1>1 DEF GiAwaits
<1>4. GiApart'
  BY Zenon, <1>0, <1>3 DEF GiSound, GiApart, giDisk, giManager
<1>5. \A j \in GiCallersIn : giPc[j] # "swap"
  BY Zenon, <1>1, <1>3
<1>6. GiReads'
  BY Zenon, <1>0, <1>5 DEF GiSound, GiReads, giDisk, giManager
<1>7. ~giDeployment'.badDownloads => GiGood'
  <2> SUFFICES ASSUME ~giDeployment.badDownloads PROVE GiGood'
    BY Zenon
  <2>1. \A j \in GiCallersIn : giPc'[j] \in {"open tmp", "write", "writing", "replace", "store"}
          => giGot'[j] # GiBad
    BY Zenon, <1>1, <1>3 DEF GiSound, GiGood
  <2> QED BY Zenon, <1>0, <2>1 DEF GiSound, GiGood, giDisk
<1> QED BY Zenon, <1>1, <1>2, <1>4, <1>6, <1>7 DEF GiSound

\* The steps of a call that write no file and change no reader.
LEMMA QuietSteps ==
  ASSUME GiInv, GiOne, NEW k \in GiCallersIn,
         \/ GetCached(k) \/ CheckAge(k) \/ Backoff(k) \/ Request(k) \/ ReadBack(k) \/ Store(k)
         \/ \E call \in {"init", "refresh"} : Call(k, call)
  PROVE  GiSound'
<1>1. /\ giDeployment \in GiDeployments /\ GiSound /\ giRedis \in Int
      /\ giGot \in [GiCallersIn -> Int] /\ giPublished \in Nat \ {0}
      /\ giData \in [GiInodes -> Int] /\ (giFile # GiNone => giData[giFile] \in Int)
  BY Zenon DEF GiInv, GiSound, GiTypes
<1>2. ~giDeployment.badDownloads => GiGood
  BY Zenon, <1>1 DEF GiSound
<1>3. ASSUME NEW a \in {"idle", "cached?", "request", "store", "backoff", "outdated?", "open tmp",
                        "read back", "open"},
             GiGoto(k, a), giPc[k] # "swap", GiMay(k),
             UNCHANGED <<giDeployment, giPublished, giDisk, giManager, giFd>>,
             giRedis' \in {giRedis, giGot[k]}, giRedis' # giRedis => giPc[k] = "store",
             \/ giGot' = giGot /\ a \notin {"open tmp", "store"}
             \/ \E v \in Int : /\ giGot' = [giGot EXCEPT ![k] = v]
                               /\ ~giDeployment.badDownloads => v # GiBad
      PROVE  GiSound'
  <2>1. giRedis' \in Int /\ giGot' \in [GiCallersIn -> Int]
    BY Zenon, <1>1, <1>3
  <2>2. \A j \in GiCallersIn : j # k => giGot'[j] = giGot[j]
    BY Zenon, <1>1, <1>3
  <2>3. ~giDeployment.badDownloads =>
          /\ giRedis' # GiBad
          /\ a \in {"open tmp", "store"} => giGot'[k] # GiBad
    BY Zenon, <1>1, <1>2, <1>3 DEF GiGood
  <2> QED BY Zenon, <1>1, <1>3, <2>1, <2>2, <2>3, NoWrite
<1>4. giPublished \in Int /\ giPublished # GiBad /\ GiBad \in Int
  BY <1>1 DEF GiBad
<1>5. CASE GetCached(k)
  <2>1. CASE GiGoto(k, "outdated?") /\ UNCHANGED giGot
    BY Zenon, <1>3, <1>5, <2>1 DEF GetCached, GiAt
  <2>2. CASE GiGoto(k, "open tmp") /\ giGot' = [giGot EXCEPT ![k] = giRedis]
    BY Zenon, <1>1, <1>2, <1>3, <1>5, <2>2 DEF GetCached, GiAt, GiGood
  <2> QED BY Zenon, <1>5, <2>1, <2>2 DEF GetCached
<1>6. CASE CheckAge(k)
  BY Zenon, <1>3, <1>6 DEF CheckAge, GiAt, giLocal
<1>7. CASE Backoff(k)
  BY Zenon, <1>3, <1>7 DEF Backoff, GiAt, giLocal
<1>8. CASE Request(k)
  <2>1. CASE AttemptFailed(k) /\ UNCHANGED giGot
    BY Zenon, <1>3, <1>8, <2>1 DEF Request, AttemptFailed, GiAt
  <2>2. CASE /\ GiGoto(k, "open tmp")
             /\ \E content \in {giPublished} \cup (IF giDeployment.badDownloads THEN {GiBad} ELSE {}) :
                  giGot' = [giGot EXCEPT ![k] = content]
    <3>1. \E v \in Int : /\ giGot' = [giGot EXCEPT ![k] = v]
                         /\ ~giDeployment.badDownloads => v # GiBad
      BY Zenon, <1>4, <2>2
    <3> QED BY Zenon, <1>3, <1>8, <2>2, <3>1 DEF Request, GiAt
  <2> QED BY Zenon, <1>8, <2>1, <2>2 DEF Request
<1>9. CASE ReadBack(k)
  <2>1. CASE giFile # GiNone
    BY Zenon, <1>1, <1>2, <1>3, <1>9, <2>1 DEF ReadBack, GiAt, GiGood
  <2>2. CASE giFile = GiNone
    BY Zenon, <1>3, <1>9, <2>2 DEF ReadBack, GiAt
  <2> QED BY Zenon, <2>1, <2>2
<1>10. CASE Store(k)
  BY Zenon, <1>3, <1>10 DEF Store, GiAt, giLocal
<1>11. CASE \E call \in {"init", "refresh"} : Call(k, call)
  BY Zenon, <1>3, <1>11 DEF Call, GiAt
<1> QED BY Zenon, <1>5, <1>6, <1>7, <1>8, <1>9, <1>10, <1>11

\* The temporary file is filled while nothing else refers to it.
LEMMA WritingSteps ==
  ASSUME GiInv, GiOne, NEW k \in GiCallersIn, OpenTmp(k) \/ Write(k)
  PROVE  GiSound'
<1> DEFINE i == IF giPc[k] = "open tmp" /\ giTmp = GiNone THEN FreshInode ELSE giTmp
           v == IF giPc[k] = "writing" THEN giGot[k] ELSE GiBad
           a == IF giPc[k] = "open tmp" THEN "write" ELSE IF giPc[k] = "write" THEN "writing" ELSE "replace"
<1>0. /\ giDeployment \in GiDeployments /\ GiSound /\ GiTypes /\ GiExclusive /\ GiApart /\ GiReads
      /\ (~giDeployment.badDownloads => GiGood)
  BY Zenon DEF GiInv, GiSound
<1>1. /\ giPc[k] \in {"open tmp", "write", "writing"} /\ GiMay(k)
      /\ OpenTmp(k) => giPc[k] = "open tmp"
      /\ Write(k) => giPc[k] # "open tmp"
  BY Zenon DEF OpenTmp, Write, GiAt
<1>2. /\ i \in GiInodes /\ i # GiNone /\ i # giFile
      /\ \A w \in GiWorkers : giReader[w] # i
  BY Zenon, <1>0, <1>1, FreshExists, GiInodesAssumption DEF GiApart, GiTypes
<1>3. /\ giTmp' = i /\ giData' = [giData EXCEPT ![i] = v] /\ GiGoto(k, a)
      /\ UNCHANGED <<giDeployment, giPublished, giFile, giRedis, giManager, giGot>>
  <2>1. CASE OpenTmp(k)
    <3>1. giPc[k] = "open tmp"
      BY Zenon, <1>1, <2>1
    <3>2. i = (IF giTmp = GiNone THEN FreshInode ELSE giTmp) /\ v = GiBad /\ a = "write"
      BY Zenon, <3>1
    <3> QED BY Zenon, <2>1, <3>2 DEF OpenTmp
  <2>2. CASE Write(k)
    <3>1. giPc[k] \in {"write", "writing"} /\ giFd[k] = giTmp
      BY Zenon, <1>0, <1>1, <2>2 DEF GiApart
    <3>2. i = giTmp /\ v = (IF giPc[k] = "write" THEN GiBad ELSE giGot[k])
          /\ a = (IF giPc[k] = "write" THEN "writing" ELSE "replace")
      BY Zenon, <3>1
    <3> QED BY Zenon, <2>2, <3>1, <3>2 DEF Write
  <2> QED BY Zenon, <2>1, <2>2
<1>4. /\ giFd' \in [GiCallersIn -> GiInodes \cup {GiNone}]
      /\ a \in {"write", "writing"} => giFd'[k] = i
  <2>1. CASE OpenTmp(k)
    <3>1. giPc[k] = "open tmp"
      BY Zenon, <1>1, <2>1
    <3>2. giFd' = [giFd EXCEPT ![k] = i]
      BY Zenon, <2>1, <3>1 DEF OpenTmp
    <3> QED BY Zenon, <1>0, <1>2, <3>2 DEF GiTypes
  <2>2. CASE Write(k)
    <3>1. giPc[k] \in {"write", "writing"} /\ giFd[k] = giTmp
      BY Zenon, <1>0, <1>1, <2>2 DEF GiApart
    <3>2. giFd' = [giFd EXCEPT ![k] = IF giPc[k] = "write" THEN giFd[k] ELSE GiNone]
      BY Zenon, <2>2 DEF Write
    <3>3. i = giTmp /\ (a \in {"write", "writing"} => giPc[k] = "write")
      BY Zenon, <3>1
    <3> QED BY Zenon, <1>0, <1>2, <3>1, <3>2, <3>3 DEF GiTypes
  <2> QED BY Zenon, <2>1, <2>2
<1>5. v \in Int /\ GiBad \in Int /\ a \in {"write", "writing", "replace"} /\ a \in GiLabels
      /\ (a = "replace" => v = giGot[k])
  <2>1. GiBad \in Int
    BY DEF GiBad
  <2> QED BY Zenon, <1>0, <1>1, <2>1 DEF GiTypes, GiLabels
<1> HIDE DEF i, v, a
<1>6. GiCallersIn' = GiCallersIn /\ GiWorkers' = GiWorkers
  BY Zenon, <1>3 DEF GiCallersIn, GiWorkers
<1>7. /\ giPc' \in [GiCallersIn -> GiLabels] /\ giPc'[k] = a
      /\ \A j \in GiCallersIn : j # k => giPc[j] \in GiAwaits /\ giPc'[j] = giPc[j]
      /\ GiExclusive'
  BY Zenon, <1>0, <1>1, <1>3, <1>5, GiAlone
<1>8. /\ giData' \in [GiInodes -> Int] /\ giData'[i] = v
      /\ \A n \in GiInodes : n # i => giData'[n] = giData[n]
  BY Zenon, <1>0, <1>2, <1>3, <1>5 DEF GiTypes
<1>9. GiTypes'
  BY Zenon, <1>0, <1>2, <1>3, <1>4, <1>6, <1>7, <1>8 DEF GiTypes, giManager
<1>10. \A j \in GiCallersIn : giPc[j] # "swap" /\ giPc'[j] # "swap"
  BY Zenon, <1>1, <1>5, <1>7 DEF GiAwaits
<1>11. GiApart'
  <2>1. \A j \in GiCallersIn : j # k => giPc'[j] \notin {"write", "writing", "replace"}
    BY Zenon, <1>7 DEF GiAwaits
  <2>2. \A w \in GiWorkers : giReader'[w] # giTmp'
    BY Zenon, <1>2, <1>3 DEF giManager
  <2> QED BY Zenon, <1>2, <1>3, <1>4, <1>5, <1>6, <1>7, <1>8, <1>10, <2>1, <2>2 DEF GiApart
<1>12. GiReads'
  <2>1. \A w \in GiWorkers : giReader[w] # GiNone => giData'[giReader[w]] = giData[giReader[w]]
    BY Zenon, <1>0, <1>2, <1>8 DEF GiTypes
  <2> QED BY Zenon, <1>0, <1>3, <1>6, <1>10, <2>1 DEF GiReads, giManager
<1>13. ~giDeployment'.badDownloads => GiGood'
  <2> SUFFICES ASSUME ~giDeployment.badDownloads PROVE GiGood'
    BY Zenon, <1>3
  <2>1. \A j \in GiCallersIn :
          giPc'[j] \in {"open tmp", "write", "writing", "replace", "store"} => giGot[j] # GiBad
    BY Zenon, <1>0, <1>1, <1>7 DEF GiGood
  <2>2. giFile # GiNone => giData'[giFile] = giData[giFile]
    BY Zenon, <1>0, <1>2, <1>8 DEF GiTypes
  <2> QED BY Zenon, <1>0, <1>3, <1>6, <2>1, <2>2 DEF GiGood
<1> QED BY Zenon, <1>7, <1>9, <1>11, <1>12, <1>13 DEF GiSound

\* What is renamed has been filled, and no call is left between awaits.
LEMMA RenamingStep ==
  ASSUME GiInv, GiOne, NEW k \in GiCallersIn, Replace(k)
  PROVE  GiSound'
<1>0. /\ giDeployment \in GiDeployments /\ GiSound /\ GiTypes /\ GiExclusive /\ GiApart /\ GiReads
      /\ (~giDeployment.badDownloads => GiGood)
  BY Zenon DEF GiInv, GiSound
<1>1. /\ giPc[k] = "replace" /\ GiMay(k)
      /\ giTmp # GiNone /\ giData[giTmp] = giGot[k]
  BY Zenon, <1>0 DEF Replace, GiAt, GiApart
<1>2. PICK a \in {"read back", "open"} : GiGoto(k, a)
  BY Zenon, <1>1 DEF Replace
<1>3. /\ giFile' = giTmp /\ giTmp' = GiNone
      /\ UNCHANGED <<giDeployment, giPublished, giData, giRedis, giManager, giGot, giFd>>
  BY Zenon, <1>1 DEF Replace
<1>6. GiCallersIn' = GiCallersIn /\ GiWorkers' = GiWorkers /\ a \in GiLabels
  BY Zenon, <1>3 DEF GiCallersIn, GiWorkers, GiLabels
<1>7. /\ giPc' \in [GiCallersIn -> GiLabels] /\ giPc'[k] = a
      /\ \A j \in GiCallersIn : j # k => giPc[j] \in GiAwaits /\ giPc'[j] = giPc[j]
      /\ GiExclusive'
  BY Zenon, <1>0, <1>1, <1>2, <1>3, <1>6, GiAlone
<1>8. GiTypes'
  BY Zenon, <1>0, <1>3, <1>6, <1>7 DEF GiTypes, giManager
<1>9. \A j \in GiCallersIn :
        giPc[j] # "swap" /\ giPc'[j] \notin {"write", "writing", "replace", "swap"}
  BY Zenon, <1>1, <1>7 DEF GiAwaits
<1>10. GiApart'
  BY Zenon, <1>3, <1>6, <1>9 DEF GiApart
<1>11. GiReads'
  BY Zenon, <1>0, <1>3, <1>6, <1>9 DEF GiReads, giManager
<1>12. ~giDeployment'.badDownloads => GiGood'
  <2> SUFFICES ASSUME ~giDeployment.badDownloads PROVE GiGood'
    BY Zenon, <1>3
  <2>1. \A j \in GiCallersIn :
          giPc'[j] \in {"open tmp", "write", "writing", "replace", "store"} => giGot[j] # GiBad
    BY Zenon, <1>0, <1>7 DEF GiGood
  <2>2. giData[giTmp] # GiBad
    BY Zenon, <1>0, <1>1 DEF GiGood
  <2> QED BY Zenon, <1>0, <1>3, <1>6, <2>1, <2>2 DEF GiGood
<1> QED BY Zenon, <1>7, <1>8, <1>10, <1>11, <1>12 DEF GiSound

\* A step that gives a worker the file to read, or none.
LEMMA Reading ==
  ASSUME GiInv, GiOne, NEW k \in GiCallersIn, GiMay(k), giPc[k] \in {"open", "swap"},
         NEW a \in {"idle", "swap"}, GiGoto(k, a),
         UNCHANGED <<giDeployment, giPublished, giData, giTmp, giRedis, giGot>>,
         giFile' \in {giFile, GiNone},
         giFd' \in [GiCallersIn -> GiInodes \cup {GiNone}],
         a = "swap" => giFile # GiNone /\ giFile' = giFile /\ giFd'[k] = giFile /\ giData[giFile] # GiBad,
         giClosed' \in [GiWorkers -> BOOLEAN],
         giServed' \in [GiWorkers -> BOOLEAN],
         \/ UNCHANGED giReader
         \/ /\ giReader' = [giReader EXCEPT ![k[1]] = giFile]
            /\ giFile # GiNone /\ giData[giFile] # GiBad,
         \A w \in GiWorkers : giServed'[w] => giReader'[w] # GiNone /\ (giClosed'[w] => a = "swap")
  PROVE  GiSound'
<1>0. /\ giDeployment \in GiDeployments /\ GiSound /\ GiTypes /\ GiExclusive /\ GiApart /\ GiReads
      /\ (~giDeployment.badDownloads => GiGood)
  BY Zenon DEF GiInv, GiSound
<1>1. GiCallersIn' = GiCallersIn /\ GiWorkers' = GiWorkers /\ a \in GiLabels
  BY Zenon DEF GiCallersIn, GiWorkers, GiLabels, GiAwaits
<1>2. /\ giPc' \in [GiCallersIn -> GiLabels] /\ giPc'[k] = a
      /\ \A j \in GiCallersIn : j # k => giPc[j] \in GiAwaits /\ giPc'[j] = giPc[j]
      /\ GiExclusive'
  BY Zenon, <1>0, <1>1, GiAlone
<1>3. /\ giReader' \in [GiWorkers -> GiInodes \cup {GiNone}]
      /\ \A w \in GiWorkers : \/ giReader'[w] = giReader[w]
                              \/ giReader'[w] = giFile /\ giFile # GiNone /\ giData[giFile] # GiBad
  BY Zenon, <1>0 DEF GiTypes
<1>4. GiTypes'
  BY Zenon, <1>0, <1>1, <1>2, <1>3 DEF GiTypes
<1>5. \A j \in GiCallersIn :
        /\ giPc'[j] \notin {"write", "writing", "replace"}
        /\ giPc'[j] = "swap" => j = k /\ a = "swap"
  BY Zenon, <1>2 DEF GiAwaits
<1>6. GiApart'
  <2>1. giTmp # GiNone => giTmp # giFile' /\ \A w \in GiWorkers : giReader'[w] # giTmp
    BY Zenon, <1>0, <1>3 DEF GiApart
  <2> QED BY Zenon, <1>1, <1>5, <2>1 DEF GiApart
<1>7. GiReads'
  <2>1. \A w \in GiWorkers : giReader'[w] # GiNone => giData[giReader'[w]] # GiBad
    BY Zenon, <1>0, <1>3 DEF GiReads
  <2> QED BY Zenon, <1>1, <1>2, <2>1 DEF GiReads
<1>8. ~giDeployment'.badDownloads => GiGood'
  <2>1. \A j \in GiCallersIn :
          giPc'[j] \in {"open tmp", "write", "writing", "replace", "store"} => giPc'[j] = giPc[j]
    BY Zenon, <1>2
  <2> QED BY Zenon, <1>0, <1>1, <2>1 DEF GiGood
<1> QED BY Zenon, <1>2, <1>4, <1>6, <1>7, <1>8 DEF GiSound

\* A new reader maps the file, which is a database.
LEMMA ReadingSteps ==
  ASSUME GiInv, GiOne, NEW k \in GiCallersIn, Open(k) \/ Swap(k)
  PROVE  GiSound'
<1>0. /\ giDeployment \in GiDeployments /\ GiTypes /\ GiApart /\ GiReads
      /\ k[1] \in GiWorkers /\ \A w \in GiWorkers : w = k[1]
  BY Zenon, OneWorker DEF GiInv, GiSound
<1>1. /\ giFile \in GiInodes \cup {GiNone}
      /\ giReader \in [GiWorkers -> GiInodes \cup {GiNone}]
      /\ giClosed \in [GiWorkers -> BOOLEAN] /\ giServed \in [GiWorkers -> BOOLEAN]
      /\ giFd \in [GiCallersIn -> GiInodes \cup {GiNone}]
  BY Zenon, <1>0 DEF GiTypes
<1>2. GiMay(k) /\ giPc[k] \in {"open", "swap"}
  BY Zenon DEF Open, Swap, GiAt
<1>3. ASSUME giPc[k] = "open", NEW w \in GiWorkers, giServed[w] PROVE giReader[w] # GiNone /\ ~giClosed[w]
  <2>1. \A j \in GiCallersIn : giPc[j] # "swap"
    BY Zenon, <1>2, <1>3, OneWorker, <1>0 DEF GiMay, GiOne, GiAwaits
  <2> QED BY Zenon, <1>0, <1>3, <2>1 DEF GiReads
<1>4. ASSUME NEW r, r = giFile, r # GiNone, giData[r] # GiBad, Serve(k, r), GiGoto(k, "idle"),
             UNCHANGED <<giDeployment, giPublished, giData, giTmp, giRedis, giGot, giFile>>,
             giFd' \in [GiCallersIn -> GiInodes \cup {GiNone}]
      PROVE  GiSound'
  <2>1. /\ giReader' = [giReader EXCEPT ![k[1]] = giFile]
        /\ giClosed' \in [GiWorkers -> BOOLEAN] /\ giServed' \in [GiWorkers -> BOOLEAN]
    BY Zenon, <1>1, <1>4 DEF Serve
  <2>2. \A w \in GiWorkers : giReader'[w] # GiNone /\ ~giClosed'[w]
    BY Zenon, <1>0, <1>1, <1>4, <2>1 DEF Serve
  <2> QED BY Zenon, <1>2, <1>4, <2>1, <2>2, Reading
<1>5. CASE Open(k)
  <2>0. giPc[k] = "open"
    BY Zenon, <1>5 DEF Open, GiAt
  <2>1. CASE giFile' = GiNone /\ GiGoto(k, "idle") /\ UNCHANGED <<giManager, giFd>>
    <3>1. UNCHANGED <<giReader, giClosed, giServed, giFd>>
      BY Zenon, <2>1 DEF giManager
    <3>2. \A w \in GiWorkers : giServed'[w] => giReader'[w] # GiNone /\ ~giClosed'[w]
      BY Zenon, <1>3, <2>0, <3>1
    <3> QED BY Zenon, <1>1, <1>2, <1>5, <2>1, <3>1, <3>2, Reading DEF Open
  <2>2. CASE giFile # GiNone /\ giData[giFile] # GiBad /\ UNCHANGED giFile /\ giCall[k] = "init"
    BY Zenon, <1>1, <1>4, <1>5, <2>2 DEF Open
  <2>3. CASE giFile # GiNone /\ giData[giFile] # GiBad /\ UNCHANGED giFile /\ giCall[k] # "init"
    <3>1. /\ giFd' = [giFd EXCEPT ![k] = giFile]
          /\ giClosed' = [giClosed EXCEPT ![k[1]] = giReader[k[1]] # GiNone]
          /\ GiGoto(k, "swap")
          /\ UNCHANGED <<giReader, giServed>>
      BY Zenon, <1>5, <2>3 DEF Open
    <3>2. /\ giFd' \in [GiCallersIn -> GiInodes \cup {GiNone}] /\ giFd'[k] = giFile
          /\ giClosed' \in [GiWorkers -> BOOLEAN]
      BY Zenon, <1>1, <3>1
    <3>3. \A w \in GiWorkers : giServed'[w] => giReader'[w] # GiNone
      BY Zenon, <1>3, <2>0, <3>1
    <3> QED BY Zenon, <1>1, <1>2, <1>5, <2>3, <3>1, <3>2, <3>3, Reading DEF Open
  <2> QED BY Zenon, <1>5, <2>1, <2>2, <2>3 DEF Open
<1>6. CASE Swap(k)
  <2>1. giPc[k] = "swap" /\ giFd[k] = giFile /\ giFile # GiNone /\ giData[giFile] # GiBad
    BY Zenon, <1>0, <1>6 DEF Swap, GiAt, GiApart
  <2>2. giFd' \in [GiCallersIn -> GiInodes \cup {GiNone}]
    BY Zenon, <1>1, <1>6 DEF Swap
  <2> QED BY Zenon, <1>4, <1>6, <2>1, <2>2 DEF Swap, giDisk
<1> QED BY Zenon, <1>5, <1>6

\* close(), a new version and the death of the process.
LEMMA OtherSteps ==
  ASSUME GiInv, GiOne, Publish \/ \E w \in GiWorkers : GiClose(w) \/ Die(w)
  PROVE  GiSound'
<1>0. /\ giDeployment \in GiDeployments /\ GiSound /\ GiTypes /\ GiExclusive /\ GiApart /\ GiReads
      /\ (~giDeployment.badDownloads => GiGood)
  BY Zenon DEF GiInv, GiSound
<1>1. UNCHANGED giDeployment
  BY Zenon DEF Publish, GiClose, Die
<1>2. GiCallersIn' = GiCallersIn /\ GiWorkers' = GiWorkers
  BY Zenon, <1>1 DEF GiCallersIn, GiWorkers
<1>3. CASE Publish
  <2>1. giPublished' \in Nat \ {0} /\ giRedis' \in Int /\ giRedis' # GiBad
    BY <1>0, <1>3 DEF Publish, GiTypes, GiNone, GiBad
  <2>2. UNCHANGED <<giData, giFile, giTmp, giReader, giClosed, giServed, giPc, giGot, giFd>>
    BY Zenon, <1>3 DEF Publish, giManager, giLocal
  <2>3. GiTypes' /\ GiExclusive'
    BY Zenon, <1>0, <1>2, <2>1, <2>2 DEF GiTypes, GiExclusive
  <2>4. GiApart' /\ GiReads'
    BY Zenon, <1>0, <1>2, <2>2 DEF GiApart, GiReads
  <2>5. ~giDeployment'.badDownloads => GiGood'
    BY Zenon, <1>0, <1>1, <1>2, <2>1, <2>2 DEF GiGood
  <2> QED BY Zenon, <2>3, <2>4, <2>5 DEF GiSound
<1>4. CASE \E w \in GiWorkers : GiClose(w)
  <2>1. PICK w \in GiWorkers : GiClose(w)
    BY Zenon, <1>4
  <2>2. UNCHANGED <<giPublished, giRedis, giData, giFile, giTmp, giReader, giPc, giGot, giFd>>
    BY Zenon, <2>1 DEF GiClose, giDisk, giLocal
  <2>3. /\ giClosed' \in [GiWorkers -> BOOLEAN] /\ giServed' \in [GiWorkers -> BOOLEAN]
        /\ ~giServed'[w]
        /\ \A v \in GiWorkers : v # w => giServed'[v] = giServed[v] /\ giClosed'[v] = giClosed[v]
    BY Zenon, <1>0, <2>1 DEF GiClose, GiTypes
  <2>4. GiTypes' /\ GiExclusive'
    BY Zenon, <1>0, <1>2, <2>2, <2>3 DEF GiTypes, GiExclusive
  <2>5. GiApart' /\ GiReads'
    BY Zenon, <1>0, <1>2, <2>2, <2>3 DEF GiApart, GiReads
  <2>6. ~giDeployment'.badDownloads => GiGood'
    BY Zenon, <1>0, <1>1, <1>2, <2>2 DEF GiGood
  <2> QED BY Zenon, <2>4, <2>5, <2>6 DEF GiSound
<1>5. CASE \E w \in GiWorkers : Die(w)
  <2>1. PICK w \in GiWorkers : Die(w)
    BY Zenon, <1>5
  <2>2. UNCHANGED <<giPublished, giRedis, giData, giFile, giTmp, giGot>>
    BY Zenon, <2>1 DEF Die, giDisk
  <2>3. /\ \A k \in GiCallersIn : k[1] = w
        /\ \A v \in GiWorkers : v = w
    BY Zenon, <1>0, OneWorker
  <2>4. /\ giReader' \in [GiWorkers -> GiInodes \cup {GiNone}]
        /\ giClosed' \in [GiWorkers -> BOOLEAN] /\ giServed' \in [GiWorkers -> BOOLEAN]
        /\ giReader'[w] = GiNone /\ ~giServed'[w]
    BY Zenon, <1>0, <2>1 DEF Die, GiTypes
  <2>5. /\ giPc' \in [GiCallersIn -> GiLabels]
        /\ giFd' \in [GiCallersIn -> GiInodes \cup {GiNone}]
        /\ \A k \in GiCallersIn : giPc'[k] = "idle"
    <3>1. "idle" \in GiLabels
      BY Zenon DEF GiLabels, GiAwaits
    <3> QED BY Zenon, <2>1, <2>3, <3>1 DEF Die
  <2>6. GiTypes' /\ GiExclusive'
    BY Zenon, <1>0, <1>2, <2>2, <2>4, <2>5 DEF GiTypes, GiExclusive, GiAwaits
  <2>7. GiApart'
    <3>1. giTmp # GiNone => giTmp # giFile /\ \A v \in GiWorkers : giReader'[v] # giTmp
      BY Zenon, <1>0, <2>3, <2>4 DEF GiApart
    <3> QED BY Zenon, <1>2, <2>2, <2>5, <3>1 DEF GiApart
  <2>8. GiReads'
    BY Zenon, <1>2, <2>3, <2>4 DEF GiReads
  <2>9. ~giDeployment'.badDownloads => GiGood'
    BY Zenon, <1>0, <1>1, <1>2, <2>2, <2>5 DEF GiGood
  <2> QED BY Zenon, <2>6, <2>7, <2>8, <2>9 DEF GiSound
<1> QED BY Zenon, <1>3, <1>4, <1>5

\* GiInv is inductive.
LEMMA GiInvStep == GiInv /\ [GiNext]_giVars => GiInv'
<1> SUFFICES ASSUME GiInv, [GiNext]_giVars PROVE GiInv'
  BY Zenon
<1>1. UNCHANGED giDeployment
  BY Zenon DEF GiNext, GiStep, giVars, Publish, GiClose, Die, Call, GetCached, CheckAge, Backoff,
               Request, OpenTmp, Write, Replace, ReadBack, Store, Open, Swap
<1>2. GiOne' = GiOne
  BY Zenon, <1>1 DEF GiOne, GiWorkers, GiCallersIn
<1>3. ASSUME GiOne PROVE GiSound'
  <2>1. CASE UNCHANGED giVars
    <3>1. /\ UNCHANGED <<giPublished, giRedis, giData, giFile, giTmp, giReader, giClosed, giServed>>
          /\ UNCHANGED <<giPc, giGot, giFd>>
          /\ GiCallersIn' = GiCallersIn /\ GiWorkers' = GiWorkers
      BY Zenon, <2>1 DEF giVars, giDisk, giManager, giLocal, GiCallersIn, GiWorkers
    <3>2. GiTypes' /\ GiExclusive' /\ GiApart'
      BY Zenon, <1>3, <3>1 DEF GiInv, GiSound, GiTypes, GiExclusive, GiApart
    <3>3. GiReads' /\ (~giDeployment'.badDownloads => GiGood')
      BY Zenon, <1>1, <1>3, <3>1 DEF GiInv, GiSound, GiReads, GiGood
    <3> QED BY Zenon, <3>2, <3>3 DEF GiSound
  <2>2. CASE Publish \/ \E w \in GiWorkers : GiClose(w) \/ Die(w)
    BY Zenon, <1>3, <2>2, OtherSteps
  <2>3. CASE \E k \in GiCallersIn : (\E call \in {"init", "refresh"} : Call(k, call)) \/ GiStep(k)
    BY Zenon, <1>3, <2>3, QuietSteps, WritingSteps, RenamingStep, ReadingSteps DEF GiStep
  <2> QED BY Zenon, <2>1, <2>2, <2>3 DEF GiNext
<1> QED BY Zenon, <1>1, <1>2, <1>3 DEF GiInv

\* For any number of calls, versions, inodes and retries: in a process whose
\* calls change at awaits only, no overlap of initialize, refresh and close and no
\* death leaves a torn file at db_path or takes a worker's last good database.
THEOREM DatabaseIsKept == GiSpec => []DatabaseStaysGood
<1>1. GiInv => DatabaseStaysGood
  <2> SUFFICES ASSUME GiInv PROVE FileComplete /\ LastKnownGood
    BY Zenon DEF DatabaseStaysGood
  <2>1. FileComplete
    BY Zenon DEF FileComplete, GiInv, GiOne, GiSound, GiGood
  <2>2. LastKnownGood
    BY Zenon DEF LastKnownGood, GiInv, GiOne, GiSound, GiReads
  <2> QED BY Zenon, <2>1, <2>2
<1> QED BY <1>1, GiInvInit, GiInvStep, PTL DEF GiSpec
=============================================================================
