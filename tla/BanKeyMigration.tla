-------------------------- MODULE BanKeyMigration --------------------------
(***************************************************************************)
(* Legacy ban-key migration: when a worker is given Redis, bans stored     *)
(* under other spellings of an address move to its canonical key, one      *)
(* Redis command at a time, while other workers migrate, ban and unban.    *)
(* One address; its keys are MkCanonical and the spellings MkLegacy.       *)
(***************************************************************************)
EXTENDS Integers, FiniteSets, FiniteSetsExt

CONSTANTS MkWorkers,
          MkLegacy,      \* other spellings of the address
          MkMaxTime,     \* bound on the clock
          MkMaxStarts    \* bound on the migrations started

ASSUME MkAssumption == MkMaxTime \in Nat /\ MkMaxStarts \in Nat

MkCanonical == "canonical"
ASSUME MkLegacyAssumption == MkCanonical \notin MkLegacy /\ MkCanonical \notin MkWorkers
MkKeys == MkLegacy \cup {MkCanonical}

\* A ban: the expiry time that is its value, and when Redis drops the key.
MkNone == [value |-> 0, until |-> 0]

VARIABLES
  mkNow,
  mkKey,      \* each key's ban, or MkNone
  mkPc,       \* each worker: idle, scan, read, compare, set, delete
  mkTodo,     \* keys SCAN has still to return
  mkAt,       \* the key being moved
  mkOld,      \* value and remaining time read from it
  mkRaced,    \* history: another wrote the canonical key since it was compared
  mkDone,     \* history: the worker's last migration came to its end
  mkStarts    \* number of migrations started

mkLocal == <<mkTodo, mkAt, mkOld>>
mkVars == <<mkNow, mkKey, mkPc, mkLocal, mkRaced, mkDone, mkStarts>>

MkInit ==
  /\ mkNow = 0
  /\ mkKey \in [MkKeys -> {MkNone} \cup {[value |-> t, until |-> t] : t \in 1..MkMaxTime}]
  /\ mkPc = [w \in MkWorkers |-> "idle"]
  /\ mkTodo = [w \in MkWorkers |-> {}]
  /\ mkAt = [w \in MkWorkers |-> MkCanonical]
  /\ mkOld = [w \in MkWorkers |-> [value |-> 0, pttl |-> 0]]
  /\ mkRaced = [w \in MkWorkers |-> FALSE]
  /\ mkDone = [w \in MkWorkers |-> FALSE]
  /\ mkStarts = 0

\* PTTL: the remaining time, negative for a key that is not there.
Pttl(key) == IF mkKey[key].until > mkNow THEN mkKey[key].until - mkNow ELSE -2

MkGoto(w, pc) == mkPc' = [mkPc EXCEPT ![w] = pc]

\* The variables of _migrate_one_ban_key end with it.
Forget(w) ==
  /\ mkAt' = [mkAt EXCEPT ![w] = MkCanonical]
  /\ mkOld' = [mkOld EXCEPT ![w] = [value |-> 0, pttl |-> 0]]
  /\ mkRaced' = [mkRaced EXCEPT ![w] = FALSE]

\* The canonical key is written: whoever is moving a key has been raced.
Race(w) == mkRaced' = [v \in MkWorkers |-> mkRaced[v] \/ (v # w /\ mkPc[v] \in {"set", "delete"})]
-----------------------------------------------------------------------------
\* initialize_redis: SCAN returns the keys there are, in any order.
MigrateLegacyBanKeys(w) ==
  /\ mkPc[w] = "idle" /\ mkStarts < MkMaxStarts
  /\ mkStarts' = mkStarts + 1
  /\ mkTodo' = [mkTodo EXCEPT ![w] = {k \in MkKeys : mkKey[k].until > mkNow}]
  /\ mkDone' = [mkDone EXCEPT ![w] = FALSE]
  /\ MkGoto(w, "scan")
  /\ UNCHANGED <<mkNow, mkKey, mkAt, mkOld, mkRaced>>

\* The next key; one that is canonical already is passed over.
NextKey(w) ==
  /\ mkPc[w] = "scan"
  /\ \/ /\ mkTodo[w] = {}
        /\ mkDone' = [mkDone EXCEPT ![w] = TRUE]
        /\ MkGoto(w, "idle")
        /\ UNCHANGED <<mkTodo, mkAt>>
     \/ \E key \in mkTodo[w] :
          /\ mkTodo' = [mkTodo EXCEPT ![w] = @ \ {key}]
          /\ mkAt' = [mkAt EXCEPT ![w] = key]
          /\ MkGoto(w, IF key = MkCanonical THEN "scan" ELSE "read")
          /\ UNCHANGED mkDone
  /\ UNCHANGED <<mkNow, mkKey, mkOld, mkRaced, mkStarts>>

\* GET and PTTL in one transaction; an expired key is only deleted.
Read(w) ==
  /\ mkPc[w] = "read"
  /\ mkOld' = [mkOld EXCEPT ![w] = [value |-> mkKey[mkAt[w]].value, pttl |-> Pttl(mkAt[w])]]
  /\ MkGoto(w, IF Pttl(mkAt[w]) <= 0 THEN "delete" ELSE "compare")
  /\ UNCHANGED <<mkNow, mkKey, mkTodo, mkAt, mkRaced, mkDone, mkStarts>>

\* Variant: the shorter ban wins.
CompareLess(w) ==
  /\ mkPc[w] = "compare"
  /\ MkGoto(w, IF Pttl(MkCanonical) > mkOld[w].pttl \/ Pttl(MkCanonical) < 0 THEN "set" ELSE "delete")
  /\ UNCHANGED <<mkNow, mkKey, mkLocal, mkRaced, mkDone, mkStarts>>

\* PTTL of the canonical key: the ban is moved only if it lasts longer.
Compare(w) ==
  /\ mkPc[w] = "compare"
  /\ MkGoto(w, IF Pttl(MkCanonical) < mkOld[w].pttl THEN "set" ELSE "delete")
  /\ UNCHANGED <<mkNow, mkKey, mkLocal, mkRaced, mkDone, mkStarts>>

\* SET with the time that remained when the old key was read.
SetCanonical(w) ==
  /\ mkPc[w] = "set"
  /\ mkKey' = [mkKey EXCEPT ![MkCanonical] =
                 [value |-> mkOld[w].value, until |-> mkNow + mkOld[w].pttl]]
  /\ Race(w)
  /\ MkGoto(w, "delete")
  /\ UNCHANGED <<mkNow, mkLocal, mkDone, mkStarts>>

\* Variant: a key that is not moved is left.
DeleteMovedOnly(w) ==
  /\ mkPc[w] = "delete"
  /\ mkKey' = [mkKey EXCEPT ![mkAt[w]] = IF mkKey[MkCanonical].value = mkOld[w].value THEN MkNone ELSE @]
  /\ MkGoto(w, "scan")
  /\ Forget(w)
  /\ UNCHANGED <<mkNow, mkTodo, mkDone, mkStarts>>

DeleteOld(w) ==
  /\ mkPc[w] = "delete"
  /\ mkKey' = [mkKey EXCEPT ![mkAt[w]] = MkNone]
  /\ MkGoto(w, "scan")
  /\ Forget(w)
  /\ UNCHANGED <<mkNow, mkTodo, mkDone, mkStarts>>

\* A command fails, or the worker dies: the rest of the migration is skipped.
Abandon(w) ==
  /\ mkPc[w] # "idle"
  /\ MkGoto(w, "idle")
  /\ mkTodo' = [mkTodo EXCEPT ![w] = {}]
  /\ Forget(w)
  /\ UNCHANGED <<mkNow, mkKey, mkDone, mkStarts>>
-----------------------------------------------------------------------------
\* Meanwhile other workers ban and unban under the canonical key, and time passes.
MkBanIp(t) ==
  /\ mkKey' = [mkKey EXCEPT ![MkCanonical] = [value |-> t, until |-> t]]
  /\ Race(MkCanonical)
  /\ UNCHANGED <<mkNow, mkPc, mkLocal, mkDone, mkStarts>>

MkUnbanIp ==
  /\ mkKey' = [mkKey EXCEPT ![MkCanonical] = MkNone]
  /\ Race(MkCanonical)
  /\ UNCHANGED <<mkNow, mkPc, mkLocal, mkDone, mkStarts>>

MkTick ==
  /\ mkNow < MkMaxTime
  /\ mkNow' = mkNow + 1
  /\ UNCHANGED <<mkKey, mkPc, mkLocal, mkRaced, mkDone, mkStarts>>

MkMigrate(w) ==
  NextKey(w) \/ Read(w) \/ Compare(w) \/ SetCanonical(w) \/ DeleteOld(w)

MkNext ==
  \/ \E w \in MkWorkers : MigrateLegacyBanKeys(w) \/ MkMigrate(w) \/ Abandon(w)
  \/ \E t \in mkNow + 1..MkMaxTime : MkBanIp(t)
  \/ MkUnbanIp
  \/ MkTick

MkSpec == MkInit /\ [][MkNext]_mkVars
-----------------------------------------------------------------------------
(* Properties *)

\* Until when the address is banned, under one spelling or another: its ban must
\* be there and its value not yet be past.
Protection ==
  Max({IF mkKey[k].until > mkNow THEN mkKey[k].value ELSE 0 : k \in MkKeys})

\* By how long the canonical key outlives its ban: the time the move that set it
\* took between reading the old key and setting the new one.
Drift == mkKey[MkCanonical].until - mkKey[MkCanonical].value

\* A migration never shortens a ban, even if it stops half way, by more than
\* the drift of the key it leaves (the shorter of two bans may be taken for the
\* longer by the time that passed before they were compared), unless the
\* canonical key was written by another between its comparison and its end.
MigrationKeepsBans ==
  [][\A w \in MkWorkers :
       mkPc'[w] # mkPc[w] /\ ~mkRaced[w] /\ mkNow' = mkNow
         => Protection' >= Protection - Drift']_mkVars

\* A migration that comes to its end leaves no ban under another spelling,
\* where is_ip_banned and unban_ip would not find it.
NoLegacyLeft ==
  \A w \in MkWorkers : mkDone[w] => \A k \in MkLegacy : mkKey[k].until <= mkNow
=============================================================================
