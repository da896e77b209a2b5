------------------------------- MODULE GeoIp -------------------------------
(***************************************************************************)
(* IPInfoManager: the country database of each worker, its file, which the *)
(* workers of a host share, and its copy in Redis; initialize, refresh and *)
(* close, with the retried download and the "atomic" replacement of the    *)
(* file through a temporary one.                                           *)
(*                                                                         *)
(* A caller <<w, i>> is a call in worker w. The steps of different workers *)
(* interleave everywhere; those of one worker at the awaits only, unless   *)
(* the deployment uses threads. Files are inodes, so that a writer that    *)
(* still has the temporary file open after another worker has renamed it   *)
(* writes where it would. The content of an inode is the version of the    *)
(* database it holds, or GiBad: not a database (empty, half written, or a  *)
(* download that was none).                                                *)
(***************************************************************************)
EXTENDS Integers, FiniteSets

CONSTANTS GiCallers,      \* pairs of a worker and a number
          GiDeployments,  \* see GiDeployment
          GiInodes,
          GiMaxVersion,   \* bound on the published versions
          GiMaxCalls,     \* bound on the calls made
          GiRetries       \* _download_retries

ASSUME GiAssumption == GiMaxVersion \in Nat /\ GiMaxCalls \in Nat /\ GiRetries \in Nat \ {0}

\* Tasks or threads; a Redis handler or not; whether a download may succeed and
\* be no database; whether a process may die; the callers in use.
GiDeployment == [threads: BOOLEAN, redis: BOOLEAN, badDownloads: BOOLEAN, deaths: BOOLEAN,
                 callers: SUBSET GiCallers]
ASSUME GiDeploymentsAssumption == GiDeployments \subseteq GiDeployment

GiBad == 0
GiNone == -1

\* There is always another inode: besides the file and the temporary one a
\* caller refers to one at most, and so does a worker.
ASSUME GiInodesAssumption ==
  /\ GiNone \notin GiInodes /\ IsFiniteSet(GiInodes)
  /\ \A d \in GiDeployments :
       /\ IsFiniteSet(d.callers)
       /\ Cardinality(d.callers) + Cardinality({k[1] : k \in d.callers}) + 2 < Cardinality(GiInodes)

VARIABLES
  giDeployment,
  giPublished,   \* the version ipinfo.io serves
  giData,        \* content of each inode
  giFile,        \* inode at db_path, or GiNone
  giTmp,         \* inode at db_path.tmp, or GiNone
  giOutdated,    \* the file is older than max_age
  giRedis,       \* the copy under ipinfo:database, or GiNone
  giReader,      \* each worker's reader: the inode it maps, or GiNone
  giClosed,      \* that reader has been closed
  giServed,      \* history: the worker has had a reader
  giPc, giCall, giGot, giFd, giAttempt,  \* each caller: place, call, content, file, attempt
  giCalls        \* number of calls made

giDisk == <<giData, giFile, giTmp, giOutdated>>
giManager == <<giReader, giClosed, giServed>>
giLocal == <<giCall, giGot, giFd, giAttempt>>
giVars == <<giDeployment, giPublished, giDisk, giRedis, giManager, giPc, giLocal, giCalls>>

GiCallersIn == giDeployment.callers
GiWorkers == {k[1] : k \in GiCallersIn}

GiAwaits == {"idle", "cached?", "request", "store", "backoff"}

GiMay(k) ==
  giDeployment.threads \/ \A j \in GiCallersIn \ {k} : j[1] = k[1] => giPc[j] \in GiAwaits

GiAt(k, pc) == giPc[k] = pc /\ GiMay(k)
GiGoto(k, pc) == giPc' = [giPc EXCEPT ![k] = pc]

GiInit ==
  /\ giDeployment \in GiDeployments
  /\ giPublished = 1
  /\ giData = [i \in GiInodes |-> GiBad]
  /\ giFile = GiNone
  /\ giTmp = GiNone
  /\ giOutdated = FALSE
  /\ giRedis = GiNone
  /\ giReader = [w \in GiWorkers |-> GiNone]
  /\ giClosed = [w \in GiWorkers |-> FALSE]
  /\ giServed = [w \in GiWorkers |-> FALSE]
  /\ giPc = [k \in GiCallersIn |-> "idle"]
  /\ giCall = [k \in GiCallersIn |-> "init"]
  /\ giGot = [k \in GiCallersIn |-> GiBad]
  /\ giFd = [k \in GiCallersIn |-> GiNone]
  /\ giAttempt = [k \in GiCallersIn |-> 1]
  /\ giCalls = 0
-----------------------------------------------------------------------------
(* initialize, refresh, close *)

\* initialize asks Redis first; refresh goes straight to the download.
Call(k, call) ==
  /\ GiAt(k, "idle") /\ giCalls < GiMaxCalls
  /\ giCalls' = giCalls + 1
  /\ giCall' = [giCall EXCEPT ![k] = call]
  /\ giAttempt' = [giAttempt EXCEPT ![k] = 1]
  /\ GiGoto(k, CASE call = "refresh" -> "request"
                 [] giDeployment.redis -> "cached?"
                 [] OTHER -> "outdated?")
  /\ UNCHANGED <<giDeployment, giPublished, giDisk, giRedis, giManager, giGot, giFd>>

\* close(): the reader is closed and stays where it is.
GiClose(w) ==
  /\ giReader[w] # GiNone /\ giCalls < GiMaxCalls
  /\ giCalls' = giCalls + 1
  /\ giClosed' = [giClosed EXCEPT ![w] = TRUE]
  /\ giServed' = [giServed EXCEPT ![w] = FALSE]
  /\ UNCHANGED <<giDeployment, giPublished, giDisk, giRedis, giReader, giPc, giLocal>>

\* A cached copy is written to the file; a failing Redis counts as none.
GetCached(k) ==
  /\ GiAt(k, "cached?")
  /\ \/ /\ giRedis # GiNone
        /\ giGot' = [giGot EXCEPT ![k] = giRedis]
        /\ giAttempt' = [giAttempt EXCEPT ![k] = 0]
        /\ GiGoto(k, "open tmp")
     \/ /\ GiGoto(k, "outdated?")
        /\ UNCHANGED <<giGot, giAttempt>>
  /\ UNCHANGED <<giDeployment, giPublished, giDisk, giRedis, giManager, giCall, giFd, giCalls>>

CheckAge(k) ==
  /\ GiAt(k, "outdated?")
  /\ GiGoto(k, IF giFile = GiNone \/ giOutdated THEN "request" ELSE "open")
  /\ UNCHANGED <<giDeployment, giPublished, giDisk, giRedis, giManager, giLocal, giCalls>>
-----------------------------------------------------------------------------
(* _download_database and _write_database_atomically *)

\* Whether the write under way is a download's, not that of a cached copy.
Downloading(k) == giAttempt[k] > 0

\* An attempt fails: after the last one the call gives up and the reader is left
\* as it is, else it sleeps and tries again.
AttemptFailed(k) ==
  IF giAttempt[k] = GiRetries
    THEN GiGoto(k, "idle") /\ UNCHANGED giAttempt
    ELSE GiGoto(k, "backoff") /\ giAttempt' = [giAttempt EXCEPT ![k] = @ + 1]

Backoff(k) ==
  /\ GiAt(k, "backoff")
  /\ GiGoto(k, "request")
  /\ UNCHANGED <<giDeployment, giPublished, giDisk, giRedis, giManager, giLocal, giCalls>>

\* The answer is a database, or not one, or an error.
Request(k) ==
  /\ GiAt(k, "request")
  /\ \/ /\ \E content \in {giPublished} \cup (IF giDeployment.badDownloads THEN {GiBad} ELSE {}) :
             giGot' = [giGot EXCEPT ![k] = content]
        /\ GiGoto(k, "open tmp")
        /\ UNCHANGED giAttempt
     \/ AttemptFailed(k) /\ UNCHANGED giGot
  /\ UNCHANGED <<giDeployment, giPublished, giDisk, giRedis, giManager, giCall, giFd, giCalls>>

\* An inode nothing refers to.
FreshInode == CHOOSE i \in GiInodes :
  /\ i \notin {giFile, giTmp}
  /\ \A k \in GiCallersIn : giFd[k] # i
  /\ \A w \in GiWorkers : giReader[w] # i

\* Variant: the database is written in place.
OpenTmpInPlace(k) ==
  /\ GiAt(k, "open tmp")
  /\ LET i == IF giFile = GiNone THEN FreshInode ELSE giFile
     IN  /\ giFile' = i /\ giTmp' = i
         /\ giFd' = [giFd EXCEPT ![k] = i]
         /\ giData' = [giData EXCEPT ![i] = GiBad]
  /\ GiGoto(k, "write")
  /\ UNCHANGED <<giDeployment, giPublished, giOutdated, giRedis, giManager, giCall, giGot,
                 giAttempt, giCalls>>

\* open(tmp_path, "wb") creates the temporary file, or empties it.
OpenTmp(k) ==
  /\ GiAt(k, "open tmp")
  /\ LET i == IF giTmp = GiNone THEN FreshInode ELSE giTmp
     IN  /\ giTmp' = i
         /\ giFd' = [giFd EXCEPT ![k] = i]
         /\ giData' = [giData EXCEPT ![i] = GiBad]
  /\ GiGoto(k, "write")
  /\ UNCHANGED <<giDeployment, giPublished, giFile, giOutdated, giRedis, giManager, giCall, giGot,
                 giAttempt, giCalls>>

\* The bytes go where the file now is: first some of them, then all.
Write(k) ==
  /\ GiAt(k, "write") \/ GiAt(k, "writing")
  /\ giData' = [giData EXCEPT ![giFd[k]] = IF giPc[k] = "write" THEN GiBad ELSE giGot[k]]
  /\ giFd' = [giFd EXCEPT ![k] = IF giPc[k] = "write" THEN @ ELSE GiNone]
  /\ GiGoto(k, IF giPc[k] = "write" THEN "writing" ELSE "replace")
  /\ UNCHANGED <<giDeployment, giPublished, giFile, giTmp, giOutdated, giRedis, giManager, giCall,
                 giGot, giAttempt, giCalls>>

\* os.replace. If another worker has taken the temporary file away, a download's
\* attempt fails, and an initialize from the cached copy raises.
Replace(k) ==
  /\ GiAt(k, "replace")
  /\ IF giTmp # GiNone
       THEN /\ giFile' = giTmp /\ giTmp' = GiNone /\ giOutdated' = FALSE
            /\ GiGoto(k, IF Downloading(k) /\ giDeployment.redis THEN "read back" ELSE "open")
            /\ UNCHANGED giAttempt
       ELSE /\ IF Downloading(k) THEN AttemptFailed(k)
                                 ELSE GiGoto(k, "idle") /\ UNCHANGED giAttempt
            /\ UNCHANGED <<giFile, giTmp, giOutdated>>
  /\ UNCHANGED <<giDeployment, giPublished, giData, giRedis, giManager, giCall, giGot, giFd, giCalls>>

\* The file is read again for Redis; it may be gone.
ReadBack(k) ==
  /\ GiAt(k, "read back")
  /\ IF giFile # GiNone
       THEN /\ giGot' = [giGot EXCEPT ![k] = giData[giFile]] /\ GiGoto(k, "store")
       ELSE /\ GiGoto(k, "open") /\ UNCHANGED giGot
  /\ UNCHANGED <<giDeployment, giPublished, giDisk, giRedis, giManager, giCall, giFd, giAttempt,
                 giCalls>>

\* A failure to store it is only logged.
Store(k) ==
  /\ GiAt(k, "store")
  /\ giRedis' \in {giRedis, giGot[k]}
  /\ GiGoto(k, "open")
  /\ UNCHANGED <<giDeployment, giPublished, giDisk, giManager, giLocal, giCalls>>
-----------------------------------------------------------------------------
(* Opening the database *)

Serve(k, reader) ==
  /\ giReader' = [giReader EXCEPT ![k[1]] = reader]
  /\ giClosed' = [giClosed EXCEPT ![k[1]] = FALSE]
  /\ giServed' = [giServed EXCEPT ![k[1]] = TRUE]

\* Variant: a database that does not open takes the reader with it.
OpenLosing(k) ==
  /\ GiAt(k, "open")
  /\ \/ /\ giFile = GiNone \/ giData[giFile] = GiBad
        /\ giFile' = GiNone
        /\ giReader' = [giReader EXCEPT ![k[1]] = GiNone]
        /\ GiGoto(k, "idle")
        /\ UNCHANGED <<giClosed, giServed, giFd>>
     \/ /\ giFile # GiNone /\ giData[giFile] # GiBad
        /\ Serve(k, giFile) /\ GiGoto(k, "idle")
        /\ UNCHANGED <<giFile, giFd>>
  /\ UNCHANGED <<giDeployment, giPublished, giData, giTmp, giOutdated, giRedis, giCall, giGot,
                 giAttempt, giCalls>>

\* A file that is no database is removed and the reader left as it is. initialize
\* replaces the reader; refresh closes the old one first.
Open(k) ==
  /\ GiAt(k, "open")
  /\ \/ /\ giFile = GiNone \/ giData[giFile] = GiBad
        /\ giFile' = GiNone
        /\ GiGoto(k, "idle")
        /\ UNCHANGED <<giManager, giFd>>
     \/ /\ giFile # GiNone /\ giData[giFile] # GiBad
        /\ IF giCall[k] = "init"
             THEN Serve(k, giFile) /\ GiGoto(k, "idle") /\ UNCHANGED giFd
             ELSE /\ giFd' = [giFd EXCEPT ![k] = giFile]
                  /\ giClosed' = [giClosed EXCEPT ![k[1]] = giReader[k[1]] # GiNone]
                  /\ GiGoto(k, "swap")
                  /\ UNCHANGED <<giReader, giServed>>
        /\ UNCHANGED giFile
  /\ UNCHANGED <<giDeployment, giPublished, giData, giTmp, giOutdated, giRedis, giCall, giGot,
                 giAttempt, giCalls>>

Swap(k) ==
  /\ GiAt(k, "swap")
  /\ Serve(k, giFd[k])
  /\ giFd' = [giFd EXCEPT ![k] = GiNone]
  /\ GiGoto(k, "idle")
  /\ UNCHANGED <<giDeployment, giPublished, giDisk, giRedis, giCall, giGot, giAttempt, giCalls>>
-----------------------------------------------------------------------------
(* The environment *)

\* A new version is published, and the file grows old; the copy in Redis expires.
Publish ==
  /\ giPublished < GiMaxVersion
  /\ giPublished' = giPublished + 1
  /\ giOutdated' = (giFile # GiNone)
  /\ giRedis' = GiNone
  /\ UNCHANGED <<giDeployment, giData, giFile, giTmp, giManager, giPc, giLocal, giCalls>>

\* A worker dies, between any two steps, and is started anew.
Die(w) ==
  /\ giDeployment.deaths /\ \E k \in GiCallersIn : k[1] = w /\ giPc[k] # "idle"
  /\ giReader' = [giReader EXCEPT ![w] = GiNone]
  /\ giClosed' = [giClosed EXCEPT ![w] = FALSE]
  /\ giServed' = [giServed EXCEPT ![w] = FALSE]
  /\ giPc' = [k \in GiCallersIn |-> IF k[1] = w THEN "idle" ELSE giPc[k]]
  /\ giFd' = [k \in GiCallersIn |-> IF k[1] = w THEN GiNone ELSE giFd[k]]
  /\ UNCHANGED <<giDeployment, giPublished, giDisk, giRedis, giCall, giGot, giAttempt, giCalls>>

GiStep(k) ==
  \/ GetCached(k) \/ CheckAge(k) \/ Backoff(k) \/ Request(k) \/ OpenTmp(k) \/ Write(k)
  \/ Replace(k) \/ ReadBack(k) \/ Store(k) \/ Open(k) \/ Swap(k)

GiNext ==
  \/ Publish
  \/ \E w \in GiWorkers : GiClose(w) \/ Die(w)
  \/ \E k \in GiCallersIn : (\E call \in {"init", "refresh"} : Call(k, call)) \/ GiStep(k)

GiSpec == GiInit /\ [][GiNext]_giVars
-----------------------------------------------------------------------------
(* Properties *)

\* The file is only ever replaced as a whole: with one process writing it, in
\* the async tree, db_path never holds a half-written database, whatever calls
\* overlap and wherever the process dies. (Provided what is downloaded is one.)
FileComplete ==
  ~giDeployment.threads /\ ~giDeployment.badDownloads /\ Cardinality(GiWorkers) = 1
    => giFile = GiNone \/ giData[giFile] # GiBad

\* "keeps the last known good GeoIP database": once a worker has a database it
\* looks countries up in a whole one, until close(): a failed download, refresh
\* or opening leaves the reader, also if what was downloaded is no database.
LastKnownGood ==
  ~giDeployment.threads /\ Cardinality(GiWorkers) = 1 =>
    \A w \in GiWorkers :
      giServed[w] /\ (\A k \in GiCallersIn : giPc[k] # "swap")
        => giReader[w] # GiNone /\ ~giClosed[w] /\ giData[giReader[w]] # GiBad

\* Neither the file nor the reader is ever torn or lost by a refresh.
DatabaseStaysGood == FileComplete /\ LastKnownGood
=============================================================================
