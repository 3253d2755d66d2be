------------------------------ MODULE Pipelines ------------------------------
(***************************************************************************)
(* The ways in which a station's data reach a reader: detections, alerts,  *)
(* live status and archive pages, and the guard of what is pushed.  They   *)
(* share no state; a behaviour picks one of them and is one of that part,  *)
(* with that part's fairness, and a property says of it what it says in    *)
(* the part's own module.                                                  *)
(***************************************************************************)
EXTENDS DetectionIndex, Sequences, FiniteSets

CONSTANTS
    \* StationWatch
    Faults, GraceOffline, ResolveDelay, Cooldown,
    \* StatusCache
    Clients, Answers, MaxListeners, QueueMax, OfflineAfter,
    Reader,             \* the client that gets in again and again
    \* ArchiveIndex
    ArchivedNights, HotNights, MaxChanges, MaxFaults,
    MaxRestarts,        \* of the watchdog, of the dashboard
    \* RedisSeqBump
    Handlers, Stations, Seqs

VARIABLES
    part,
    \* StationWatch
    sick, active, pending, morning, heard, restarts,
    \* StatusCache
    station, streak, sig, store, snap, writer, client,
    \* ArchiveIndex
    archive, dates, data, ondemand, savedIndex, scanning, page, savedPage, refresh, changes,
    faults, reboots,
    \* RedisSeqBump
    call, hash, pc, cur, touched, answer

Alerts == INSTANCE StationWatch
Status == INSTANCE StatusCache
Archive == INSTANCE ArchiveIndex WITH
    Nights <- ArchivedNights, scan <- scanning
Guard == INSTANCE RedisSeqBump

------------------------------------------------------------------------------
(* What the constants have to be: bounds are numbers, what is counted is    *)
(* finite, and an alert is not given before its grace is over.              *)

ASSUME IndexAssumption ==
    /\ LastDay \in Nat /\ MaxEdits \in Nat /\ MaxStops \in Nat
    /\ MaxErrors \in Nat /\ BackoffFactor \in Nat
ASSUME AlertsAssumption ==
    GraceOffline \in Nat \ {0} /\ ResolveDelay \in Nat /\ Cooldown \in Nat
ASSUME StatusAssumption ==
    /\ IsFiniteSet(Clients) /\ Reader \in Clients
    /\ MaxListeners \in Nat /\ QueueMax \in Nat /\ OfflineAfter \in Nat
ASSUME ArchiveAssumption ==
    MaxChanges \in Nat \ {0} /\ MaxFaults \in Nat /\ MaxRestarts \in Nat
ASSUME GuardAssumption == Seqs \subseteq Nat

------------------------------------------------------------------------------
alertVars == <<sick, active, pending, morning, heard, restarts>>
statusVars == <<station, streak, sig, store, snap, writer, client>>
archiveVars == <<archive, dates, data, ondemand, savedIndex, scanning, page, savedPage,
                 refresh, changes, faults, reboots>>
guardVars == <<call, hash, pc, cur, touched, answer>>
pipelineVars == <<part, indexingVars, alertVars, statusVars, archiveVars, guardVars>>

Parts == {"index", "alerts", "status", "archive", "guard"}

AnyStation == CHOOSE h \in Stations : TRUE

\* A part that is not picked has one initial state.
PipelinesInit ==
    /\ part \in Parts
    /\ IndexInit /\ Alerts!WatchInit /\ Status!StatusInit /\ Archive!ArchiveInit
    /\ Guard!Init /\ (part = "guard" \/ call = [p \in Handlers |-> [station |-> AnyStation, seq |-> 0]])

\* A step of part p leaves the others alone.
Rest(p) ==
    /\ UNCHANGED part
    /\ IF p = "index"   THEN TRUE ELSE UNCHANGED indexingVars
    /\ IF p = "alerts"  THEN TRUE ELSE UNCHANGED alertVars
    /\ IF p = "status"  THEN TRUE ELSE UNCHANGED statusVars
    /\ IF p = "archive" THEN TRUE ELSE UNCHANGED archiveVars
    /\ IF p = "guard"   THEN TRUE ELSE UNCHANGED guardVars

PipelinesNext ==
    \/ part = "index"   /\ IndexNext     /\ Rest("index")
    \/ part = "alerts"  /\ Alerts!WatchNext    /\ Rest("alerts")
    \/ part = "status"  /\ Status!StatusNext   /\ Rest("status")
    \/ part = "archive" /\ Archive!ArchiveNext /\ Rest("archive")
    \/ part = "guard"   /\ Guard!Next          /\ Rest("guard")

\* Every part's own fairness.  No part ever turns into another, so that one strong condition
\* may stand for one of each part.
WeakFairness ==
    /\ WF_indexingVars(part = "index" /\ Indexer)
    /\ WF_indexingVars(part = "index" /\ Poller)
    /\ WF_alertVars(part = "alerts" /\ Alerts!Cycle)
    /\ WF_statusVars(part = "status" /\ Status!Poll)
    /\ \A c \in Clients : /\ WF_statusVars(part = "status" /\ Status!Stream(c))
                          /\ WF_statusVars(part = "status" /\ Status!Deadline(c))
    /\ WF_archiveVars(part = "archive" /\ Archive!Publish("prewarm"))
    /\ WF_archiveVars(part = "archive" /\ Archive!Publish("refresher"))
    /\ WF_archiveVars(part = "archive" /\ Archive!Scan("prewarm", "full"))
    /\ \A n \in ArchivedNights : WF_archiveVars(part = "archive" /\ Archive!OnDemandExpires(n))
    /\ WF_archiveVars(part = "archive" /\ Archive!View)
    /\ WF_archiveVars(part = "archive" /\ Archive!BuildPage)
    /\ WF_archiveVars(part = "archive" /\ Archive!StorePage)
    /\ WF_archiveVars(part = "archive" /\ Archive!PageExpires)
    /\ \A p \in Handlers : WF_guardVars(part = "guard" /\ Guard!SeqBump(p))

StrongFairness ==
    /\ SF_pipelineVars(
          \/ part = "index"   /\ WriteSession                        /\ Rest("index")
          \/ part = "alerts"  /\ Alerts!CheckStation(Faults)          /\ Rest("alerts")
          \/ part = "status"  /\ Status!Join(Reader)                  /\ Rest("status")
          \/ part = "archive" /\ Archive!Scan("refresher", "full")    /\ Rest("archive"))
    /\ SF_pipelineVars(
          \/ part = "index"   /\ Fetch                                /\ Rest("index")
          \/ part = "alerts"  /\ Alerts!Dispatch({"alert", "resolve"}) /\ Rest("alerts")
          \/ part = "archive" /\ Archive!Scan("refresher", "recent")   /\ Rest("archive"))

PipelinesSpec ==
    PipelinesInit /\ [][PipelinesNext]_pipelineVars /\ WeakFairness /\ StrongFairness

------------------------------------------------------------------------------
\* The behaviour is not one of part p: that part never changes makes this []<>.
Not(p) == []<>(part # p)

\* Every part keeps to its types (detection_indexer, station_watchdog, StationCache,
\* _ArchiveIndex).
TypeOK ==
    /\ part \in Parts
    /\ part = "index"   => IndexTypeOK
    /\ part = "alerts"  => Alerts!WatchTypeOK
    /\ part = "status"  => Status!StatusTypeOK
    /\ part = "archive" => Archive!ArchiveTypeOK
    /\ part = "guard"   => Guard!TypeOK

\* The rolling window of nights reaches detections.db (index_poller).
NightsArrive == Not("index") \/ WindowArrives

\* A problem that lasts is heard of in the end (station_watchdog).
LastingProblemIsHeard == Not("alerts") \/ Alerts!LastingProblemIsHeard

\* What browsers are shown catches up with the station and with the archive: of the
\* browsers, alike, the one that is given strong fairness (station_client.StationCache,
\* cache_store._ArchiveIndex).
ViewsCatchUp ==
    /\ Not("status")  \/ Status!CatchesUp(Reader)
    /\ Not("archive") \/ Archive!PageCatchesUp

\* Every call of the seq guard is answered, however often bumps of other stations make its
\* loop start over (RedisStationStateBackend.seq_bump).
EveryCallReturns == Not("guard") \/ Guard!CallsReturn

==============================================================================
