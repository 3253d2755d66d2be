---------------------------- MODULE ArchiveIndex ----------------------------
(***************************************************************************)
(* How a camera's archived nights reach a viewer.  Two threads scan the    *)
(* storage box (_ArchiveIndex: a full scan at the start and every hour,    *)
(* the recent nights every minute), older nights are read on demand, and   *)
(* the nights_full page is served stale while it is rebuilt.               *)
(***************************************************************************)
EXTENDS Integers

CONSTANTS
    Nights, HotNights,  \* all, and those of the last _ARCHIVE_HOT_DAYS
    MaxChanges,         \* bound: changes of the archive
    MaxFaults,          \* bound: reads of the storage box that fail or time out
    MaxRestarts         \* bound

VARIABLES
    archive,            \* night -> version of its files, 0: no such night
    dates, data,        \* the index: the nights it knows; files of hot ones
    ondemand,           \* night -> version in the on-demand cache, -1: none
    savedIndex,         \* archive_index.json
    scan,               \* what the pre-warming and the refreshing thread are at
    page,               \* nights_full_cache: [state, rows]
    savedPage,          \* and its copy on disk
    refresh,            \* the refresh of the page: [step, rows]
    changes, faults, reboots

archiveVars == <<archive, dates, data, ondemand, savedIndex, scan, page, savedPage, refresh,
                 changes, faults, reboots>>

OldNights == Nights \ HotNights
Versions == 0..MaxChanges
None == -1
Listing == [Nights -> Versions]
Nothing == [n \in Nights |-> 0]
ScanThreads == {"prewarm", "refresher"}
Asleep == [step |-> "asleep", seen |-> Nothing]

ArchiveInit ==
    /\ archive = [n \in Nights |-> 1] /\ changes = 1
    /\ dates = {} /\ data = Nothing
    /\ ondemand = [n \in Nights |-> None]
    /\ savedIndex = [dates |-> {}, data |-> Nothing]
    /\ scan = [t \in ScanThreads |-> Asleep]
    /\ page = [state |-> "none", rows |-> Nothing]
    /\ savedPage = [state |-> "none", rows |-> Nothing]
    /\ refresh = [step |-> "none", rows |-> Nothing]
    /\ faults = 0 /\ reboots = 0

pageVars == <<page, savedPage, refresh>>
indexVars == <<dates, data, ondemand, savedIndex>>

------------------------------------------------------------------------------
\* An upload, a new night, or a deletion.
ArchiveChanges(n) ==
    /\ changes < MaxChanges
    /\ changes' = changes + 1
    /\ archive' \in {[archive EXCEPT ![n] = v] : v \in {0, changes + 1}}
    /\ UNCHANGED <<indexVars, scan, pageVars, faults, reboots>>

Fault == faults < MaxFaults /\ faults' = faults + 1

------------------------------------------------------------------------------
(* The scanning threads.                                                    *)

\* _prewarm_archive_index scans everything once; the refresher everything every sixtieth
\* time, the recent nights otherwise.
Rounds(t) == IF t = "prewarm" THEN {"full"} ELSE {"full", "recent"}

\* The camera's directories are walked.  A scan of the root that fails ends the round; a
\* camera whose walk fails counts as empty.
Scan(t, round) ==
    /\ round \in Rounds(t)
    /\ scan[t].step = "asleep"
    /\ \/ /\ scan' = [scan EXCEPT ![t] = [step |-> round, seen |-> archive]]
          /\ UNCHANGED faults
       \/ /\ Fault
          /\ scan' = [scan EXCEPT ![t] = [step |-> round, seen |-> Nothing]]
    /\ UNCHANGED <<archive, indexVars, pageVars, changes, reboots>>

Found(t) == {n \in Nights : scan[t].seen[n] # 0}
Hot(listing) == [n \in Nights |-> IF n \in HotNights THEN listing[n] ELSE 0]

\* The pre-warming thread ends with its one scan, which it saves whatever it found; the
\* refresher saves when it has counted a night.
AfterScan(t) == scan' = [scan EXCEPT ![t] = [Asleep EXCEPT !.step =
                            IF t = "prewarm" THEN "over" ELSE "asleep"]]

Save(counted) ==
    savedIndex' = IF counted THEN [dates |-> dates', data |-> data'] ELSE savedIndex

\* build_full: the index becomes what was seen.
BuildFull(t) ==
    /\ scan[t].step = "full"
    /\ dates' = Found(t) /\ data' = Hot(scan[t].seen)
    /\ ondemand' = [n \in Nights |-> None]
    /\ Save(t = "prewarm" \/ Found(t) # {})
    /\ AfterScan(t)
    /\ UNCHANGED <<archive, pageVars, changes, faults, reboots>>

\* refresh_recent: what was seen is added; what is gone stays.
RefreshRecent(t) ==
    /\ scan[t].step = "recent"
    /\ dates' = dates \cup Found(t)
    /\ data' = [n \in Nights |-> IF n \in Found(t) \cap HotNights THEN scan[t].seen[n] ELSE data[n]]
    /\ Save(Found(t) \cap HotNights # {})
    /\ AfterScan(t)
    /\ UNCHANGED <<archive, ondemand, pageVars, changes, faults, reboots>>

\* _ARCHIVE_ONDEMAND_TTL
OnDemandExpires(n) ==
    /\ ondemand[n] # None
    /\ ondemand' = [ondemand EXCEPT ![n] = None]
    /\ UNCHANGED <<archive, dates, data, savedIndex, scan, pageVars, changes, faults, reboots>>

------------------------------------------------------------------------------
(* The page: api_archive_nights_full, _refresh_nights_full, _kick_cache_refresh. *)

\* A request serves the cached page, and starts a refresh of it unless it is fresh or one
\* is under way; without any page it builds one itself.
View ==
    /\ page.state # "fresh" /\ refresh.step = "none"
    /\ refresh' = [refresh EXCEPT !.step = "building"]
    /\ UNCHANGED <<archive, indexVars, scan, page, savedPage, changes, faults, reboots>>

\* Nights whose files are neither in the index nor in the on-demand cache.
Unknown == {n \in dates : data[n] = 0 /\ ondemand[n] = None}

\* _build_nights_full: night_files reads the unknown nights from the storage box; those
\* that time out are left out of the page.
Build(missed) ==
    LET read == Unknown \ missed IN
    /\ refresh.step = "building"
    /\ ondemand' = [n \in Nights |-> IF n \in read /\ archive[n] # 0 THEN archive[n] ELSE ondemand[n]]
    /\ refresh' = [step |-> "built",
                   rows |-> [n \in Nights |-> CASE n \notin dates \/ n \in missed -> 0
                                               [] data[n] # 0 -> data[n]
                                               [] ondemand[n] # None -> ondemand[n]
                                               [] OTHER -> archive[n]]]
    /\ UNCHANGED <<archive, dates, data, savedIndex, scan, page, savedPage, changes, reboots>>

BuildPage == \/ Build({}) /\ UNCHANGED faults
             \/ \E n \in Unknown : Build({n}) /\ Fault

StorePage ==
    /\ refresh.step = "built"
    /\ page' = [state |-> "fresh", rows |-> refresh.rows]
    /\ savedPage' = page'
    /\ refresh' = [step |-> "none", rows |-> Nothing]
    /\ UNCHANGED <<archive, indexVars, scan, changes, faults, reboots>>

\* The sixty seconds of the whole build are over, or it raised: the old page stays.
BuildTimesOut ==
    /\ refresh.step = "building" /\ Fault
    /\ refresh' = [step |-> "none", rows |-> Nothing]
    /\ UNCHANGED <<archive, indexVars, scan, page, savedPage, changes, reboots>>

\* nights_full_ttl
PageExpires ==
    /\ page.state = "fresh"
    /\ page' = [page EXCEPT !.state = "stale"]
    /\ UNCHANGED <<archive, indexVars, scan, savedPage, refresh, changes, faults, reboots>>

\* The dashboard restarts and loads what it had saved, pages with their age.
DashboardReloads ==
    /\ reboots < MaxRestarts
    /\ reboots' = reboots + 1
    /\ dates' = savedIndex.dates /\ data' = Hot(savedIndex.data)
    /\ ondemand' = [n \in Nights |-> None]
    /\ scan' = [t \in ScanThreads |-> Asleep]
    /\ page' \in {savedPage, [savedPage EXCEPT !.state = IF @ = "none" THEN @ ELSE "stale"]}
    /\ refresh' = [step |-> "none", rows |-> Nothing]
    /\ UNCHANGED <<archive, savedIndex, savedPage, changes, faults>>

------------------------------------------------------------------------------
Publish(t) == BuildFull(t) \/ RefreshRecent(t)

ArchiveNext ==
    \/ \E n \in Nights : ArchiveChanges(n) \/ OnDemandExpires(n)
    \/ \E t \in ScanThreads : (\E round \in Rounds(t) : Scan(t, round)) \/ Publish(t)
    \/ View \/ BuildPage \/ StorePage \/ BuildTimesOut \/ PageExpires
    \/ DashboardReloads

\* The threads run, every round of the refresher comes again, time passes, and viewers
\* come back.
ArchiveFairness ==
    /\ \A t \in ScanThreads : WF_archiveVars(Publish(t))
    /\ WF_archiveVars(Scan("prewarm", "full"))
    /\ \A round \in Rounds("refresher") : SF_archiveVars(Scan("refresher", round))
    /\ \A n \in Nights : WF_archiveVars(OnDemandExpires(n))
    /\ WF_archiveVars(View) /\ WF_archiveVars(BuildPage) /\ WF_archiveVars(StorePage)
    /\ WF_archiveVars(PageExpires)

ArchiveSpec == ArchiveInit /\ [][ArchiveNext]_archiveVars /\ ArchiveFairness

------------------------------------------------------------------------------
ArchiveTypeOK ==
    /\ archive \in Listing
    /\ dates \in SUBSET Nights /\ data \in Listing
    /\ ondemand \in [Nights -> Versions \cup {None}]
    /\ savedIndex \in [dates: SUBSET Nights, data: Listing]
    /\ scan \in [ScanThreads -> [step: {"asleep", "full", "recent", "over"}, seen: Listing]]
    /\ page \in [state: {"none", "fresh", "stale"}, rows: Listing]
    /\ savedPage \in [state: {"none", "fresh", "stale"}, rows: Listing]
    /\ refresh \in [step: {"none", "building", "built"}, rows: Listing]
    /\ changes \in 0..MaxChanges /\ faults \in 0..MaxFaults /\ reboots \in 0..MaxRestarts

\* Once the archive rests and its reads succeed, the page that viewers get is in the end
\* the archive, whatever was uploaded or deleted, scanned in part, cached or loaded from
\* disk before (build_full, refresh_recent, night_files, _refresh_nights_full).
PageCatchesUp == <>[](page.rows = archive)

==============================================================================
