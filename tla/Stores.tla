--------------------------------- MODULE Stores --------------------------------
(***************************************************************************)
(* The stores that several threads, processes or requests work on at once: *)
(* the guard of the pushed seqs, the account and key files, the files of a *)
(* night, the thumbnail cache and the compilations, the dashboard's other  *)
(* caches, streams and pollers, and the jobs that look after a station and *)
(* its archive.  They share no state; a behaviour picks one of them and is *)
(* one of that part.                                                       *)
(***************************************************************************)
EXTENDS Sequences, RedisSeqBump, ThumbCache, Compilations

\* The constants of the parts; Requests, of ThumbCache, is that of every part with requests.
CONSTANTS
    \* Registries, GmnMonth
    Threads, ProcOf(_), Rows, ReadMayFail, MaxWrites,
    MonthInodes, MaxNews, MaxExpiries,
    \* NightCapture
    Chunks, MaxFaults, MaxDeaths,
    \* StationUpdate
    UpdaterRuns, MaxVersion, MaxPatches, MaxTroubles,
    \* Tunnels
    Jumps, Procs, MaxStreak,
    \* StorageRetention
    N, RetentionCams, CamOf(_), Time(_), Mag(_), Dur(_), Confirmed, Window, BrightPct,
    LongPct, Cap, MaxPushes,
    \* NightlyPost
    PostRuns, PostStations, Cams, CamStation(_), Chats, MaxKills,
    \* ClipCache
    Inodes,
    \* RemuxCache
    Clips, RemuxSlots, MaxBytes,
    \* SkyDome
    MuteThreshold, MaxFrames,
    \* LiveStreams, FocusStreams
    Viewers, UserOf(_), Streams, DashGlobal, PerCam, Global, MaxLost, Ips, Objects, MaxStreams,
    \* MediaJobs
    Workers, StitchSlots,
    \* BatchDownload
    Files, Sizes, PerFile, Total,
    \* GmnPoller
    Dates, Recent, MaxInjects,
    \* DetectionGrid
    GridCams, GridStationOf(_), GridWindow, Day, Merge, Match, Bucket, MaxWindow,
    MaxDetections,
    \* SettingsCache
    Readers, Patches, Copies,
    \* SwrCache
    Refreshers, MaxNights

VARIABLES
    part,
    \* Registries
    kind, file, tmp, holder, cache, thread, acked, repo,
    \* NightCapture
    hour, day, capture, diskLow, chunk, watcher, events, ready, stacked, queue, stacking,
    dawn, todo, outcome, timelapse, failed, lost, troubles, deaths,
    \* StationUpdate
    bundle, dir, bak, bakNew, run, patch, service, mishaps, accepted, torn,
    \* Tunnels
    way, alive, open, tunnel, pending, streak, backoff, establisher, closed, doubled,
    \* StorageRetention
    old, mkv, onBox, station, pushes, step, apply, gmn, toScan, seen, left, removed, hand,
    moved, wronged,
    \* NightlyPost
    rows, heard, postRun, groups, marker, triedChats, got, kills, overlapped,
    \* ClipCache
    upstream, content, cached, clipTmp, clipRequest, shared,
    \* RemuxCache
    remuxes, older, remuxRequest, stale,
    \* SkyDome
    sun, png, fresh, domeRequest, renamed, sched, lastSun, failures, muted, frames, mp4,
    tried, cut,
    \* LiveStreams
    viewer, stream, triple, dashGlobal, perCam, global, ffmpeg, thrown,
    \* MediaJobs
    mediaRequest, mediaQueue, running, waited, result, slots, files, late, leaked,
    \* BatchDownload
    fetch, wrote, counted, used, zip, zipDir, sent, dropped,
    \* FocusStreams
    focusViewer, pool, idle, focusRunning, clients, focusFfmpeg, reader, raced,
    \* GmnMonth
    clock, published, data, name, mtime, monthFresh, monthFetch, counts, count, expiries,
    crossed, hidden,
    \* GmnPoller
    gmnCache, pinned, poller, retry, passDone, gmnRequest, injected, over,
    \* DetectionGrid
    detected,
    \* SettingsCache
    config, saved, copy, entry, inflight, patcher, page, get, staleCopy, crossedPatch,
    phantom, lateAnswer,
    \* SwrCache
    nights, swr, swrFresh, swrInflight, worker, newest, swrDoubled

Registry == INSTANCE Registries
Night == INSTANCE NightCapture
Update == INSTANCE StationUpdate WITH
    Runs <- UpdaterRuns, troubles <- mishaps
Tunnel == INSTANCE Tunnels WITH
    thread <- establisher
Retention == INSTANCE StorageRetention WITH
    Cams <- RetentionCams, box <- onBox
Post == INSTANCE NightlyPost WITH
    Runs <- PostRuns, Stations <- PostStations, StationOf <- CamStation,
    run <- postRun, tried <- triedChats
Clip == INSTANCE ClipCache WITH
    tmp <- clipTmp, request <- clipRequest
Remux == INSTANCE RemuxCache WITH
    Slots <- RemuxSlots, cache <- remuxes, request <- remuxRequest
Dome == INSTANCE SkyDome WITH
    request <- domeRequest
Live == INSTANCE LiveStreams WITH
    lost <- thrown
Media == INSTANCE MediaJobs WITH
    request <- mediaRequest, queue <- mediaQueue
Batch == INSTANCE BatchDownload WITH
    dir <- zipDir
Focus == INSTANCE FocusStreams WITH
    viewer <- focusViewer, running <- focusRunning, ffmpeg <- focusFfmpeg
Month == INSTANCE GmnMonth WITH
    Inodes <- MonthInodes, fresh <- monthFresh, upstream <- published, fetch <- monthFetch
Poller == INSTANCE GmnPoller WITH
    cache <- gmnCache, done <- passDone, request <- gmnRequest
Grid == INSTANCE DetectionGrid WITH
    Cams <- GridCams, StationOf <- GridStationOf, Window <- GridWindow,
    night <- detected
Settings == INSTANCE SettingsCache WITH
    file <- config, acked <- saved, thread <- patcher, stale <- staleCopy,
    crossed <- crossedPatch, late <- lateAnswer
Swr == INSTANCE SwrCache WITH
    cache <- swr, fresh <- swrFresh, inflight <- swrInflight, doubled <- swrDoubled

------------------------------------------------------------------------------
(* What the constants have to be, part by part: bounds are numbers, what is *)
(* counted is finite, the names of nothing are not taken.                   *)

\* Registries, NightCapture
ASSUME RowsAssumption == Rows # {}
ASSUME NightAssumption == MaxFaults \in Nat /\ MaxDeaths \in Nat

\* StationUpdate, Tunnels, StorageRetention, NightlyPost
ASSUME UpdateAssumption == MaxVersion \in Nat /\ MaxTroubles \in Nat
ASSUME JumpsAssumption == Len(Jumps) \in Nat
ASSUME ProcsAssumption == "none" \notin Procs
ASSUME MaxStreakAssumption == MaxStreak \in Nat \ {0}
ASSUME RetentionAssumption ==
    /\ N \in Nat /\ MaxPushes \in Nat /\ Window \in Nat
    /\ BrightPct \in 0..100 /\ LongPct \in 0..100
    /\ \A c \in 1..N : CamOf(c) \in RetentionCams /\ Time(c) \in Int /\ Mag(c) \in Int /\ Dur(c) \in Int
    /\ \A c, d \in 1..N : c <= d => Time(c) <= Time(d)
ASSUME CamStationAssumption == \A c \in Cams : CamStation(c) \in PostStations
ASSUME MaxKillsAssumption == MaxKills \in Nat

\* ClipCache, RemuxCache, SkyDome
ASSUME InodesAssumption == "none" \notin Inodes
ASSUME RemuxAssumption ==
    /\ IsFiniteSet(Clips) /\ IsFiniteSet(Requests) /\ RemuxSlots \in Nat /\ MaxBytes \in Nat \ {0}
ASSUME DomeAssumption == MuteThreshold \in Nat \ {0} /\ MaxFrames \in Nat

\* LiveStreams, MediaJobs, BatchDownload, FocusStreams
ASSUME LiveAssumption ==
    /\ IsFiniteSet(Viewers) /\ IsFiniteSet(Streams) /\ "none" \notin Streams
    /\ DashGlobal \in Nat /\ PerCam \in Nat /\ Global \in Nat /\ MaxLost \in Nat
ASSUME MediaAssumption == IsFiniteSet(Requests) /\ Workers \in Nat /\ StitchSlots \in Nat
ASSUME BatchAssumption ==
    IsFiniteSet(Files) /\ Sizes \in [Files -> Nat] /\ PerFile \in Nat /\ Total \in Nat
ASSUME FocusAssumption ==
    /\ IsFiniteSet(Viewers) /\ IsFiniteSet(Objects) /\ Focus!NoObject \notin Objects
    /\ MaxStreams \in Nat

\* GmnMonth: news begin at 1, and whoever opens the temporary file finds a free inode.
ASSUME MonthAssumption ==
    /\ MaxNews \in Nat \ {0} /\ MaxExpiries \in Nat /\ 0 \notin MonthInodes
    /\ \A i \in MonthInodes \cup {0}, f \in [Threads -> MonthInodes \cup {0}] :
         (\E t \in Threads : f[t] = 0) => \E j \in MonthInodes : j # i /\ \A t \in Threads : f[t] # j

\* GmnPoller, DetectionGrid
ASSUME DatesAssumption == Dates \subseteq Nat /\ Recent \subseteq Dates
ASSUME GridAssumption ==
    /\ Day \in Nat \ {0} /\ MaxDetections \in Nat /\ GridWindow \in Nat
    /\ Bucket \in Nat \ {0} /\ MaxWindow \in 1..(Day - 1)

\* SettingsCache: whoever reads the settings finds room for another copy of them.
ASSUME ReadersAssumption == Readers \cap Patches = {} /\ "nobody" \notin Readers \cup Patches
ASSUME CopiesAssumption ==
    /\ "none" \notin Copies /\ Copies # {}
    /\ \A f \in [Readers \cup Patches -> Copies] :
         \E c \in Copies : \A t \in Readers \cup Patches : f[t] # c

\* SwrCache
ASSUME NightsAssumption == MaxNights \in Nat \ {0}
ASSUME RefreshersAssumption == Requests \cap Refreshers = {}

------------------------------------------------------------------------------
registryVars ==
    <<kind, file, tmp, holder, cache, thread, acked, repo>>
nightVars ==
    <<hour, day, capture, diskLow, chunk, watcher, events, ready, stacked, queue,
      stacking, dawn, todo, outcome, timelapse, failed, lost, troubles, deaths>>
updateVars ==
    <<bundle, dir, bak, bakNew, run, patch, service, mishaps, accepted, torn>>
tunnelsVars ==
    <<way, alive, open, tunnel, pending, streak, backoff, establisher, closed, doubled>>
retentionVars ==
    <<old, mkv, onBox, station, pushes, step, apply, gmn, toScan, seen, left, removed, hand,
      moved, wronged>>
postVars ==
    <<rows, heard, postRun, groups, marker, triedChats, got, kills, overlapped>>
clipsVars ==
    <<upstream, content, cached, clipTmp, clipRequest, shared>>
remuxesVars ==
    <<remuxes, older, remuxRequest, stale>>
domeVars ==
    <<sun, png, fresh, domeRequest, renamed, sched, lastSun, failures, muted, frames, mp4,
      tried, cut>>
liveVars ==
    <<viewer, stream, triple, dashGlobal, perCam, global, ffmpeg, thrown>>
mediaVars ==
    <<mediaRequest, mediaQueue, running, waited, result, slots, files, late, leaked>>
batchVars ==
    <<fetch, wrote, counted, used, zip, zipDir, sent, dropped>>
focusVars ==
    <<focusViewer, pool, idle, focusRunning, clients, focusFfmpeg, reader, raced>>
monthVars ==
    <<clock, published, data, name, mtime, monthFresh, monthFetch, counts, count, expiries,
      crossed, hidden>>
pollerVars ==
    <<gmnCache, pinned, poller, retry, passDone, gmnRequest, injected, over>>
gridVars ==
    <<detected>>
settingsVars ==
    <<config, saved, copy, entry, inflight, patcher, page, get, staleCopy, crossedPatch,
      phantom, lateAnswer>>
swrVars ==
    <<nights, swr, swrFresh, swrInflight, worker, newest, swrDoubled>>
storesVars ==
    <<part, vars, thumbVars, compilationVars, registryVars, nightVars, updateVars,
      tunnelsVars, retentionVars, postVars, clipsVars, remuxesVars, domeVars, liveVars,
      mediaVars, batchVars, focusVars, monthVars, pollerVars, gridVars, settingsVars,
      swrVars>>

Parts ==
    {"redis", "thumb", "compile", "registry", "night", "update", "tunnels", "retention",
     "post", "clips", "remuxes", "dome", "live", "media", "batch", "focus", "month",
     "poller", "grid", "settings", "swr"}

AnyStation == CHOOSE h \in Stations : TRUE

\* A part that is not picked has one initial state.
StoresInit ==
    /\ part \in Parts
    /\ Init /\ (part = "redis" \/ call = [p \in Handlers |-> [station |-> AnyStation, seq |-> 0]])
    /\ ThumbInit /\ CompilationInit
    /\ Registry!RegistryInit /\ (part = "registry" \/ kind = "users") /\ Night!CaptureInit
    /\ Update!UpdateInit /\ Tunnel!TunnelsInit /\ Retention!RetentionInit /\ Post!PostInit
    /\ Clip!ClipCacheInit /\ Remux!RemuxInit /\ Dome!SkyDomeInit /\ Live!LiveInit
    /\ Media!MediaInit /\ Batch!BatchInit /\ Focus!FocusInit /\ Month!MonthInit
    /\ Poller!PollerInit /\ Grid!GridInit /\ Settings!SettingsInit /\ Swr!SwrInit

\* A step of part p leaves the others alone.
Rest(p) ==
    /\ UNCHANGED part
    /\ IF p = "redis"     THEN TRUE ELSE UNCHANGED vars
    /\ IF p = "thumb"     THEN TRUE ELSE UNCHANGED thumbVars
    /\ IF p = "compile"   THEN TRUE ELSE UNCHANGED compilationVars
    /\ IF p = "registry"  THEN TRUE ELSE UNCHANGED registryVars
    /\ IF p = "night"     THEN TRUE ELSE UNCHANGED nightVars
    /\ IF p = "update"    THEN TRUE ELSE UNCHANGED updateVars
    /\ IF p = "tunnels"   THEN TRUE ELSE UNCHANGED tunnelsVars
    /\ IF p = "retention" THEN TRUE ELSE UNCHANGED retentionVars
    /\ IF p = "post"      THEN TRUE ELSE UNCHANGED postVars
    /\ IF p = "clips"     THEN TRUE ELSE UNCHANGED clipsVars
    /\ IF p = "remuxes"   THEN TRUE ELSE UNCHANGED remuxesVars
    /\ IF p = "dome"      THEN TRUE ELSE UNCHANGED domeVars
    /\ IF p = "live"      THEN TRUE ELSE UNCHANGED liveVars
    /\ IF p = "media"     THEN TRUE ELSE UNCHANGED mediaVars
    /\ IF p = "batch"     THEN TRUE ELSE UNCHANGED batchVars
    /\ IF p = "focus"     THEN TRUE ELSE UNCHANGED focusVars
    /\ IF p = "month"     THEN TRUE ELSE UNCHANGED monthVars
    /\ IF p = "poller"    THEN TRUE ELSE UNCHANGED pollerVars
    /\ IF p = "grid"      THEN TRUE ELSE UNCHANGED gridVars
    /\ IF p = "settings"  THEN TRUE ELSE UNCHANGED settingsVars
    /\ IF p = "swr"       THEN TRUE ELSE UNCHANGED swrVars

StoresNext ==
    \/ part = "redis"     /\ Next                     /\ Rest("redis")
    \/ part = "thumb"     /\ ThumbNext                /\ Rest("thumb")
    \/ part = "compile"   /\ CompilationNext          /\ Rest("compile")
    \/ part = "registry"  /\ Registry!RegistryNext    /\ Rest("registry")
    \/ part = "night"     /\ Night!CaptureNext        /\ Rest("night")
    \/ part = "update"    /\ Update!UpdateNext        /\ Rest("update")
    \/ part = "tunnels"   /\ Tunnel!TunnelsNext       /\ Rest("tunnels")
    \/ part = "retention" /\ Retention!RetentionNext  /\ Rest("retention")
    \/ part = "post"      /\ Post!PostNext            /\ Rest("post")
    \/ part = "clips"     /\ Clip!ClipCacheNext       /\ Rest("clips")
    \/ part = "remuxes"   /\ Remux!RemuxNext          /\ Rest("remuxes")
    \/ part = "dome"      /\ Dome!SkyDomeNext         /\ Rest("dome")
    \/ part = "live"      /\ Live!LiveNext            /\ Rest("live")
    \/ part = "media"     /\ Media!MediaNext          /\ Rest("media")
    \/ part = "batch"     /\ Batch!BatchNext          /\ Rest("batch")
    \/ part = "focus"     /\ Focus!FocusNext          /\ Rest("focus")
    \/ part = "month"     /\ Month!MonthNext          /\ Rest("month")
    \/ part = "poller"    /\ Poller!PollerNext        /\ Rest("poller")
    \/ part = "grid"      /\ Grid!GridNext            /\ Rest("grid")
    \/ part = "settings"  /\ Settings!SettingsNext    /\ Rest("settings")
    \/ part = "swr"       /\ Swr!SwrNext              /\ Rest("swr")

StoresSpec == StoresInit /\ [][StoresNext]_storesVars

------------------------------------------------------------------------------
\* Every part keeps to its types (seq_bump, auth and the key stores, the thumbnail cache,
\* compilations, color_capture, dawn_process and the other parts).
StoresTypeOK ==
    /\ part \in Parts
    /\ part = "redis"     => TypeOK
    /\ part = "thumb"     => ThumbTypeOK
    /\ part = "compile"   => CompilationTypeOK
    /\ part = "registry"  => Registry!RegistryTypeOK
    /\ part = "night"     => Night!CaptureTypeOK
    /\ part = "update"    => Update!UpdateTypeOK
    /\ part = "tunnels"   => Tunnel!TunnelsTypeOK
    /\ part = "retention" => Retention!RetentionTypeOK
    /\ part = "post"      => Post!PostTypeOK
    /\ part = "clips"     => Clip!ClipCacheTypeOK
    /\ part = "remuxes"   => Remux!RemuxTypeOK
    /\ part = "dome"      => Dome!SkyDomeTypeOK
    /\ part = "live"      => Live!LiveTypeOK
    /\ part = "media"     => Media!MediaTypeOK
    /\ part = "batch"     => Batch!BatchTypeOK
    /\ part = "focus"     => Focus!FocusTypeOK
    /\ part = "month"     => Month!MonthTypeOK
    /\ part = "poller"    => Poller!PollerTypeOK
    /\ part = "grid"      => Grid!GridTypeOK
    /\ part = "settings"  => Settings!SettingsTypeOK
    /\ part = "swr"       => Swr!SwrTypeOK

\* Every successful change of an account or key is in its file (auth, api_keys, station_keys).
NoChangeIsLost == Registry!NoChangeIsLost

\* The morning makes up for what the night lost (dawn_process).
MorningCatchesUp == Night!MorningCatchesUp

\* Between two updates a station has one version of the scripts, all of them, and every setting
\* that was acknowledged; but for a station whose update was cut off or could not be undone
\* (updater.sh, config_migrate).
StationIsWhole == part = "update" => Update!QuietStationIsWhole

\* However connections fail and whichever thread of the tunnels ends, no ssh is forgotten, and
\* one at most where start_all and the watchdog open at once (tunnels.py); not claimed once a
\* failure has overflowed its own backoff, nor after shutdown.
FewOrphanSsh == part = "tunnels" => Tunnel!FewOrphanSsh

\* The storage-box pass removes no video that its policy keeps, whatever it could not read,
\* but such as its walk over the partners of a clip passes over (storagebox_janitor).
OnlyPassedOverGo == part = "retention" => Retention!OnlyPassedOverGo

\* A night that is marked as posted was sent to every chat; to one twice only by a forced run,
\* after a kill or by two runs at a time; and no camera is called offline beside one of its
\* station that has detections (nightly_telegram).
PostedOnce == part = "post" => Post!PostedOnce

\* A cached clip is one version from beginning to end, unless two requests wrote it at a time
\* (api_cached_video).
CachedIsWhole == part = "clips" => Clip!CachedIsWhole

\* Budgets that several writers share hold: the bytes of the remuxed clips and those of the
\* directory of a ZIP, which holds whole clips only (public_api, media).
BudgetsHold ==
    /\ part = "remuxes" => Remux!WithinBudget
    /\ part = "batch"   => Batch!BatchIsBounded

\* On every way out slots, ffmpeg processes and temporary files are given back, but for those
\* of answers thrown away before their first frame and of jobs that outlast their request; of
\* the streams of the camera focus only as long as none was stopped or room made for one
\* while another was handed out (live streams, media, camera_focus).
NothingLeaks ==
    /\ part = "live"  => Live!SlotsComeBack
    /\ part = "media" => Media!TmpFilesGo
    /\ part = "focus" => Focus!PoolOwnsFfmpeg

\* A dawn that the scheduler counts as seen was one whose timelapse it has begun, and a dome
\* picture is torn only by a request that is writing it or was cut off doing so (sky_dome).
DomesAreBuilt == part = "dome" => Dome!DomeIsWhole /\ Dome!DawnIsBuilt

\* What is newer is not replaced by what is older: the month file and the counts kept under its
\* time, an injected event, an acknowledged setting and the shown list of timelapses; with the
\* exceptions each of the four names (gmn_data, gmn_poller, station_api, station_proxy).
NewerStays ==
    /\ part = "month"    => Month!MonthIsSound
    /\ part = "poller"   => Poller!PinsSurvive
    /\ part = "settings" => Settings!ChangesStay
    /\ part = "swr"      => Swr!SwrGoesForward

\* The Detections page and the public list show each event once, with a witness of every camera
\* it has, in its window and to whom it may be shown (detections, public_api).
EventsAreTrue ==
    part = "grid" => Grid!EventsAreTrue /\ Grid!WindowIsTrue /\ Grid!PublicListIsTrue

==============================================================================
