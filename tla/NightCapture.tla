---------------------------- MODULE NightCapture ----------------------------
(***************************************************************************)
(* One camera's night: color_capture records segments while RMS writes FF  *)
(* files, its inotify watcher marks closed ones ready and queues them for  *)
(* a stacker; in the morning dawn_process stacks what is missing, builds   *)
(* the timelapse, or defers it to one of the next mornings.                *)
(***************************************************************************)
EXTENDS Integers, FiniteSets, Sequences

CONSTANTS
    Chunks,             \* bound: the segments of the night
    MaxFaults,          \* bound: failures of stackers, watchers and builds
    MaxDeaths           \* bound: ffmpeg processes that end or stall

VARIABLES
    hour,               \* "night", "morning", "late" (11:00 UTC), "day"
    day,                \* mornings since the night
    capture,            \* of the camera: "off", "on", "dead", "paused"
    diskLow,
    chunk,              \* "none", "open", "closed"
    watcher,            \* the chunk-ready watcher: "up", "down"
    events,             \* closed chunks it has not handled yet
    ready, stacked,     \* state.json
    queue, stacking,    \* the stacker queue, and what its worker is at
    dawn, todo,         \* the dawn process's phase, and the chunks left in it
    outcome,            \* of the morning: "none", "whole", or "cut" by the deadline
    timelapse,          \* "none", "deferred", "done"
    failed,             \* history: chunks whose stacking failed in the last pass
    lost,               \* history: chunks whose event or place was lost after the night
    troubles, deaths

captureVars == <<capture, diskLow, chunk, deaths, lost>>
stationVars == <<watcher, ready, stacked, queue, stacking>>
dawnVars == <<dawn, todo, outcome, timelapse, failed>>
nightVars == <<hour, day, captureVars, events, stationVars, dawnVars, troubles>>

CaptureInit ==
    /\ hour = "night" /\ day = 0
    /\ capture = "off" /\ diskLow = FALSE /\ deaths = 0 /\ lost = {}
    /\ chunk = [c \in Chunks |-> "none"]
    /\ watcher = "up" /\ events = {} /\ ready = {} /\ stacked = {}
    /\ queue = <<>> /\ stacking = {}
    /\ dawn = "idle" /\ todo = {} /\ outcome = "none" /\ timelapse = "none" /\ failed = {}
    /\ troubles = 0

OnDisk == {c \in Chunks : chunk[c] # "none"}
Open == {c \in Chunks : chunk[c] = "open"}
Trouble == troubles < MaxFaults /\ troubles' = troubles + 1

------------------------------------------------------------------------------
(* Recording: _watch_ff_files, _start_ffmpeg, _stop_ffmpeg, _check_ffmpeg_health. *)

Lost(chunks) == lost' = IF hour = "night" THEN lost ELSE lost \cup chunks

Closed == chunk' = [c \in Chunks |-> IF c \in Open THEN "closed" ELSE chunk[c]]

\* The segment that is open is closed, which a running watcher sees.
CloseOpen ==
    /\ Closed
    /\ IF watcher = "up" THEN events' = events \cup Open /\ Lost({})
                         ELSE Lost(Open) /\ UNCHANGED events

\* An FF file is written while nothing records, or the daemon finds its ffmpeg dead or the
\* disk recovered: recording starts, or is paused for want of space.
StartFfmpeg ==
    /\ \/ hour = "night" /\ capture = "off"
       \/ capture = "dead"
       \/ capture = "paused" /\ ~diskLow
    /\ capture' = IF diskLow THEN "paused" ELSE "on"
    /\ UNCHANGED <<hour, day, diskLow, chunk, deaths, lost, events, stationVars, dawnVars, troubles>>

OpenSegment(c) ==
    /\ capture = "on" /\ Open = {} /\ chunk[c] = "none"
    /\ chunk' = [chunk EXCEPT ![c] = "open"]
    /\ UNCHANGED <<hour, day, capture, diskLow, deaths, lost, events, stationVars, dawnVars, troubles>>

CloseSegment ==
    /\ capture = "on" /\ Open # {}
    /\ CloseOpen
    /\ UNCHANGED <<hour, day, capture, diskLow, deaths, stationVars, dawnVars, troubles>>

\* ffmpeg exits, or is stopped because its newest segment is too old.
FfmpegEnds ==
    /\ capture = "on" /\ deaths < MaxDeaths
    /\ deaths' = deaths + 1
    /\ capture' = "dead"
    /\ CloseOpen
    /\ UNCHANGED <<hour, day, diskLow, stationVars, dawnVars, troubles>>

\* No FF file for half an hour.
IdleStop ==
    /\ hour # "night" /\ capture = "on"
    /\ capture' = "off"
    /\ CloseOpen
    /\ UNCHANGED <<hour, day, diskLow, deaths, stationVars, dawnVars, troubles>>

\* The disk fills up, once, and recovers.
DiskChanges ==
    /\ diskLow \/ deaths < MaxDeaths
    /\ diskLow' = ~diskLow
    /\ UNCHANGED <<hour, day, capture, chunk, deaths, lost, events, stationVars, dawnVars, troubles>>

------------------------------------------------------------------------------
(* The chunk-ready watcher and the stacker worker.                          *)

Waiting == stacking \cup {queue[i] : i \in DOMAIN queue}

\* mark_ready, then a dawn process that still runs is killed, then the chunk is queued
\* unless it is already.
HandleClosed(c) ==
    /\ watcher = "up" /\ c \in events
    /\ events' = events \ {c}
    /\ ready' = ready \cup {c}
    /\ dawn' = "idle" /\ todo' = {}
    /\ queue' = IF c \in Waiting THEN queue ELSE Append(queue, c)
    /\ UNCHANGED <<hour, day, captureVars, watcher, stacked, stacking,
                   outcome, timelapse, failed, troubles>>

\* A burst of events or an I/O stall breaks the watcher; what closes before it is up again,
\* and what it had not handled, it never sees.
WatcherCrashes ==
    /\ watcher = "up" /\ Trouble
    /\ watcher' = "down" /\ events' = {} /\ Lost(events)
    /\ UNCHANGED <<hour, day, capture, diskLow, chunk, deaths, ready, stacked, queue, stacking, dawnVars>>

WatcherRestarts ==
    /\ watcher = "down"
    /\ watcher' = "up"
    /\ UNCHANGED <<hour, day, captureVars, events, ready, stacked, queue, stacking, dawnVars,
                   troubles>>

WorkerTakes ==
    /\ stacking = {} /\ queue # <<>>
    /\ stacking' = {Head(queue)} /\ queue' = Tail(queue)
    /\ UNCHANGED <<hour, day, captureVars, events, watcher, ready, stacked, dawnVars, troubles>>

\* stacker.py --chunk: nothing to do if it is stacked; it fails, or takes more than two
\* minutes and is killed.
WorkerDone ==
    /\ stacking # {}
    /\ \/ stacked' = stacked \cup stacking /\ Lost({}) /\ UNCHANGED troubles
       \/ Trouble /\ Lost(stacking) /\ UNCHANGED stacked
    /\ stacking' = {}
    /\ UNCHANGED <<hour, day, capture, diskLow, chunk, deaths, events, watcher, ready, queue, dawnVars>>

\* The daemon is restarted: ffmpeg is stopped, the queue is forgotten.
DaemonRestarts ==
    /\ Trouble
    /\ capture' = "off" /\ Closed
    /\ events' = {} /\ watcher' = "up" /\ Lost(events \cup Open \cup Waiting)
    /\ queue' = <<>> /\ stacking' = {}
    /\ UNCHANGED <<hour, day, diskLow, deaths, ready, stacked, dawnVars>>

------------------------------------------------------------------------------
(* dawn_process: a cron job every fifteen minutes between four and eleven.   *)

\* RMS writes no more FF files and is through with the night, which it may be before the
\* recording has been idle for half an hour.
MorningComes ==
    /\ hour = "night"
    /\ hour' = "morning"
    /\ UNCHANGED <<day, captureVars, events, stationVars, dawnVars, troubles>>

Phase(next, chunks) == dawn' = next /\ todo' = chunks

\* Faulty variant: no chunk whose event was lost is made ready.
NoReconcile == ready

\* _reconcile_ready: what is on the disk and not ready.
Reconciled == ready \cup OnDisk

Unstacked == OnDisk \ stacked

DawnStart ==
    /\ hour = "morning" /\ day = 0 /\ dawn = "idle" /\ outcome = "none"
    /\ ready' = Reconciled
    /\ Phase("stack", Unstacked)
    /\ UNCHANGED <<hour, day, captureVars, events, watcher, stacked, queue, stacking,
                   outcome, timelapse, failed, troubles>>

\* stacker.process_night: the pending chunks that are ready; ffmpeg or the disk may fail.
StackOne(c) ==
    /\ dawn \in {"stack", "restack", "final"} /\ c \in todo
    /\ todo' = todo \ {c}
    /\ \/ stacked' = (IF c \in ready THEN stacked \cup {c} ELSE stacked) /\ UNCHANGED <<failed, troubles>>
       \/ Trouble /\ failed' = (IF dawn = "final" THEN failed \cup {c} ELSE failed) /\ UNCHANGED stacked
    /\ UNCHANGED <<hour, day, captureVars, events, watcher, ready, queue, stacking, dawn,
                   outcome, timelapse>>

DawnMoves(from, next, chunks) ==
    /\ dawn = from /\ todo = {}
    /\ Phase(next, chunks)
    /\ UNCHANGED <<hour, day, captureVars, events, stationVars, outcome, failed, troubles>>

\* After phase 1 the deadline leaves out the phases that can wait.
Verify == hour # "late" /\ DawnMoves("stack", "restack", Unstacked) /\ UNCHANGED timelapse
SkipOptional == hour = "late" /\ DawnMoves("stack", "clips", {}) /\ UNCHANGED timelapse
StartTimelapse == DawnMoves("restack", "timelapse", {}) /\ UNCHANGED timelapse

\* _stack_coverage below 85 %.
Sparse == LET missing == ready \ stacked IN
          100 * (Cardinality(ready) - Cardinality(missing)) < 85 * Cardinality(ready)

\* timelapse_build.build; ffmpeg may fail, and then nothing is marked.
BuildTimelapse == \/ timelapse' = "done" /\ UNCHANGED troubles
                  \/ Trouble /\ UNCHANGED timelapse

\* _run_timelapse_all
RunTimelapse ==
    /\ dawn = "timelapse"
    /\ Phase("clips", {})
    /\ CASE timelapse = "done" -> UNCHANGED <<timelapse, troubles>>
         [] timelapse # "done" /\ Sparse -> timelapse' = "deferred" /\ UNCHANGED troubles
         [] OTHER -> BuildTimelapse
    /\ UNCHANGED <<hour, day, captureVars, events, stationVars, outcome, failed>>

\* Phases 4 and 5 are those of ClipRetention; then a last pass over the stacks, or none.
StartFinal == hour # "late" /\ DawnMoves("clips", "final", Unstacked) /\ UNCHANGED timelapse

\* mark_morning_done
DawnDone ==
    /\ todo = {}
    /\ dawn = "final" \/ (dawn = "clips" /\ hour = "late")
    /\ outcome' = IF dawn = "final" THEN "whole" ELSE "cut"
    /\ Phase("idle", {})
    /\ UNCHANGED <<hour, day, captureVars, events, stationVars, timelapse, failed, troubles>>

\* Eleven o'clock, and then the daily reboot ends whatever runs.
DeadlinePasses ==
    /\ hour = "morning" /\ day = 0
    /\ hour' = "late"
    /\ UNCHANGED <<day, captureVars, events, stationVars, dawnVars, troubles>>

DayComes ==
    /\ hour \in {"morning", "late"} /\ day = 0
    /\ hour = "morning" => dawn = "idle" /\ outcome # "none"
    /\ hour' = "day"
    /\ outcome' = IF outcome = "none" THEN "cut" ELSE outcome
    /\ Phase("idle", {})
    /\ capture' = "off" /\ Closed
    /\ queue' = <<>> /\ stacking' = {} /\ events' = {} /\ Lost(events \cup Open \cup Waiting)
    /\ UNCHANGED <<day, diskLow, deaths, watcher, ready, stacked, timelapse,
                   failed, troubles>>

NextMorning ==
    /\ hour = "day" /\ day < 3
    /\ hour' = "morning" /\ day' = day + 1
    /\ UNCHANGED <<captureVars, events, stationVars, dawnVars, troubles>>

\* _retry_deferred_timelapses: built anyway from the second day on (day counts from the
\* night's own morning, which is the sweep's first day).
RetryWorth == ~Sparse \/ day >= 1

RetryTimelapse ==
    /\ hour = "morning" /\ timelapse = "deferred" /\ dawn = "idle" /\ day <= 2
    /\ RetryWorth
    /\ BuildTimelapse
    /\ UNCHANGED <<hour, day, captureVars, events, stationVars, dawn, todo, outcome, failed>>

\* A morning without success.
MorningPasses ==
    /\ hour = "morning" /\ day > 0
    /\ timelapse # "deferred" \/ ~RetryWorth \/ day > 2
    /\ hour' = "day"
    /\ UNCHANGED <<day, captureVars, events, stationVars, dawnVars, troubles>>

------------------------------------------------------------------------------
Recording == StartFfmpeg \/ CloseSegment \/ FfmpegEnds \/ IdleStop \/ DiskChanges
             \/ \E c \in Chunks : OpenSegment(c)
Stacking == WatcherCrashes \/ WatcherRestarts \/ WorkerTakes \/ WorkerDone \/ DaemonRestarts
            \/ \E c \in Chunks : HandleClosed(c)
Dawn == \/ DawnStart \/ Verify \/ SkipOptional \/ StartTimelapse \/ RunTimelapse \/ StartFinal
        \/ DawnDone \/ \E c \in Chunks : StackOne(c)
Calendar == MorningComes \/ DeadlinePasses \/ DayComes \/ NextMorning \/ MorningPasses

CaptureNext == Recording \/ Stacking \/ Dawn \/ Calendar \/ RetryTimelapse

CaptureSpec == CaptureInit /\ [][CaptureNext]_nightVars

------------------------------------------------------------------------------
CaptureTypeOK ==
    /\ hour \in {"night", "morning", "late", "day"} /\ day \in 0..3
    /\ capture \in {"off", "on", "dead", "paused"} /\ diskLow \in BOOLEAN
    /\ chunk \in [Chunks -> {"none", "open", "closed"}] /\ deaths \in 0..MaxDeaths
    /\ watcher \in {"up", "down"} /\ events \in SUBSET Chunks
    /\ ready \in SUBSET Chunks /\ stacked \in SUBSET Chunks
    /\ queue \in Seq(Chunks) /\ stacking \in SUBSET Chunks
    /\ dawn \in {"idle", "stack", "restack", "timelapse", "clips", "final"}
    /\ todo \in SUBSET Chunks /\ outcome \in {"none", "whole", "cut"}
    /\ timelapse \in {"none", "deferred", "done"}
    /\ failed \in SUBSET Chunks /\ lost \in SUBSET Chunks
    /\ troubles \in 0..MaxFaults

\* The morning makes up for what the night lost: once it ran to its end, a closed segment
\* has its stack, or will have, though its event, its place in the queue or its first
\* stacking was lost at night, unless the last pass failed (_reconcile_ready,
\* _verify_and_restack, the final pass of _run_reencode_all).
MorningCatchesUp ==
    outcome = "whole" => \A c \in Chunks : chunk[c] = "closed" =>
        c \in stacked \cup failed \cup lost \cup events \cup Waiting

==============================================================================
