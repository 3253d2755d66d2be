------------------------------- MODULE SkyDome -------------------------------
(***************************************************************************)
(* The sky dome of one station (routes/sky_dome): the cached PNG, which    *)
(* requests write in place under a lock and the scheduler replaces without *)
(* it, the frames archived in the night, the mute after failures, and the  *)
(* timelapse that the scheduler builds when it sees the dawn.              *)
(***************************************************************************)
EXTENDS Naturals

CONSTANTS
    Requests,
    MuteThreshold,      \* _DOME_FAILURE_MUTE_THRESHOLD
    MaxFrames           \* bound

Suns == {"down", "up"}
DomeFiles == {"none", "torn", "whole"}

VARIABLES
    sun,                \* below or above -6 degrees
    png, fresh,         \* the cached PNG; younger than its time to live
    request,            \* request[r]: its place in api_sky_dome
    renamed,            \* the file being written in place has been replaced meanwhile
    sched,              \* the scheduler's place in its loop, the sun it has read
    lastSun,            \* last_sun_alt
    failures, muted,    \* _dome_consecutive_failures, _dome_failure_mute_until
    frames, mp4,        \* of the night
    tried,              \* a build has begun since the sun has risen
    cut                 \* a write in place was broken off, and no other has succeeded since

domeVars == <<sun, png, fresh, request, renamed, sched, lastSun, failures, muted, frames, mp4,
              tried, cut>>

\* Faulty variant: a scheduler that starts takes the sun as it is.
StartsNow == sun

\* A scheduler that starts takes the sun to have been down, so that it finds a dawn.
StartsDark == "down"

SkyDomeInit ==
    /\ sun = "down"
    /\ png = "none" /\ fresh = FALSE
    /\ request = [r \in Requests |-> "idle"] /\ renamed = FALSE
    /\ sched = [step |-> "pass", sun |-> sun]
    /\ lastSun = StartsDark
    /\ failures = 0 /\ muted = FALSE
    /\ frames = 0 /\ mp4 = "none"
    /\ tried = TRUE /\ cut = FALSE

At(step) == sched.step = step
Goto(step) == sched' = [sched EXCEPT !.step = step]
Locked == \E r \in Requests : request[r] \in {"render", "write"}
Becomes(r, step) == request' = [request EXCEPT ![r] = step]

------------------------------------------------------------------------------
\* A pass of the scheduler takes minutes, so that it looks at the sun in every night.
SunRises ==
    /\ sun = "down" /\ lastSun = "down"
    /\ sun' = "up" /\ tried' = FALSE
    /\ UNCHANGED <<png, fresh, request, renamed, sched, lastSun, failures, muted, frames, mp4, cut>>

\* The next night has frames and a timelapse of its own.
SunSets ==
    /\ sun = "up" /\ lastSun = "up" /\ At("pass")
    /\ sun' = "down" /\ frames' = 0 /\ mp4' = "none"
    /\ UNCHANGED <<png, fresh, request, renamed, sched, lastSun, failures, muted, tried, cut>>

TimePasses ==
    /\ \/ fresh /\ fresh' = FALSE /\ UNCHANGED muted
       \/ muted /\ muted' = FALSE /\ UNCHANGED fresh
    /\ UNCHANGED <<sun, png, request, renamed, sched, lastSun, failures, frames, mp4, tried, cut>>

------------------------------------------------------------------------------
(* api_sky_dome: a fresh PNG is served as it is, without the lock.           *)

Ask(r) ==
    /\ request[r] = "idle" /\ (png = "none" \/ ~fresh)
    /\ Becomes(r, "wait")
    /\ UNCHANGED <<sun, png, fresh, renamed, sched, lastSun, failures, muted, frames, mp4, tried, cut>>

\* Another request, or the scheduler, may have rendered it meanwhile.
Enter(r) ==
    /\ request[r] = "wait" /\ ~Locked
    /\ Becomes(r, IF png # "none" /\ fresh THEN "idle" ELSE "render")
    /\ UNCHANGED <<sun, png, fresh, renamed, sched, lastSun, failures, muted, frames, mp4, tried, cut>>

\* No station, no platepar, no image or no space: a stale PNG is served when there is one.
RenderNothing(r) ==
    /\ request[r] = "render"
    /\ Becomes(r, "idle")
    /\ UNCHANGED <<sun, png, fresh, renamed, sched, lastSun, failures, muted, frames, mp4, tried, cut>>

\* write_bytes truncates the file that is there.
StartWrite(r) ==
    /\ request[r] = "render"
    /\ Becomes(r, "write") /\ renamed' = FALSE
    /\ png' = "torn" /\ fresh' = TRUE
    /\ UNCHANGED <<sun, sched, lastSun, failures, muted, frames, mp4, tried, cut>>

EndWrite(r) ==
    /\ request[r] = "write"
    /\ Becomes(r, "idle")
    /\ \/ png' = (IF renamed THEN png ELSE "whole") /\ cut' = (cut /\ renamed)
       \/ UNCHANGED png /\ cut' = (cut \/ ~renamed)      \* the write failed
    /\ UNCHANGED <<sun, fresh, renamed, sched, lastSun, failures, muted, frames, mp4, tried>>

------------------------------------------------------------------------------
(* _sky_dome_scheduler                                                      *)

\* A station that is due and not muted is rendered first; the sun is looked at in every pass.
Pass ==
    /\ At("pass")
    /\ sched' \in [step : {"dawn"} \cup (IF muted THEN {} ELSE {"render"}), sun : {sun}]
    /\ UNCHANGED <<sun, png, fresh, request, renamed, lastSun, failures, muted, frames, mp4, tried, cut>>

RenderFails ==
    /\ At("render")
    /\ muted' = (failures + 1 >= MuteThreshold)
    /\ failures' = IF failures + 1 >= MuteThreshold THEN 0 ELSE failures + 1
    /\ Goto("dawn")
    /\ UNCHANGED <<sun, png, fresh, request, renamed, lastSun, frames, mp4, tried, cut>>

\* Faulty variant: the scheduler writes the PNG in place as well.
InPlace == "torn"

Beside == png           \* the temporary file has another name

StoreTmp ==
    /\ At("render")
    /\ png' = Beside
    /\ Goto("replace")
    /\ UNCHANGED <<sun, fresh, request, renamed, lastSun, failures, muted, frames, mp4, tried, cut>>

\* The rename, the copy for the night's archive.
Replace ==
    /\ At("replace")
    /\ png' = "whole" /\ fresh' = TRUE /\ cut' = FALSE
    /\ renamed' = \E r \in Requests : request[r] = "write"
    /\ frames' = IF frames < MaxFrames THEN frames + 1 ELSE frames
    /\ failures' = 0
    /\ Goto("dawn")
    /\ UNCHANGED <<sun, request, lastSun, muted, mp4, tried>>

LookAtSun ==
    /\ At("dawn")
    /\ IF lastSun = "down" /\ sun = "up"
       THEN /\ sched' = [step |-> "build", sun |-> sun] /\ tried' = TRUE
            /\ UNCHANGED lastSun
       ELSE /\ Goto("pass") /\ lastSun' = sun
            /\ UNCHANGED tried
    /\ UNCHANGED <<sun, png, fresh, request, renamed, failures, muted, frames, mp4, cut>>

\* ffmpeg writes the file in place, and may fail.
Stitched == {"torn", "whole"}

\* _build_sky_dome_timelapse_from_mp4s: no MP4 of a camera at the station yet, too few frames,
\* or ffmpeg; in any case the dawn is over.
Build ==
    /\ At("build")
    /\ mp4' \in {mp4} \cup Stitched
    /\ lastSun' = sched.sun
    /\ Goto("pass")
    /\ UNCHANGED <<sun, png, fresh, request, renamed, failures, muted, frames, tried, cut>>

\* The files stay; what was being written in place is cut off.
DashboardRestarts ==
    /\ request' = [r \in Requests |-> "idle"] /\ renamed' = FALSE
    /\ cut' = (cut \/ (~renamed /\ \E r \in Requests : request[r] = "write"))
    /\ sched' = [step |-> "pass", sun |-> sun]
    /\ lastSun' = StartsDark
    /\ failures' = 0 /\ muted' = FALSE
    /\ mp4' \in IF At("build") THEN {mp4, "torn"} ELSE {mp4}
    /\ UNCHANGED <<sun, png, fresh, frames, tried>>

Asks(r) == Ask(r) \/ Enter(r) \/ RenderNothing(r) \/ StartWrite(r) \/ EndWrite(r)
Scheduler == Pass \/ RenderFails \/ StoreTmp \/ Replace \/ LookAtSun \/ Build

SkyDomeNext ==
    \/ SunRises \/ SunSets \/ TimePasses
    \/ \E r \in Requests : Asks(r)
    \/ Scheduler
    \/ DashboardRestarts

------------------------------------------------------------------------------
SkyDomeTypeOK ==
    /\ sun \in Suns /\ lastSun \in Suns
    /\ png \in DomeFiles /\ mp4 \in DomeFiles /\ fresh \in BOOLEAN
    /\ request \in [Requests -> {"idle", "wait", "render", "write"}] /\ renamed \in BOOLEAN
    /\ sched \in [step : {"pass", "render", "replace", "dawn", "build"}, sun : Suns]
    /\ failures \in 0..MuteThreshold /\ muted \in BOOLEAN
    /\ frames \in 0..MaxFrames
    /\ tried \in BOOLEAN /\ cut \in BOOLEAN

\* The cached dome is a whole PNG although requests write it in place while the scheduler
\* replaces it, except while a request writes it and after such a write was broken off
\* (api_sky_dome, _render_and_archive_sky_dome).
DomeIsWhole ==
    png = "torn" => cut \/ (~renamed /\ \E r \in Requests : request[r] = "write")

\* A scheduler that counts the dawn as seen has begun the timelapse of the night, whenever
\* the dashboard restarted (_sky_dome_scheduler).
DawnIsBuilt == lastSun = "up" /\ sun = "up" => tried

==============================================================================
