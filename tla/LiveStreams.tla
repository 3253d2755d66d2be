----------------------------- MODULE LiveStreams -----------------------------
(***************************************************************************)
(* Live pictures: the dashboard relays a station's MJPEG stream to each    *)
(* browser, and both bound their streams with two semaphores that are      *)
(* taken and given back one after the other.  The station notices that a   *)
(* relay has gone only when it writes its next frame.                      *)
(***************************************************************************)
EXTENDS Integers, FiniteSets

CONSTANTS
    Viewers, UserOf(_), Cams,
    Streams,            \* bound: requests at the station at once
    DashGlobal,         \* _LIVE_STREAM_GLOBAL_CAP
    PerCam, Global,     \* _STREAM_MAX_PER_CAM, _STREAM_GLOBAL_SEM
    MaxLost             \* bound

Users == {UserOf(v) : v \in Viewers}
NoStream == "none"

VARIABLES
    viewer,             \* viewer[v]: its place in stream(), its camera and its request upstream
    stream,             \* stream[s]: its place in api_stream, its camera
    triple, dashGlobal, \* slots left: _live_stream_per_triple_sems, _live_stream_global_sem
    perCam, global,     \* slots left: _STREAM_SEMS, _STREAM_GLOBAL_SEM
    ffmpeg,             \* streams whose ffmpeg runs
    lost                \* responses that were thrown away before their first frame

liveVars == <<viewer, stream, triple, dashGlobal, perCam, global, ffmpeg, lost>>

NoViewer == [step |-> "idle", cam |-> NoStream, up |-> NoStream, old |-> FALSE]
NoRequest == [step |-> "free", cam |-> NoStream]

LiveInit ==
    /\ viewer = [v \in Viewers |-> NoViewer]
    /\ stream = [s \in Streams |-> NoRequest]
    /\ triple = [t \in Users \X Cams |-> 1] /\ dashGlobal = DashGlobal
    /\ perCam = [c \in Cams |-> PerCam] /\ global = Global
    /\ ffmpeg = {} /\ lost = 0

Key(v) == <<UserOf(v), viewer[v].cam>>
ViewerGoes(v, step) == viewer' = [viewer EXCEPT ![v].step = step]
StreamGoes(s, step) == stream' = [stream EXCEPT ![s].step = step]

------------------------------------------------------------------------------
(* The dashboard: stream()                                                  *)

\* The semaphore of the user and camera; a second stream of the two is refused.
Ask(v, c) ==
    /\ viewer[v].step = "idle" /\ triple[<<UserOf(v), c>>] > 0
    /\ triple' = [triple EXCEPT ![<<UserOf(v), c>>] = @ - 1]
    /\ viewer' = [viewer EXCEPT ![v] = [NoViewer EXCEPT !.step = "global", !.cam = c]]
    /\ UNCHANGED <<stream, dashGlobal, perCam, global, ffmpeg, lost>>

\* The table of these semaphores is cleared when it has grown; who holds one gives back the
\* one it has taken.
TableCleared ==
    /\ \E v \in Viewers : viewer[v].step # "idle" /\ ~viewer[v].old
    /\ triple' = [t \in Users \X Cams |-> 1]
    /\ viewer' = [v \in Viewers |-> [viewer[v] EXCEPT !.old = (viewer[v].step # "idle")]]
    /\ UNCHANGED <<stream, dashGlobal, perCam, global, ffmpeg, lost>>

TripleReleased(v) == IF viewer[v].old THEN triple ELSE [triple EXCEPT ![Key(v)] = @ + 1]

\* Faulty variant: a viewer refused for the global limit keeps its own semaphore.
StillHeld(v) == triple

RefusedRelease(v) == TripleReleased(v)

TakeGlobal(v) ==
    /\ viewer[v].step = "global" /\ dashGlobal > 0
    /\ dashGlobal' = dashGlobal - 1
    /\ ViewerGoes(v, "connect")
    /\ UNCHANGED <<stream, triple, perCam, global, ffmpeg, lost>>

Refuse(v) ==
    /\ viewer[v].step = "global" /\ dashGlobal = 0
    /\ triple' = RefusedRelease(v)
    /\ viewer' = [viewer EXCEPT ![v] = NoViewer]
    /\ UNCHANGED <<stream, dashGlobal, perCam, global, ffmpeg, lost>>

\* Both are given back: no tunnel, no answer, an error of the station, or the end of relay().
ViewerEnds(v) ==
    /\ triple' = TripleReleased(v) /\ dashGlobal' = dashGlobal + 1
    /\ viewer' = [viewer EXCEPT ![v] = NoViewer]

Connect(v, s) ==
    /\ viewer[v].step = "connect" /\ stream[s].step = "free"
    /\ stream' = [stream EXCEPT ![s] = [step |-> "percam", cam |-> viewer[v].cam]]
    /\ viewer' = [viewer EXCEPT ![v].step = "answer", ![v].up = s]
    /\ UNCHANGED <<triple, dashGlobal, perCam, global, ffmpeg, lost>>

\* After 8 s without a connection or 60 s without an answer; the station may go on.
Unreachable(v) ==
    /\ viewer[v].step \in {"connect", "answer"}
    /\ ViewerEnds(v)
    /\ UNCHANGED <<stream, perCam, global, ffmpeg, lost>>

Relay(v) ==
    /\ viewer[v].step = "answer"
    /\ viewer[v].up # NoStream => stream[viewer[v].up].step = "frames"
    /\ ViewerGoes(v, "relay")
    /\ UNCHANGED <<stream, triple, dashGlobal, perCam, global, ffmpeg, lost>>

\* The browser leaves, or no frame has come for 60 s.
RelayEnds(v) ==
    /\ viewer[v].step = "relay"
    /\ ViewerEnds(v)
    /\ UNCHANGED <<stream, perCam, global, ffmpeg, lost>>

\* A generator that is thrown away before its first frame never comes to its finally.
ResponseLost(v) ==
    /\ viewer[v].step = "relay" /\ lost < MaxLost
    /\ lost' = lost + 1
    /\ viewer' = [viewer EXCEPT ![v].step = "lost"]
    /\ UNCHANGED <<stream, triple, dashGlobal, perCam, global, ffmpeg>>

------------------------------------------------------------------------------
(* The station: api_stream                                                  *)

\* A refusal makes the dashboard give up as well.
RefusedBy(s) ==
    LET waiting == {v \in Viewers : viewer[v].up = s} IN
    /\ stream' = [stream EXCEPT ![s] = NoRequest]
    /\ IF waiting = {} THEN UNCHANGED <<viewer, triple, dashGlobal>>
       ELSE \E v \in waiting : ViewerEnds(v)

TakePerCam(s) ==
    /\ stream[s].step = "percam"
    /\ IF perCam[stream[s].cam] > 0
       THEN /\ perCam' = [perCam EXCEPT ![stream[s].cam] = @ - 1]
            /\ StreamGoes(s, "global") /\ UNCHANGED <<viewer, triple, dashGlobal>>
       ELSE RefusedBy(s) /\ UNCHANGED perCam
    /\ UNCHANGED <<global, ffmpeg, lost>>

TakeStation(s) ==
    /\ stream[s].step = "global"
    /\ IF global > 0
       THEN /\ global' = global - 1
            /\ StreamGoes(s, "spawn") /\ UNCHANGED <<viewer, triple, dashGlobal, perCam>>
       ELSE /\ perCam' = [perCam EXCEPT ![stream[s].cam] = @ + 1]
            /\ RefusedBy(s) /\ UNCHANGED global
    /\ UNCHANGED <<ffmpeg, lost>>

GiveBack(s) ==
    /\ perCam' = [perCam EXCEPT ![stream[s].cam] = @ + 1]
    /\ global' = global + 1

Spawn(s) ==
    /\ stream[s].step = "spawn"
    /\ \/ /\ ffmpeg' = ffmpeg \cup {s}
          /\ StreamGoes(s, "frames") /\ UNCHANGED <<viewer, triple, dashGlobal, perCam, global>>
       \/ GiveBack(s) /\ RefusedBy(s) /\ UNCHANGED ffmpeg
    /\ UNCHANGED lost

\* ffmpeg ends or is silent for 30 s, or the next frame finds nobody: it is killed before the
\* semaphores are given back.
StreamEnds(s) ==
    /\ stream[s].step = "frames"
    /\ ffmpeg' = ffmpeg \ {s}
    /\ GiveBack(s)
    /\ stream' = [stream EXCEPT ![s] = NoRequest]
    /\ viewer' = [v \in Viewers |->
                    IF viewer[v].up = s THEN [viewer[v] EXCEPT !.up = NoStream] ELSE viewer[v]]
    /\ UNCHANGED <<triple, dashGlobal, lost>>

Views(v) ==
    \/ \E c \in Cams : Ask(v, c)
    \/ TakeGlobal(v) \/ Refuse(v)
    \/ \E s \in Streams : Connect(v, s)
    \/ Unreachable(v) \/ Relay(v) \/ RelayEnds(v) \/ ResponseLost(v)

Serves(s) == TakePerCam(s) \/ TakeStation(s) \/ Spawn(s) \/ StreamEnds(s)

LiveNext ==
    \/ \E v \in Viewers : Views(v)
    \/ TableCleared
    \/ \E s \in Streams : Serves(s)

------------------------------------------------------------------------------
ViewerStates ==
    [step : {"idle", "global", "connect", "answer", "relay", "lost"},
     cam : Cams \cup {NoStream}, up : Streams \cup {NoStream}, old : BOOLEAN]

StreamStates ==
    [step : {"free", "percam", "global", "spawn", "frames"}, cam : Cams \cup {NoStream}]

LiveTypeOK ==
    /\ viewer \in [Viewers -> ViewerStates] /\ stream \in [Streams -> StreamStates]
    /\ triple \in [Users \X Cams -> 0..1] /\ dashGlobal \in 0..DashGlobal
    /\ perCam \in [Cams -> 0..PerCam] /\ global \in 0..Global
    /\ ffmpeg \subseteq Streams /\ lost \in 0..MaxLost

\* Slots come back on every path, refusals and failures at either end included: when nobody
\* looks, all are free but for those of responses thrown away before their first frame, and
\* no ffmpeg runs (stream, api_stream).
SlotsComeBack ==
    /\ (\A v \in Viewers : viewer[v].step = "idle") =>
         dashGlobal = DashGlobal /\ \A t \in Users \X Cams : triple[t] = 1
    /\ (\A s \in Streams : stream[s].step = "free") =>
         /\ global = Global /\ ffmpeg = {}
         /\ \A c \in Cams : perCam[c] = PerCam

==============================================================================
