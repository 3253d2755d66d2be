---------------------------- MODULE FocusStreams -----------------------------
(***************************************************************************)
(* The camera focus page of a station: viewers share one ffmpeg for each   *)
(* camera, from a pool that stops idle ones and bounds their number.  The  *)
(* pool hands out a stream under its lock; the viewer starts it and counts *)
(* itself later, under the lock of the stream.                             *)
(***************************************************************************)
EXTENDS Integers, FiniteSets

CONSTANTS
    Viewers, Ips,
    Objects,            \* bound: streams that exist at once
    MaxStreams

NoObject == "none"

VARIABLES
    viewer,             \* viewer[v]: idle, hand (the generator is not begun) or watch, and its stream
    pool,               \* pool[ip]: _streams
    idle,               \* cameras with a timer in _idle_timers
    running, clients,   \* of each stream
    ffmpeg,             \* streams with a live process
    reader,             \* streams whose reader of a killed process has not noticed yet
    raced               \* a stream was stopped, or room was counted, while one was in a hand;
                        \* or one that had ended was evicted, which makes no room

focusVars == <<viewer, pool, idle, running, clients, ffmpeg, reader, raced>>

ViewerStates == [step : {"idle", "hand", "watch"}, at : Objects \cup {NoObject}]
Nobody == [step |-> "idle", at |-> NoObject]

FocusInit ==
    /\ viewer = [v \in Viewers |-> Nobody]
    /\ pool = [i \in Ips |-> NoObject] /\ idle = {}
    /\ running = {} /\ clients = [o \in Objects |-> 0]
    /\ ffmpeg = {} /\ reader = {} /\ raced = FALSE

InHand(o) == \E v \in Viewers : viewer[v] = [step |-> "hand", at |-> o]
Pooled == {pool[i] : i \in Ips} \ {NoObject}
Unused == {o \in Objects : o \notin Pooled \cup ffmpeg \cup reader /\ \A v \in Viewers : viewer[v].at # o}

\* SingleStream._stop, of some streams.
Stopped(os) ==
    /\ running' = running \ os /\ ffmpeg' = ffmpeg \ os
    /\ reader' = reader \cup (os \cap ffmpeg)

\* Faulty variant: the evicted stream is only forgotten.
Forgotten(os) == UNCHANGED <<running, ffmpeg, reader>>

Evicted(os) == Stopped(os)

Takes(v, o, hollow) ==
    /\ viewer' = [viewer EXCEPT ![v] = [step |-> "hand", at |-> o]]
    /\ raced' = (raced \/ hollow \/ \E u \in Viewers : viewer[u].step = "hand")

\* StreamPool.subscribe: the stream of the camera, or a new one if there is room or an idle
\* one to evict.
Share(v, i) ==
    /\ viewer[v].step = "idle" /\ pool[i] \in running
    /\ Takes(v, pool[i], FALSE) /\ idle' = idle \ {i}
    /\ UNCHANGED <<pool, running, clients, ffmpeg, reader>>

Active == Cardinality(Pooled \cap running)

Create(v, i) ==
    /\ viewer[v].step = "idle" /\ pool[i] \notin running /\ Active < MaxStreams
    /\ \E o \in Unused : Takes(v, o, FALSE) /\ pool' = [pool EXCEPT ![i] = o]
    /\ idle' = idle \ {i}
    /\ UNCHANGED <<running, clients, ffmpeg, reader>>

Evict(v, i) ==
    /\ viewer[v].step = "idle" /\ pool[i] \notin running /\ Active >= MaxStreams
    /\ \E e \in Ips, o \in Unused :
         /\ pool[e] # NoObject /\ clients[pool[e]] = 0
         /\ Evicted({pool[e]})
         /\ Takes(v, o, pool[e] \notin running \/ InHand(pool[e]))
         /\ pool' = [pool EXCEPT ![e] = NoObject, ![i] = o]
         /\ idle' = idle \ {e, i}
    /\ UNCHANGED clients

\* SingleStream.subscribe, when the first frame is asked for: _start kills the old process.
Begin(v) ==
    LET o == viewer[v].at IN
    /\ viewer[v].step = "hand"
    /\ clients' = [clients EXCEPT ![o] = @ + 1]
    /\ running' = running \cup {o} /\ ffmpeg' = ffmpeg \cup {o}
    /\ reader' = IF o \notin running /\ o \in ffmpeg THEN reader \cup {o} ELSE reader
    /\ viewer' = [viewer EXCEPT ![v].step = "watch"]
    /\ UNCHANGED <<pool, idle, raced>>

\* The browser leaves, or the stream is seen stopped.
Leave(v) ==
    /\ viewer[v].step = "watch"
    /\ clients' = [clients EXCEPT ![viewer[v].at] = @ - 1]
    /\ viewer' = [viewer EXCEPT ![v] = Nobody]
    /\ UNCHANGED <<pool, idle, running, ffmpeg, reader, raced>>

\* ffmpeg ends and its reader with it.
FfmpegExits(o) ==
    /\ o \in ffmpeg
    /\ ffmpeg' = ffmpeg \ {o} /\ running' = running \ {o}
    /\ UNCHANGED <<viewer, pool, idle, clients, reader, raced>>

\* The reader of a killed process clears _running, whoever set it since.
ReaderEnds(o) ==
    /\ o \in reader
    /\ reader' = reader \ {o} /\ running' = running \ {o}
    /\ UNCHANGED <<viewer, pool, idle, clients, ffmpeg, raced>>

\* _cleanup_loop: a camera without clients gets its timer, and later is stopped.
SeeIdle(i) ==
    /\ pool[i] # NoObject
    /\ idle' = IF clients[pool[i]] = 0 THEN idle \cup {i} ELSE idle \ {i}
    /\ UNCHANGED <<viewer, pool, running, clients, ffmpeg, reader, raced>>

StopIdle(i) ==
    /\ pool[i] # NoObject /\ i \in idle /\ clients[pool[i]] = 0
    /\ Stopped({pool[i]})
    /\ raced' = (raced \/ InHand(pool[i]))
    /\ pool' = [pool EXCEPT ![i] = NoObject] /\ idle' = idle \ {i}
    /\ UNCHANGED <<viewer, clients>>

\* /stop, and the end of the program.
StopAll ==
    /\ Pooled # {}
    /\ Stopped(Pooled)
    /\ raced' = (raced \/ \E o \in Pooled : InHand(o))
    /\ pool' = [i \in Ips |-> NoObject] /\ idle' = {}
    /\ UNCHANGED <<viewer, clients>>

Watches(v) == Begin(v) \/ Leave(v) \/ \E i \in Ips : Share(v, i) \/ Create(v, i) \/ Evict(v, i)

FocusNext ==
    \/ \E v \in Viewers : Watches(v)
    \/ \E o \in Objects : FfmpegExits(o) \/ ReaderEnds(o)
    \/ \E i \in Ips : SeeIdle(i) \/ StopIdle(i)
    \/ StopAll

------------------------------------------------------------------------------
FocusTypeOK ==
    /\ viewer \in [Viewers -> ViewerStates]
    /\ pool \in [Ips -> Objects \cup {NoObject}] /\ idle \subseteq Ips
    /\ running \cup ffmpeg \cup reader \subseteq Objects
    /\ clients \in [Objects -> 0..Cardinality(Viewers)] /\ raced \in BOOLEAN

\* As long as no stream was stopped, and none asked for, while another was handed out and not
\* begun, and none evicted that had ended already, there is never an ffmpeg that the pool does
\* not know, nor more of them than its limit, and every watched stream is that of its camera
\* or has ended (StreamPool, SingleStream).
PoolOwnsFfmpeg ==
    raced \/ /\ ffmpeg \subseteq Pooled /\ Cardinality(ffmpeg) <= MaxStreams
             /\ \A v \in Viewers : viewer[v].step = "watch" =>
                  viewer[v].at \in Pooled \/ viewer[v].at \notin running

==============================================================================
