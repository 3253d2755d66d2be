----------------------------- MODULE NightlyPost ------------------------------
(***************************************************************************)
(* The morning summary of a night (nightly_telegram): cameras are told     *)
(* apart by what the index has of them and of their station, the summary   *)
(* and its media go to every chat, and a marker file says that they did.   *)
(***************************************************************************)
EXTENDS Integers, Sequences, FiniteSets

CONSTANTS
    Runs,               \* of the timer, or started by hand
    Stations, Cams, StationOf(_),
    Chats,              \* the chat of the network, and the echo
    MaxKills            \* bound

Nothing == [reported |-> {}, quiet |-> {}, offline |-> {}]

VARIABLES
    rows,               \* cameras with a detection in the night
    heard,              \* stations polled without an error, or with a file, within the stale hours
    run,                \* run[r]: its place in run(), --force, the rows it has read
    groups,             \* groups[r]: what classify gave
    marker,             \* <night>.sent
    tried, got,         \* chats the text was sent to, and how often it came there
    kills,
    overlapped          \* a run looked for the marker while another was sending

postVars == <<rows, heard, run, groups, marker, tried, got, kills, overlapped>>

Idle == [step |-> "idle", force |-> FALSE, rows |-> {}, todo |-> {}]

PostInit ==
    /\ rows = {} /\ heard = Stations
    /\ run = [r \in Runs |-> Idle] /\ groups = [r \in Runs |-> Nothing]
    /\ marker = FALSE /\ tried = {} /\ got = [c \in Chats |-> 0]
    /\ kills = 0 /\ overlapped = FALSE

At(r, step) == run[r].step = step
Sending == {r \in Runs : run[r].step \in {"text", "media", "mark"}}

------------------------------------------------------------------------------
(* The index, which the poller and the ingest API write meanwhile            *)

Indexed(cam) ==
    /\ cam \notin rows
    /\ rows' = rows \cup {cam} /\ heard' = heard \cup {StationOf(cam)}
    /\ UNCHANGED <<run, groups, marker, tried, got, kills, overlapped>>

\* Polls fail, or the last file has grown old.
Silent(st) ==
    /\ st \in heard
    /\ heard' = heard \ {st}
    /\ UNCHANGED <<rows, run, groups, marker, tried, got, kills, overlapped>>

------------------------------------------------------------------------------
(* run                                                                      *)

\* collect_night; each run is made once.
Collect(r) ==
    /\ At(r, "idle")
    /\ \E force \in BOOLEAN :
         run' = [run EXCEPT ![r] = [step |-> "classify", force |-> force, rows |-> rows, todo |-> {}]]
    /\ UNCHANGED <<rows, heard, groups, marker, tried, got, kills, overlapped>>

\* Faulty variant: only the time of the last sign of the station counts.
Fresh(cam, seen) == StationOf(cam) \in heard

\* A detection of any camera shows that its station is up.
Online(cam, seen) ==
    \/ \E other \in seen : StationOf(other) = StationOf(cam)
    \/ StationOf(cam) \in heard

Classify(r) ==
    /\ At(r, "classify")
    /\ LET seen == run[r].rows IN
       groups' = [groups EXCEPT ![r] =
                    [reported |-> seen,
                     quiet    |-> {c \in Cams \ seen : Online(c, seen)},
                     offline  |-> {c \in Cams \ seen : ~Online(c, seen)}]]
    /\ run' = [run EXCEPT ![r].step = "look"]
    /\ UNCHANGED <<rows, heard, marker, tried, got, kills, overlapped>>

\* The texts of a language model come before the marker is looked for.
Look(r) ==
    /\ At(r, "look")
    /\ IF marker /\ ~run[r].force
       THEN run' = [run EXCEPT ![r].step = "over"]
       ELSE run' = [run EXCEPT ![r].step = "text", ![r].todo = Chats]
    /\ overlapped' = (overlapped \/ Sending # {})
    /\ UNCHANGED <<rows, heard, groups, marker, tried, got, kills>>

\* A failure is logged, and the next chat has its turn.
Text(r) ==
    /\ At(r, "text")
    /\ \E c \in run[r].todo :
         /\ tried' = tried \cup {c}
         /\ got' \in {got, [got EXCEPT ![c] = @ + 1]}
         /\ run' = [run EXCEPT ![r].todo = @ \ {c},
                               ![r].step = IF run[r].todo = {c} THEN "media" ELSE @]
    /\ UNCHANGED <<rows, heard, groups, marker, kills, overlapped>>

\* post_media: the stacks of the cameras reported, the brightest clip, as far as the archive
\* has them, ffmpeg converts them and the chats take them.
Media(r) ==
    /\ At(r, "media")
    /\ run' = [run EXCEPT ![r].step = "mark"]
    /\ UNCHANGED <<rows, heard, groups, marker, tried, got, kills, overlapped>>

Over(r) == run' = [run EXCEPT ![r] = [Idle EXCEPT !.step = "over", !.force = run[r].force]]

Mark(r) ==
    /\ At(r, "mark")
    /\ marker' = TRUE
    /\ Over(r)
    /\ UNCHANGED <<rows, heard, groups, tried, got, kills, overlapped>>

\* Faulty variant: the marker of a run that is cut off is there already.
Marked == TRUE

StillUnmarked == marker

Killed(r) ==
    /\ r \in Sending /\ kills < MaxKills
    /\ kills' = kills + 1
    /\ Over(r)
    /\ marker' = StillUnmarked
    /\ UNCHANGED <<rows, heard, groups, tried, got, overlapped>>

Posts(r) == Collect(r) \/ Classify(r) \/ Look(r) \/ Text(r) \/ Media(r) \/ Mark(r) \/ Killed(r)

PostNext ==
    \/ \E cam \in Cams : Indexed(cam)
    \/ \E st \in Stations : Silent(st)
    \/ \E r \in Runs : Posts(r)

------------------------------------------------------------------------------
PostTypeOK ==
    /\ rows \subseteq Cams /\ heard \subseteq Stations
    /\ run \in [Runs -> [step : {"idle", "classify", "look", "text", "media", "mark", "over"},
                         force : BOOLEAN, rows : SUBSET Cams, todo : SUBSET Chats]]
    /\ groups \in [Runs -> [reported : SUBSET Cams, quiet : SUBSET Cams, offline : SUBSET Cams]]
    /\ marker \in BOOLEAN /\ tried \subseteq Chats /\ got \in [Chats -> Nat]
    /\ kills \in 0..MaxKills /\ overlapped \in BOOLEAN

\* A night that is marked was sent to every chat; a chat gets it twice only after a forced
\* run, a run that was cut off or two at a time; and no camera is called offline beside one
\* of its station with detections (run, classify).
PostedOnce ==
    /\ marker => tried = Chats
    /\ \A c \in Chats :
         got[c] <= 1 \/ kills > 0 \/ overlapped \/ \E r \in Runs : run[r].force
    /\ \A r \in Runs : \A c \in groups[r].offline, d \in groups[r].reported :
         StationOf(c) # StationOf(d)

==============================================================================
