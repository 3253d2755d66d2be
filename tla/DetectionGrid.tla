---------------------------- MODULE DetectionGrid ----------------------------
(***************************************************************************)
(* What the Detections page makes of a night: events seen from several     *)
(* stations, what is left of them for a visitor without an account, and    *)
(* rows of footage in a window of minutes that may run over midnight.  A   *)
(* night runs from noon to noon; detections come in the order of time.     *)
(***************************************************************************)
EXTENDS Integers, Sequences, FiniteSets

CONSTANTS
    Cams, StationOf(_),
    Window,             \* correlation_window_s
    Day,                \* minutes of a day
    Merge, Match,       \* of GMN and local events, of GMN events and our detections
    Bucket,             \* minutes of a row
    MaxWindow,          \* FOOTAGE_MAX_WINDOW_MIN
    MaxDetections       \* bound

NoBound == -1

VARIABLE night          \* the night's detections, sorted by meteor_time

GridInit == night = <<>>

\* all_det.sort: ties stay in the order in which stations answered.
Report(cam, t, offset) ==
    /\ Len(night) < MaxDetections
    /\ night # <<>> => night[Len(night)].time <= t
    /\ night' = Append(night, [cam |-> cam, time |-> t, offset |-> offset])

GridNext == \E c \in Cams, t \in 0..(Day - 1), o \in 0..1 : Report(c, t, o)

------------------------------------------------------------------------------
(* Events (_compute_detections_payload)                                     *)

Near(i, j) == night[j].time - night[i].time <= Window

\* What detection i takes with it, of those that nothing before it has taken.
Group(i, used) == {i} \cup {j \in (i + 1)..Len(night) : j \notin used /\ Near(i, j)}

\* Taken[n]: the detections taken by the first n.
Taken ==
    LET f[n \in 0..Len(night)] ==
          IF n = 0 THEN {} ELSE f[n - 1] \cup (IF n \in f[n - 1] THEN {} ELSE Group(n, f[n - 1]))
    IN f

Heads == {i \in 1..Len(night) : i \notin Taken[i - 1]}

\* Of a camera that has locked two chunks, the detection with more of the time before it.
Witnesses(i) ==
    LET group == Group(i, Taken[i - 1])
        Better(k, j) == \/ night[k].offset > night[j].offset
                        \/ night[k].offset = night[j].offset /\ k < j
    IN {j \in group : ~\E k \in group : night[k].cam = night[j].cam /\ Better(k, j)}

\* Faulty variant: two cameras of one station count as two.
CamsOf(ws) == {night[w].cam : w \in ws}

StationsOf(ws) == {StationOf(night[w].cam) : w \in ws}

Events == {ws \in {Witnesses(i) : i \in Heads} : Cardinality(StationsOf(ws)) >= 2}

\* _filter_payload_for_anon
PublicPart(ws, pub) == {w \in ws : StationOf(night[w].cam) \in pub}
PublicEvents(pub) ==
    {ws \in {PublicPart(e, pub) : e \in Events} : Cardinality(StationsOf(ws)) >= 2}

Noon == Day \div 2

------------------------------------------------------------------------------
(* The public list of events: a date has the local events of its night and  *)
(* what GMN files under the calendar day, most of it of one camera here.    *)

NightDates == {"evening", "morning"}         \* the date of the night, the one after
Close(t, u, most) == t - u <= most /\ u - t <= most

\* The day of GMN's event at time g, and who has seen it of us.
GmnDate(g) == IF g < Noon THEN "evening" ELSE "morning"
GmnListed(date, g, cam, pub) == GmnDate(g) = date /\ StationOf(cam) \in pub

\* Faulty variant: a date looks into its own night only.
OwnNight(date) == date = "evening"

\* The list loads the night of the date and the one before.
LoadsNight(date) == date \in NightDates

\* _gmn_event_to_public: the first detection of the camera that matches.
EventClips(date, g, cam) ==
    LET found == {i \in 1..Len(night) :
                    LoadsNight(date) /\ night[i].cam = cam /\ Close(night[i].time, g, Match)}
    IN {i \in found : \A j \in found : i <= j}

\* The first detection of an event gives it its time and its id.
EventTime(ws) == LET i == CHOOSE h \in Heads : Witnesses(h) = ws IN night[i].time

\* Where the index has the night, public_events lists none at all.
LocalListed(date, ws, t, g, cam, pub) ==
    /\ date = "evening"
    /\ PublicPart(ws, pub) # {}
    /\ GmnListed(date, g, cam, pub) => ~Close(t, g, Merge)

\* public_event_detail: the first event of that time.
Detail(t) == LET i == CHOOSE h \in Heads :
                        /\ Witnesses(h) \in Events /\ night[h].time = t
                        /\ \A k \in Heads : Witnesses(k) \in Events /\ night[k].time = t => h <= k
             IN Witnesses(i)

------------------------------------------------------------------------------
(* The rows of the footage page                                             *)

Minute(t) == (t + Noon) % Day           \* of the day, t minutes after noon
NoonAnchor(m) == (m - Noon + Day) % Day

\* _cap_footage_window
Capped(from, to) ==
    LET span == (to - from) % Day IN
    CASE from # NoBound /\ to # NoBound ->
            <<from, IF span = 0 \/ span > MaxWindow THEN (from + MaxWindow) % Day ELSE to>>
      [] from # NoBound /\ to = NoBound -> <<from, (from + MaxWindow) % Day>>
      [] from = NoBound /\ to # NoBound -> <<(to - MaxWindow) % Day, to>>
      [] OTHER                          -> <<from, to>>

\* Faulty variant: a window over midnight is taken like any other.
Between(m, from, to) == (from # NoBound => m >= from) /\ (to # NoBound => m <= to)

\* _in_footage_window
InWindow(m, from, to) ==
    IF from # NoBound /\ to # NoBound /\ from > to
    THEN m >= from \/ m <= to
    ELSE (from # NoBound => m >= from) /\ (to # NoBound => m <= to)

RowOf(i) == (Minute(night[i].time) \div Bucket) * Bucket

\* _build_footage_grid: the rows in the order of the night.
Above(i, j) == NoonAnchor(RowOf(i)) < NoonAnchor(RowOf(j))

------------------------------------------------------------------------------
GridTypeOK ==
    night \in Seq([cam : Cams, time : 0..(Day - 1), offset : 0..1]) /\ Len(night) <= MaxDetections

\* An event is one meteor at most: two or more stations, one witness of a camera, all within
\* the window of the first, and no detection in two events.  A pair of stations that nothing
\* comes shortly before is never missed, and a visitor sees an event only as one of public
\* stations (_compute_detections_payload, _filter_payload_for_anon).
EventsAreTrue ==
    /\ \A ws \in Events :
         /\ Cardinality({StationOf(night[w].cam) : w \in ws}) >= 2
         /\ \A v, w \in ws : (night[v].cam = night[w].cam => v = w) /\ Near(v, w)
         /\ \A us \in Events : us = ws \/ us \cap ws = {}
    /\ \A i, j \in 1..Len(night) :
         /\ i < j /\ Near(i, j) /\ StationOf(night[i].cam) # StationOf(night[j].cam)
         /\ \A k \in 1..(i - 1) : ~Near(k, i)
         => \E ws \in Events : {night[i].cam, night[j].cam} \subseteq {night[w].cam : w \in ws}
    /\ \A pub \in SUBSET {StationOf(c) : c \in Cams} : \A ws \in PublicEvents(pub) :
         Cardinality({StationOf(night[w].cam) : w \in ws} \cap pub) >= 2

\* In the public list no event of ours gets lost that GMN's does not stand for, and an id
\* opens the event it was listed with; GMN's event brings the clip of every camera of ours
\* that has it, before midnight and after (public_events, public_event_detail).
PublicListIsTrue ==
    /\ LET shown == Events IN \A ws \in shown :
         LET t == EventTime(ws) IN
         /\ Detail(t) = ws
         /\ \A g \in 0..(Day - 1), cam \in Cams, pub \in SUBSET {StationOf(c) : c \in Cams} :
              \/ LocalListed("evening", ws, t, g, cam, pub)
              \/ PublicPart(ws, pub) = {}
              \/ GmnListed("evening", g, cam, pub) /\ Close(t, g, Merge)
    /\ \A g \in 0..(Day - 1), i \in 1..Len(night) : Close(night[i].time, g, Match) =>
         EventClips(GmnDate(g), g, night[i].cam) # {}

\* Whatever bounds are asked for, midnight between them or not, the window is one run of
\* minutes from its start and no longer than its limit; and rows come in the order of the
\* night wherever none runs over noon (_cap_footage_window, _in_footage_window,
\* _build_footage_grid).
WindowIsTrue ==
    /\ \A from, to \in NoBound..Day : from # NoBound \/ to # NoBound =>
         LET w == Capped(from, to) IN
         \E n \in 0..MaxWindow :
            {m \in 0..(Day - 1) : InWindow(m, w[1], w[2])} = {(w[1] + k) % Day : k \in 0..n}
    /\ Noon % Bucket = 0 =>
         \A i, j \in 1..Len(night) : Above(i, j) => night[i].time < night[j].time

==============================================================================
