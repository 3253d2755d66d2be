--------------------------- MODULE StorageRetention ---------------------------
(***************************************************************************)
(* storagebox_janitor: the pass over the clips of one night on the storage *)
(* box that removes the videos that are old and not worth keeping, while   *)
(* stations push their state.json there.  Clips are numbered in the order  *)
(* of their meteor times; magnitudes and durations are integers.           *)
(***************************************************************************)
EXTENDS Integers, FiniteSets, Sequences

CONSTANTS
    N, Cams,            \* clips 1..N, cameras
    CamOf(_), Time(_), Mag(_), Dur(_),
    Confirmed,          \* clips of a GMN event with two stations
    Window,             \* corr_window_s
    BrightPct, LongPct, Cap,    \* bright_pct, long_pct, max_deletes (0: none)
    MaxPushes           \* bound

Videos == 1..N
Locks == {"none", "detection", "manual"}

VARIABLES
    old,                \* the night is older than the retention
    mkv,                \* clips on the box
    box, station,       \* box[cam], station[cam]: state.json there and at home
    pushes,
    step, apply, gmn,   \* the run: its phase, --apply, whether GMN answered
    toScan, seen,       \* cameras to scan, what the scan has found: clip |-> lock
    left, removed,      \* clips not decided yet, pruned so far
    hand,               \* _prune_clip: the clip, the state.json it has read
    moved,              \* cameras that have pushed since the run began
    wronged             \* clips removed although they were worth keeping, and not passed over

retentionVars == <<old, mkv, box, station, pushes, step, apply, gmn, toScan, seen, left, removed,
                   hand, moved, wronged>>

State(locks) == [lock |-> locks, pruned |-> {}]
Nothing == [clip |-> 0, state |-> State([c \in Videos |-> "none"])]
Of(cam) == {c \in Videos : CamOf(c) = cam}

RetentionInit ==
    /\ old = FALSE /\ mkv = Videos /\ pushes = 0
    /\ station = [cam \in Cams |-> State([c \in Videos |-> "detection"])]
    /\ box = station
    /\ step = "idle" /\ apply = FALSE /\ gmn = FALSE
    /\ toScan = {} /\ seen = [c \in {} |-> "none"] /\ left = {} /\ removed = 0
    /\ hand = Nothing /\ moved = {} /\ wronged = {}

------------------------------------------------------------------------------
(* What a run decides from what it has scanned.                             *)

Scanned == DOMAIN seen
Timed == {c \in Scanned : seen[c] = "detection"}     \* a manual lock has no meteor_time

\* Linear interpolation, in hundredths; vals is sorted and not empty.
Percentile(vals, pct) ==
    LET rank == pct * (Len(vals) - 1)
        lo   == 1 + rank \div 100
        hi   == IF lo < Len(vals) THEN lo + 1 ELSE lo
    IN  100 * vals[lo] + (vals[hi] - vals[lo]) * (rank % 100)

\* The i-th value of the timed clips in ascending order: fewer than i are below it.
Sorted(values) ==
    LET Below(c) == {d \in Timed : values[d] < values[c]}
        UpTo(c)  == {d \in Timed : values[d] <= values[c]}
    IN  [i \in 1..Cardinality(Timed) |->
           values[CHOOSE c \in Timed : Cardinality(Below(c)) < i /\ i <= Cardinality(UpTo(c))]]
Mags == Sorted([c \in Timed |-> Mag(c)])
Durs == Sorted([c \in Timed |-> Dur(c)])

Bright(c) == c \in Timed /\ 100 * Mag(c) <= Percentile(Mags, BrightPct)
Long(c)   == c \in Timed /\ 100 * Dur(c) >= Percentile(Durs, 100 - LongPct)

\* scan_date: in order of time; a clip that is marked already marks nobody.
Later(a) == {b \in Timed : b > a /\ Time(b) - Time(a) <= Window /\ CamOf(b) # CamOf(a)}
Multistation ==
    LET marked[a \in 0..N] ==
          IF a = 0 THEN (IF gmn THEN Confirmed \cap Timed ELSE {})
          ELSE marked[a - 1] \cup
               (IF a \notin Timed \/ a \in marked[a - 1] \/ Later(a) = {} THEN {}
                ELSE {a} \cup Later(a))
    IN marked[N]

\* Faulty variant: only brightness is worth keeping.
OnlyBright(c) == ~Bright(c)

Prunable(c) == /\ seen[c] # "manual" /\ c \notin Multistation
               /\ ~Bright(c) /\ ~Long(c)

------------------------------------------------------------------------------
(* The stations.                                                            *)

GrowsOld ==
    /\ ~old /\ old' = TRUE
    /\ UNCHANGED <<mkv, box, station, pushes, step, apply, gmn, toScan, seen, left, removed, hand,
                   moved, wronged>>

\* A user's lock or unlock, and the upload of the state.json it is in: the janitor's own
\* marks on the box are not in it.
UserChanges(c, l) ==
    /\ pushes < MaxPushes /\ pushes' = pushes + 1
    /\ station' = [station EXCEPT ![CamOf(c)].lock[c] = l]
    /\ UNCHANGED <<old, mkv, box, step, apply, gmn, toScan, seen, left, removed, hand, moved,
                   wronged>>

Push(cam) ==
    /\ box[cam] # station[cam]
    /\ box' = [box EXCEPT ![cam] = station[cam]]
    /\ moved' = moved \cup {cam}
    /\ UNCHANGED <<old, mkv, station, pushes, step, apply, gmn, toScan, seen, left, removed, hand,
                   wronged>>

------------------------------------------------------------------------------
(* run                                                                      *)

Start(a, g) ==
    /\ step = "idle"
    /\ step' = "scan" /\ apply' = a /\ gmn' = g
    /\ toScan' = Cams /\ seen' = [c \in {} |-> "none"] /\ left' = {} /\ removed' = 0
    /\ moved' = {}
    /\ UNCHANGED <<old, mkv, box, station, pushes, hand, wronged>>

\* A state.json that cannot be read leaves the camera out.
ScanCam(cam) ==
    LET found == {c \in Of(cam) \cap mkv : box[cam].lock[c] # "none" /\ c \notin box[cam].pruned}
    IN
    /\ step = "scan" /\ cam \in toScan
    /\ toScan' = toScan \ {cam}
    /\ \/ seen' = [c \in Scanned \cup found |-> IF c \in found THEN box[cam].lock[c] ELSE seen[c]]
       \/ UNCHANGED seen
    /\ UNCHANGED <<old, mkv, box, station, pushes, step, apply, gmn, left, removed, hand, moved,
                   wronged>>

Decide ==
    /\ step = "scan" /\ toScan = {}
    /\ step' = "prune"
    /\ left' = IF old THEN {c \in Scanned : Prunable(c)} ELSE {}
    /\ UNCHANGED <<old, mkv, box, station, pushes, apply, gmn, toScan, seen, removed, hand, moved,
                   wronged>>

\* What the policy in the module's docstring keeps, from what the scan has read and with
\* the locks as they are on the box now.
Partners(c) == {d \in Timed : CamOf(d) # CamOf(c) /\ Time(c) - Time(d) \in -Window..Window}
Confirms(c) == gmn /\ c \in Confirmed
Witnessed(c) == Confirms(c) \/ Partners(c) # {}

\* What scan_date's walk does not see, against that policy: a clip that comes after all its
\* partners when each of them was marked before its turn and so marked nobody.
PassedOver(c) ==
    /\ ~Confirms(c)
    /\ \A d \in Partners(c) : d < c /\ (Confirms(d) \/ \E e \in Partners(d) : e < d)

Among(c, pct, better(_, _)) ==
    c \in Timed /\ 100 * Cardinality({d \in Timed : better(d, c)}) <= pct * (Cardinality(Timed) - 1)
WorthKeeping(c) ==
    \/ ~old
    \/ box[CamOf(c)].lock[c] = "manual"
    \/ c \in Timed /\ Witnessed(c) /\ ~PassedOver(c)
    \/ Among(c, BrightPct, LAMBDA d, e : Mag(d) < Mag(e))
    \/ Among(c, LongPct, LAMBDA d, e : Dur(d) > Dur(e))

\* A dry run and one at its cap only count.
Unlink(c) ==
    /\ step = "prune" /\ c \in left /\ hand = Nothing
    /\ left' = left \ {c}
    /\ IF apply /\ (Cap = 0 \/ removed < Cap)
       THEN /\ mkv' = mkv \ {c}
            /\ hand' = [clip |-> c, state |-> box[CamOf(c)]]
            /\ wronged' = IF WorthKeeping(c) /\ CamOf(c) \notin moved THEN wronged \cup {c} ELSE wronged
            /\ removed' = removed + 1
       ELSE UNCHANGED <<mkv, hand, wronged, removed>>
    /\ UNCHANGED <<old, box, station, pushes, step, apply, gmn, toScan, seen, moved>>

UnlinkFails(c) ==
    /\ step = "prune" /\ c \in left /\ hand = Nothing /\ apply
    /\ left' = left \ {c}
    /\ UNCHANGED <<old, mkv, box, station, pushes, step, apply, gmn, toScan, seen, removed, hand,
                   moved, wronged>>

\* state.json is replaced by what was read, with the mark.
Mark ==
    /\ hand # Nothing
    /\ box' = [box EXCEPT ![CamOf(hand.clip)] = [hand.state EXCEPT !.pruned = @ \cup {hand.clip}]]
    /\ hand' = Nothing
    /\ UNCHANGED <<old, mkv, station, pushes, step, apply, gmn, toScan, seen, left, removed, moved,
                   wronged>>

\* The report is written, or the run is cut off anywhere.
Ends ==
    /\ step # "idle"
    /\ step' = "idle" /\ hand' = Nothing /\ left' = {} /\ toScan' = {}
    /\ apply' = FALSE /\ gmn' = FALSE /\ removed' = 0 /\ seen' = [c \in {} |-> "none"] /\ moved' = {}
    /\ UNCHANGED <<old, mkv, box, station, pushes, wronged>>

RetentionNext ==
    \/ GrowsOld
    \/ \E c \in Videos, l \in {"none", "manual"} : UserChanges(c, l)
    \/ \E cam \in Cams : Push(cam) \/ ScanCam(cam)
    \/ \E a \in BOOLEAN, g \in BOOLEAN : Start(a, g)
    \/ Decide
    \/ \E c \in Videos : Unlink(c) \/ UnlinkFails(c)
    \/ Mark \/ Ends

------------------------------------------------------------------------------
NightStates == [lock : [Videos -> Locks], pruned : SUBSET Videos]

RetentionTypeOK ==
    /\ old \in BOOLEAN /\ mkv \subseteq Videos /\ pushes \in 0..MaxPushes
    /\ box \in [Cams -> NightStates] /\ station \in [Cams -> NightStates]
    /\ step \in {"idle", "scan", "prune"} /\ apply \in BOOLEAN /\ gmn \in BOOLEAN
    /\ toScan \subseteq Cams /\ Scanned \subseteq Videos /\ left \subseteq Videos
    /\ removed \in 0..N /\ hand \in [clip : 0..N, state : NightStates]
    /\ moved \subseteq Cams /\ wronged \subseteq Videos

\* No pass removes a video that is recent, locked by a user or among the brightest or longest,
\* by what it has read, unless the camera pushed a newer state.json during the pass; and of
\* those seen from a second camera it removes only such as scan_date passes over: the policy
\* has no such exception, the code has (storagebox_janitor).
OnlyPassedOverGo == wronged = {}

==============================================================================
