---------------------------- MODULE StatusCache ----------------------------
(***************************************************************************)
(* StationCache of station_client and its readers: the thread that polls   *)
(* one station writes the cache, browsers subscribe to /api/events/status  *)
(* and get a snapshot and then the changes.  Locks cover less than a call: *)
(* the signature and the version are changed under one, the backend is     *)
(* written and read outside of it.                                         *)
(***************************************************************************)
EXTENDS Integers, Sequences, FiniteSets

CONSTANTS
    Clients,
    Answers,            \* what a station that is online may answer
    MaxListeners, QueueMax,
    OfflineAfter        \* failed polls before a station that was online is shown offline

VARIABLES
    station,            \* what the station would answer now
    streak,             \* _offline_streak
    sig, store,         \* _status_sig and the backend's entry
    snap,               \* _snapshot_bytes, if they are of the present version
    writer,             \* set_status: what is left of the call
    client              \* a browser, its queue and what it shows

statusVars == <<station, streak, sig, store, snap, writer, client>>

Status == Answers \cup {"offline"}
Shown == Status \cup {"nothing"}

\* step: what the generator does next; outdated: the version has changed since it began
\* to build a snapshot, read: the backend as it saw it.
Client == [step: {"away", "joined", "building", "storing", "live"},
           queue: Seq(Status), view: Shown, read: Shown, outdated: BOOLEAN]
Away(view) == [step |-> "away", queue |-> <<>>, view |-> view, read |-> "nothing",
               outdated |-> FALSE]
Writer == [step: {"idle", "store", "broadcast"}, value: Shown, changed: BOOLEAN]
IdleWriter == [step |-> "idle", value |-> "nothing", changed |-> FALSE]

StatusInit ==
    /\ station = "offline" /\ streak = 0
    /\ sig = "nothing" /\ store = "nothing"
    /\ snap = {} /\ writer = IdleWriter
    /\ client = [c \in Clients |-> Away("nothing")]

StationChanges(v) ==
    /\ station # v
    /\ station' = v
    /\ UNCHANGED <<streak, sig, store, snap, writer, client>>

------------------------------------------------------------------------------
(* set_status                                                               *)

\* Faulty variant: the cached snapshot survives a change.
KeptSnapshot == snap

DroppedSnapshot == {}

\* Under the lock: signature, version, snapshot.
SetStatus(v) ==
    /\ sig' = v
    /\ snap' = DroppedSnapshot
    /\ client' = [c \in Clients |-> [client[c] EXCEPT !.outdated = TRUE]]
    /\ writer' = [step |-> "store", value |-> v, changed |-> sig # v]

\* _poll_one_status: the answer of a station that is online.
PollOnline ==
    /\ writer.step = "idle" /\ station # "offline"
    /\ streak' = 0
    /\ SetStatus(station)
    /\ UNCHANGED <<station, store>>

ShownOnline == store \in Answers

\* A failed poll is hidden until there have been OfflineAfter of them in a row.
PollOffline ==
    /\ writer.step = "idle"
    /\ streak' = IF streak < OfflineAfter THEN streak + 1 ELSE streak
    /\ IF streak' >= OfflineAfter \/ ~ShownOnline
       THEN SetStatus("offline") ELSE UNCHANGED <<sig, snap, writer, client>>
    /\ UNCHANGED <<station, store>>

StoreStatus ==
    /\ writer.step = "store"
    /\ store' = writer.value
    /\ writer' = IF writer.changed THEN [writer EXCEPT !.step = "broadcast"] ELSE IdleWriter
    /\ UNCHANGED <<station, streak, sig, snap, client>>

Listening(c) == client[c].step # "away"

\* _broadcast_status: a full queue loses the event.
Broadcast ==
    /\ writer.step = "broadcast"
    /\ client' = [c \in Clients |->
                    IF Listening(c) /\ Len(client[c].queue) < QueueMax
                    THEN [client[c] EXCEPT !.queue = Append(@, writer.value)]
                    ELSE client[c]]
    /\ writer' = IdleWriter
    /\ UNCHANGED <<station, streak, sig, store, snap>>

------------------------------------------------------------------------------
(* api_events_status_stream: the generator of one browser's stream.         *)

Becomes(c, new) ==
    /\ client' = [client EXCEPT ![c] = new]
    /\ UNCHANGED <<station, streak, sig, store, writer>>

\* register_status_listener; a browser that is turned away tries again.
Join(c) ==
    /\ ~Listening(c)
    /\ Cardinality({d \in Clients : Listening(d)}) < MaxListeners
    /\ Becomes(c, [client[c] EXCEPT !.step = "joined"])
    /\ UNCHANGED snap

\* snapshot_bytes: the cached bytes, if their version is the present one.
CachedSnapshot(c) ==
    \E v \in snap :
        /\ client[c].step = "joined"
        /\ Becomes(c, [client[c] EXCEPT !.step = "live", !.view = v])
        /\ UNCHANGED snap

StartSnapshot(c) ==
    /\ client[c].step = "joined" /\ snap = {}
    /\ Becomes(c, [client[c] EXCEPT !.step = "building", !.outdated = FALSE])
    /\ UNCHANGED snap

ReadStore(c) ==
    /\ client[c].step = "building"
    /\ Becomes(c, [client[c] EXCEPT !.step = "storing", !.read = store])
    /\ UNCHANGED snap

\* Stored with the version read at the start: of no use to anybody if it has changed.
KeepSnapshot(c) ==
    /\ client[c].step = "storing"
    /\ snap' = IF client[c].outdated THEN {} ELSE {client[c].read}
    /\ Becomes(c, [client[c] EXCEPT !.step = "live", !.view = client[c].read,
                                    !.read = "nothing"])

Receive(c) ==
    /\ client[c].step = "live" /\ client[c].queue # <<>>
    /\ Becomes(c, [client[c] EXCEPT !.view = Head(client[c].queue), !.queue = Tail(@)])
    /\ UNCHANGED snap

\* The browser goes away, or the deadline of the stream makes it reconnect: a generator
\* ends at a yield only.
Leave(c) ==
    /\ client[c].step = "live"
    /\ Becomes(c, Away(client[c].view))
    /\ UNCHANGED snap

------------------------------------------------------------------------------
Poll == PollOnline \/ (station = "offline" /\ PollOffline) \/ StoreStatus \/ Broadcast

Stream(c) ==
    CachedSnapshot(c) \/ StartSnapshot(c) \/ ReadStore(c) \/ KeepSnapshot(c) \/ Receive(c)

StatusNext ==
    \/ \E v \in Status : StationChanges(v)
    \/ Poll \/ PollOffline
    \/ \E c \in Clients : Join(c) \/ Stream(c) \/ Leave(c)

Deadline(c) == Leave(c)

StatusFairness ==
    /\ WF_statusVars(Poll)
    /\ \A c \in Clients :
          SF_statusVars(Join(c)) /\ WF_statusVars(Stream(c)) /\ WF_statusVars(Deadline(c))

StatusSpec == StatusInit /\ [][StatusNext]_statusVars /\ StatusFairness

------------------------------------------------------------------------------
StatusTypeOK ==
    /\ station \in Status /\ streak \in 0..OfflineAfter
    /\ sig \in Shown /\ store \in Shown /\ snap \in SUBSET Shown /\ writer \in Writer
    /\ \A c \in Clients : client[c] \in Client /\ Len(client[c].queue) <= QueueMax
    /\ Cardinality({c \in Clients : Listening(c)}) <= MaxListeners

\* A station that no longer changes is shown as it is by every browser that goes on trying,
\* again and again, whatever snapshot, lost event or turned-away connection came before
\* (station_client.StationCache, /api/events/status).
CatchesUp(c) ==
    <>[][station' = station]_statusVars /\ <>[](station # "offline" => streak = 0)
        => []<>(client[c].view = station)

ViewsCatchUp == \A c \in Clients : CatchesUp(c)

==============================================================================
