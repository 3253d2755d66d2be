------------------------------ MODULE PushIngest ------------------------------
(***************************************************************************)
(* The push data plane of one station: the Publisher thread with its seq   *)
(* counter and on-disk spool (rovimen-scripts/rovimen_pusher.py), and the  *)
(* ingest handlers with their seq guard and stores                         *)
(* (dashboard/ingest_api.py, station_state.py, cache_backend.py).          *)
(*                                                                         *)
(* A request is a slot: it is lost or turned away on its way in, handled   *)
(* by a server thread step by step, and answered.  The publisher waits for *)
(* one answer at a time and may give up on it; the handler then goes on    *)
(* without a client while the publisher sends its next body.               *)
(***************************************************************************)
EXTENDS Integers, Sequences, FiniteSets

CONSTANTS
    Schedule,       \* the kinds of one cycle, in the order of "intervals"
    Slots,          \* bound: requests under way at once
    NoSlot,         \* no request is waited for
    SharedStore,    \* TRUE: ROVIMEN_REDIS_URL is set; FALSE: SQLite and memory
    StoreMayFail,   \* the seq store and the cache may raise errors
    ApplyMayFail,   \* storing an accepted payload may raise an error
    PersistMayFail, \* writing the seq state file may fail
    MaxBodies,      \* bound: bodies issued
    MaxCrashes,     \* bound: publisher stops
    MaxReboots      \* bound: dashboard restarts

Kinds    == {"heartbeat", "vitals", "detections", "media", "thumb"}

\* _send buffers every kind but detections; live thumbs do not go through _send.
Buffered == {"heartbeat", "vitals", "media"}

\* Kinds that live in the station cache, and those with a durable mirror too.
Cached   == {"heartbeat", "vitals", "thumb"}
Mirrored == {"heartbeat", "vitals"}

ASSUME ScheduleAssumption == Schedule \in Seq(Kinds)
ASSUME SlotAssumption == NoSlot \notin Slots
ASSUME FlagAssumption ==
    /\ SharedStore \in BOOLEAN /\ StoreMayFail \in BOOLEAN
    /\ ApplyMayFail \in BOOLEAN /\ PersistMayFail \in BOOLEAN
ASSUME BoundsAssumption == MaxBodies \in Nat /\ MaxCrashes \in Nat /\ MaxReboots \in Nat

VARIABLES
    seqMem,         \* SeqCounter._seq
    seqDisk,        \* last_seq in the state file
    spool,          \* the spool table
    drainQ,         \* rows of this drain that were not sent yet
    pc,             \* where the publisher is
    pos,            \* next place of Schedule in this cycle
    wait,           \* the slot whose answer is waited for
    slot,           \* requests under way
    lastSeq,        \* last accepted seq of the station
    cache,          \* cache[k]: the body the station cache holds (0: none)
    mirror,         \* mirror[k]: the body the durable mirror holds
    issued,         \* history: bodies issued so far
    accepted,       \* history: bodies that passed the seq guard
    takes,          \* history: how often the guard has let a body pass
    applied,        \* history: bodies whose payload was stored
    swallowed,      \* history: bodies dropped because the seq store failed
    crashes, reboots

publisherVars == <<seqMem, seqDisk, spool, drainQ, pc, pos, wait, issued>>
storeVars == <<lastSeq, cache, mirror, accepted, takes, applied, swallowed>>
vars == <<publisherVars, slot, storeVars, crashes, reboots>>

------------------------------------------------------------------------------
\* A body carries its seq; stamp is its place in the order of issue, which the
\* seq equals as long as the state file is written.
Body == [kind: Kinds, seq: Nat, stamp: Nat]
NoBody == [kind |-> "heartbeat", seq |-> 0, stamp |-> 0]

Stages == {"free", "sent", "accepted", "cached", "ok", "dropped", "failed"}
Answers == {"ok", "dropped", "failed"}
PCs == {"down", "cycle", "draining", "resending", "pushing", "awaiting"}
Waiting == {"resending", "awaiting"}

FreeSlot == [body |-> NoBody, stage |-> "free"]

Init ==
    /\ seqMem = 0
    /\ seqDisk = 0
    /\ spool = {}
    /\ drainQ = {}
    /\ pc = "cycle"
    /\ pos = 1
    /\ wait = NoSlot
    /\ slot = [r \in Slots |-> FreeSlot]
    /\ lastSeq = 0
    /\ cache = [k \in Cached |-> 0]
    /\ mirror = [k \in Mirrored |-> 0]
    /\ issued = 0
    /\ accepted = {}
    /\ takes = 0
    /\ applied = {}
    /\ swallowed = {}
    /\ crashes = 0
    /\ reboots = 0

------------------------------------------------------------------------------
(* The publisher.                                                           *)

\* post_json: the request leaves; its answer is waited for.
Post(r, b) ==
    /\ slot[r].stage = "free"
    /\ slot' = [slot EXCEPT ![r] = [body |-> b, stage |-> "sent"]]
    /\ wait' = r

\* The top of the loop: Spool.pending() is read once.
StartDrain ==
    /\ pc = "cycle"
    /\ drainQ' = spool
    /\ pc' = "draining"
    /\ UNCHANGED <<seqMem, seqDisk, spool, pos, wait, issued, slot, storeVars,
                   crashes, reboots>>

Oldest(b) == b \in drainQ /\ \A o \in drainQ : b.stamp <= o.stamp

Resend(r, b) ==
    /\ pc = "draining"
    /\ Oldest(b)
    /\ Post(r, b)
    /\ pc' = "resending"
    /\ UNCHANGED <<seqMem, seqDisk, spool, drainQ, pos, issued, storeVars,
                   crashes, reboots>>

EndDrain ==
    /\ pc = "draining"
    /\ drainQ = {}
    /\ pc' = "pushing"
    /\ pos' = 1
    /\ UNCHANGED <<seqMem, seqDisk, spool, drainQ, wait, issued, slot, storeVars,
                   crashes, reboots>>

\* Faulty variant: the state file gets the counter before it moves.
NextSeqSavesOld(persisted) ==
    /\ persisted \/ PersistMayFail
    /\ seqMem' = seqMem + 1
    /\ seqDisk' = IF persisted THEN seqMem ELSE seqDisk

\* SeqCounter.next: the memory counter always moves, the state file when it can
\* be written.
NextSeq(persisted) ==
    /\ persisted \/ PersistMayFail
    /\ seqMem' = seqMem + 1
    /\ seqDisk' = IF persisted THEN seqMem + 1 ELSE seqDisk

\* A kind that is due (or was skipped over: not due, no data, no local answer)
\* is enveloped with the next seq and sent.
Push(i, r, persisted) ==
    /\ pc = "pushing"
    /\ i \in pos..Len(Schedule)
    /\ issued < MaxBodies
    /\ NextSeq(persisted)
    /\ issued' = issued + 1
    /\ Post(r, [kind |-> Schedule[i], seq |-> seqMem + 1, stamp |-> issued + 1])
    /\ pos' = i + 1
    /\ pc' = "awaiting"
    /\ UNCHANGED <<spool, drainQ, storeVars, crashes, reboots>>

\* All kinds have had their turn: back off or sleep, then the next cycle.
EndCycle ==
    /\ pc = "pushing"
    /\ pc' = "cycle"
    /\ UNCHANGED <<seqMem, seqDisk, spool, drainQ, pos, wait, issued, slot,
                   storeVars, crashes, reboots>>

\* Spool.add: the newest row of a kind replaces the older ones.
Spooled(b) == {o \in spool : o.kind # b.kind} \cup {b}

\* The answer has arrived, or the publisher gives up on it: time-out, connection
\* error.  A slot that is left before its handler ends goes on by itself.
Stop(r) ==
    /\ wait' = NoSlot
    /\ slot' = IF slot[r].stage \in Answers
               THEN [slot EXCEPT ![r] = FreeSlot] ELSE slot

\* Faulty variant: a 2xx answer that says "dropped" keeps the row.
AcknowledgedStrict(r) == slot[r].stage = "ok"

\* PostResult.ok is the 2xx status: "dropped" in the JSON is not looked at.
Acknowledged(r) == slot[r].stage \in {"ok", "dropped"}

ResendOk(r) ==
    /\ pc = "resending"
    /\ r = wait
    /\ Acknowledged(r)
    /\ Stop(r)
    /\ spool' = spool \ {slot[r].body}
    /\ drainQ' = drainQ \ {slot[r].body}
    /\ pc' = "draining"
    /\ UNCHANGED <<seqMem, seqDisk, pos, issued, storeVars, crashes, reboots>>

\* The drain ends at the first failure; the pushes follow all the same.
ResendFails(r) ==
    /\ pc = "resending"
    /\ r = wait
    /\ Stop(r)
    /\ drainQ' = {}
    /\ pc' = "pushing"
    /\ pos' = 1
    /\ UNCHANGED <<seqMem, seqDisk, spool, issued, storeVars, crashes, reboots>>

PushOk(r) ==
    /\ pc = "awaiting"
    /\ r = wait
    /\ Acknowledged(r)
    /\ Stop(r)
    /\ pc' = "pushing"
    /\ UNCHANGED <<seqMem, seqDisk, spool, drainQ, pos, issued, storeVars,
                   crashes, reboots>>

PushFails(r) ==
    /\ pc = "awaiting"
    /\ r = wait
    /\ Stop(r)
    /\ spool' = IF slot[r].body.kind \in Buffered
                THEN Spooled(slot[r].body) ELSE spool
    /\ pc' = "pushing"
    /\ UNCHANGED <<seqMem, seqDisk, drainQ, pos, issued, storeVars,
                   crashes, reboots>>

\* The process stops at any point; the spool and the state file stay.
Crash ==
    /\ pc # "down"
    /\ crashes < MaxCrashes
    /\ crashes' = crashes + 1
    /\ IF wait = NoSlot THEN UNCHANGED <<wait, slot>> ELSE Stop(wait)
    /\ pc' = "down"
    /\ seqMem' = 0
    /\ drainQ' = {}
    /\ pos' = 1
    /\ UNCHANGED <<seqDisk, spool, issued, storeVars, reboots>>

\* systemd restarts it; SeqCounter reads the state file.
Restart ==
    /\ pc = "down"
    /\ seqMem' = seqDisk
    /\ pc' = "cycle"
    /\ UNCHANGED <<seqDisk, spool, drainQ, pos, wait, issued, slot, storeVars,
                   crashes, reboots>>

------------------------------------------------------------------------------
(* The ingest handlers.                                                     *)

\* A handler ends: its answer waits for the client, if it still has one.
Answer(r, a) ==
    slot' = [slot EXCEPT ![r] = IF r = wait THEN [@ EXCEPT !.stage = a] ELSE FreeSlot]

Proceed(r, stage) == slot' = [slot EXCEPT ![r].stage = stage]

\* The request is lost, rate-limited (429) or turned away before the seq guard.
TurnedAway(r) ==
    /\ slot[r].stage = "sent"
    /\ Answer(r, "failed")
    /\ UNCHANGED <<publisherVars, storeVars, crashes, reboots>>

\* Faulty variants: an equal seq passes; the next seq does not.
FreshOrEqual(b) == b.seq >= lastSeq
FreshAfterGap(b) == b.seq > lastSeq + 1

Fresh(b) == b.seq > lastSeq

\* accept_seq: one atomic check and bump.
Accept(r) ==
    /\ slot[r].stage = "sent"
    /\ Fresh(slot[r].body)
    /\ lastSeq' = slot[r].body.seq
    /\ accepted' = accepted \cup {slot[r].body.stamp}
    /\ takes' = takes + 1
    /\ Proceed(r, "accepted")
    /\ UNCHANGED <<publisherVars, cache, mirror, applied, swallowed, crashes, reboots>>

\* A replay is answered 200 and dropped.
Drop(r) ==
    /\ slot[r].stage = "sent"
    /\ ~Fresh(slot[r].body)
    /\ Answer(r, "dropped")
    /\ UNCHANGED <<publisherVars, storeVars, crashes, reboots>>

\* An error of the seq store: SQLite raises (500, nothing written), the Redis
\* backend reports a replay, with or without the bump having taken place.
AcceptError(r, bumped) ==
    /\ StoreMayFail
    /\ slot[r].stage = "sent"
    /\ bumped => SharedStore /\ Fresh(slot[r].body)
    /\ lastSeq' = IF bumped THEN slot[r].body.seq ELSE lastSeq
    /\ swallowed' = IF SharedStore THEN swallowed \cup {slot[r].body.stamp} ELSE swallowed
    /\ Answer(r, IF SharedStore THEN "dropped" ELSE "failed")
    /\ UNCHANGED <<publisherVars, cache, mirror, accepted, takes, applied,
                   crashes, reboots>>

AfterCache(k) == IF k \in Mirrored THEN "cached" ELSE "ok"

Advance(r, stage) == IF stage = "ok" THEN Answer(r, "ok") ELSE Proceed(r, stage)

\* cache_set_status / _vitals / _live_thumb: the cache takes the body as it comes.
\* The Redis cache logs an error of its own and goes on (stored = FALSE).
SetCache(r, stored) ==
    LET b == slot[r].body IN
    /\ slot[r].stage = "accepted"
    /\ b.kind \in Cached
    /\ stored \/ (SharedStore /\ StoreMayFail)
    /\ cache' = IF stored THEN [cache EXCEPT ![b.kind] = b.stamp] ELSE cache
    /\ applied' = IF stored THEN applied \cup {b.stamp} ELSE applied
    /\ Advance(r, AfterCache(b.kind))
    /\ UNCHANGED <<publisherVars, lastSeq, mirror, accepted, takes, swallowed,
                   crashes, reboots>>

\* record_status / record_vitals: the durable mirror.
RecordMirror(r) ==
    /\ slot[r].stage = "cached"
    /\ mirror' = [mirror EXCEPT ![slot[r].body.kind] = slot[r].body.stamp]
    /\ Answer(r, "ok")
    /\ UNCHANGED <<publisherVars, lastSeq, cache, accepted, takes, applied, swallowed,
                   crashes, reboots>>

\* upsert_detections / upsert_media_pointers.
Upsert(r) ==
    /\ slot[r].stage = "accepted"
    /\ slot[r].body.kind \notin Cached
    /\ applied' = applied \cup {slot[r].body.stamp}
    /\ Answer(r, "ok")
    /\ UNCHANGED <<publisherVars, lastSeq, cache, mirror, accepted, takes, swallowed,
                   crashes, reboots>>

\* Storing the payload raises: 500, and the seq stays accepted.
ApplyError(r) ==
    /\ ApplyMayFail
    /\ slot[r].stage \in {"accepted", "cached"}
    /\ Answer(r, "failed")
    /\ UNCHANGED <<publisherVars, storeVars, crashes, reboots>>

\* The dashboard restarts: handlers die, the in-process cache is empty again.
Reboot ==
    /\ reboots < MaxReboots
    /\ reboots' = reboots + 1
    /\ slot' = [r \in Slots |->
                  IF r = wait
                  THEN [slot[r] EXCEPT !.stage = IF @ \in Answers THEN @ ELSE "failed"]
                  ELSE FreeSlot]
    /\ cache' = IF SharedStore THEN cache ELSE [k \in Cached |-> 0]
    /\ UNCHANGED <<publisherVars, lastSeq, mirror, accepted, takes, applied, swallowed,
                   crashes>>

------------------------------------------------------------------------------
Publisher ==
    \/ StartDrain \/ EndDrain \/ EndCycle \/ Restart
    \/ \E r \in Slots :
          \/ \E b \in drainQ : Resend(r, b)
          \/ ResendOk(r) \/ ResendFails(r) \/ PushOk(r) \/ PushFails(r)
          \/ \E i \in 1..Len(Schedule), persisted \in BOOLEAN : Push(i, r, persisted)

Handler(r) ==
    \/ TurnedAway(r) \/ Accept(r) \/ Drop(r)
    \/ \E bumped \in BOOLEAN : AcceptError(r, bumped)
    \/ \E stored \in BOOLEAN : SetCache(r, stored)
    \/ RecordMirror(r) \/ Upsert(r) \/ ApplyError(r)

Next == Publisher \/ (\E r \in Slots : Handler(r)) \/ Crash \/ Reboot

ReachesGuard(r) == r = wait /\ (Accept(r) \/ Drop(r))

\* The publisher's loop and the server's threads go on.  The link is fair: a
\* request sent again and again reaches a working seq guard in time, and an answer
\* that is there again and again is received before the publisher gives up on it.
Fairness ==
    /\ WF_vars(Publisher)
    /\ \A r \in Slots :
          /\ WF_vars(Handler(r))
          /\ SF_vars(ReachesGuard(r))
          /\ SF_vars(ResendOk(r))

Spec == Init /\ [][Next]_vars /\ Fairness

------------------------------------------------------------------------------
(* Properties.                                                              *)

\* Every variable has its type.
TypeOK ==
    /\ seqMem \in Nat /\ seqDisk \in Nat /\ lastSeq \in Nat
    /\ issued \in Nat /\ takes \in Nat /\ crashes \in Nat /\ reboots \in Nat
    /\ spool \subseteq Body
    /\ drainQ \subseteq Body
    /\ pc \in PCs
    /\ pos \in 1..(Len(Schedule) + 1)
    /\ wait \in Slots \cup {NoSlot}
    /\ slot \in [Slots -> [body: Body, stage: Stages]]
    /\ cache \in [Cached -> Nat]
    /\ mirror \in [Mirrored -> Nat]
    /\ accepted \subseteq Nat /\ applied \subseteq Nat /\ swallowed \subseteq Nat

\* A body that is answered 2xx the first time it is sent has been stored: its seq
\* is above everything the guard has seen, whatever older requests and resends
\* are still on their way and however often either side has restarted.
FreshConfirmedStored ==
    pc = "awaiting" /\ Acknowledged(wait) => slot[wait].body.stamp \in applied

\* A restarted publisher goes on above everything the guard has accepted: the
\* state file is never behind (SeqCounter._persist before the POST).
StateFileKeepsUp == lastSeq <= seqDisk

\* The spool holds one row per buffered kind, and never two bodies of one seq
\* that the guard could both let pass (Spool.add deletes the kind first).
OneRowPerKind ==
    /\ \A b \in spool : b.kind \in Buffered
    /\ \A a, b \in spool : a.kind = b.kind \/ a.seq = b.seq => a = b

\* The seq guard implements the ledger: bodies are accepted in the order of issue,
\* at most once, and only accepted ones take effect, once; resends, requests the
\* publisher gave up on and restarts of both sides included.
Ledger == INSTANCE PushLedger

ImplementsPushLedger == Ledger!PushLedgerSpec

\* A buffered body does not stay in the spool for ever: it is resent with success
\* or replaced by a newer one (drain_spool before every cycle).
SpoolDrains == \A k \in Buffered : []<>(\A b \in spool : b.kind # k)

------------------------------------------------------------------------------
(* What the documentation says and the code does not do.                    *)

\* ingest_api.py:548 "a stale/replayed thumb is 200-and-dropped so an
\* out-of-order POST can't overwrite a newer one".
NoStaleOverwrite == [][\A k \in Cached : cache'[k] >= cache[k]]_vars

==============================================================================
