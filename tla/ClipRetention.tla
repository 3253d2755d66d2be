---------------------------- MODULE ClipRetention ----------------------------
(***************************************************************************)
(* One night of one station's video clips, from the closed segment to the  *)
(* archive and to the janitor: the lock endpoint of station_api with its   *)
(* upload and delete threads, archive_upload, encoder, detection_lock,     *)
(* dawn_process and janitor_storage_watchdog, which meet in the night's    *)
(* directory and in its state.json.                                        *)
(*                                                                         *)
(* A change of a flag is one step (FlagsManager); an encoder run, a        *)
(* transfer, a remote delete and a check followed by an unlink are several.*)
(* The layout is the flat one that every writer uses: the clips and        *)
(* state.json lie side by side in <capture>/<station>/<date>/.             *)
(***************************************************************************)
EXTENDS FiniteSets

CONSTANTS
    Clips,
    Tasks,          \* bound: upload and delete threads of the API at once
    Dawn            \* the dawn process

ASSUME DawnAssumption == Dawn \notin Tasks

VARIABLES
    hits,           \* clips with a line in the night's FTPdetectinfo, once it is there
    file,           \* file[c]: the clip on the station's disk
    lock, reenc, up,    \* its entry of state.json: lock, reencoded, uploaded
    morning,        \* morning_done of the night
    archive,        \* archive[c]: the clip in the remote archive
    enc,            \* enc[w]: the encoder run of worker w, if any
    task,           \* task[k]: a thread of the API
    pc, todo,       \* the dawn process and the clips before it in this phase
    backfill,       \* its upload is the sweep over earlier nights
    victim,         \* the file the janitor has decided to delete
    age,            \* the night, by the retention of plain and of locked clips
    pressure,       \* the highest disk level so far
    confirmed,      \* history: clips locked by the detection pass
    asked,          \* history: clips locked by the endpoint
    unlocked        \* history: clips unlocked by the endpoint

flagVars == <<lock, reenc, up, morning>>
apiVars == <<task, asked, unlocked>>
dawnVars == <<pc, todo, backfill, confirmed>>
nightVars == <<hits, victim, age, pressure>>
vars == <<file, flagVars, archive, enc, apiVars, dawnVars, nightVars>>

Workers == Tasks \cup {Dawn}

Contents == {"raw", "enc"}
Locks    == {"none", "manual", "detection"}
Steps    == {"free", "check", "encode", "send", "mark", "rm", "unmark"}
PCs      == {"idle", "confirm", "unlock", "encode", "upload", "mark", "bulk"}
Ages     == {"young", "old", "expired"}
Levels   == {"none", "warn", "nuclear", "extreme"}

\* renamed: <clip>.tmp.mkv has taken the place of the clip.
Run  == [clip: Clips, renamed: BOOLEAN]
Task == [step: Steps, clip: SUBSET Clips]
Free == [step |-> "free", clip |-> {}]

OnDisk(c) == file[c] # "gone"
Locked(c) == lock[c] # "none"

Init ==
    /\ hits \in SUBSET Clips
    /\ file = [c \in Clips |-> "raw"]
    /\ lock = [c \in Clips |-> "none"]
    /\ reenc = [c \in Clips |-> FALSE]
    /\ up = [c \in Clips |-> FALSE]
    /\ morning = FALSE
    /\ archive = [c \in Clips |-> "none"]
    /\ enc = [w \in Workers |-> {}]
    /\ task = [k \in Tasks |-> Free]
    /\ pc = "idle" /\ todo = {} /\ backfill = FALSE
    /\ victim = {} /\ age = "young" /\ pressure = "none"
    /\ confirmed = {} /\ asked = {} /\ unlocked = {}

------------------------------------------------------------------------------
(* encoder.process_chunk: ffmpeg into <clip>.tmp.mkv, rename, flag.         *)

\* Nothing to do, or the source has vanished.
NothingToEncode(c) == reenc[c] \/ ~OnDisk(c)

StartRun(w, c) ==
    /\ ~NothingToEncode(c)
    /\ enc' = [enc EXCEPT ![w] = {[clip |-> c, renamed |-> FALSE]}]

\* ffmpeg is done, and what lies in <clip>.tmp.mkv becomes the clip: this worker's
\* work or that of another one on the same clip, even if the janitor has deleted it.
FinishRun(w) ==
    \E e \in enc[w] :
        /\ ~e.renamed
        /\ file' = [file EXCEPT ![e.clip] = "enc"]
        /\ enc' = [enc EXCEPT ![w] = {[e EXCEPT !.renamed = TRUE]}]
        /\ UNCHANGED <<flagVars, archive, apiVars, dawnVars, nightVars>>

\* Faulty variant: the flag is set whatever became of the run.
FailRunFlagged(w) ==
    \E e \in enc[w] :
        /\ enc' = [enc EXCEPT ![w] = {}]
        /\ reenc' = [reenc EXCEPT ![e.clip] = TRUE]
        /\ UNCHANGED <<file, lock, up, morning, archive>>

\* ffmpeg fails or is too slow, another worker has renamed the shared tmp file,
\* or the flag cannot be written: the run ends with an error.
FailRun(w) ==
    /\ enc[w] # {}
    /\ enc' = [enc EXCEPT ![w] = {}]
    /\ UNCHANGED <<file, flagVars, archive>>

\* mark_reencoded, a step of its own after the rename.
MarkReencoded(w) ==
    \E e \in enc[w] :
        /\ e.renamed
        /\ reenc' = [reenc EXCEPT ![e.clip] = TRUE]
        /\ enc' = [enc EXCEPT ![w] = {}]
        /\ UNCHANGED <<file, lock, up, morning, archive>>

------------------------------------------------------------------------------
(* station_api: POST /api/lock and the threads it starts.                   *)

Goto(k, step) == task' = [task EXCEPT ![k].step = step]

Call(k, c, step) ==
    /\ OnDisk(c)
    /\ task[k] = Free
    /\ task' = [task EXCEPT ![k] = [step |-> step, clip |-> {c}]]
    /\ UNCHANGED <<file, reenc, up, morning, archive, enc, dawnVars, nightVars>>

ApiLock(k, c) ==
    /\ Call(k, c, "check")
    /\ lock' = [lock EXCEPT ![c] = "manual"]
    /\ asked' = asked \cup {c}
    /\ UNCHANGED unlocked

ApiUnlock(k, c) ==
    /\ Call(k, c, "rm")
    /\ lock' = [lock EXCEPT ![c] = "none"]
    /\ unlocked' = unlocked \cup {c}
    /\ UNCHANGED asked

\* upload_chunk: process_chunk first.
UploadCheck(k, c) ==
    /\ task[k].step = "check" /\ c \in task[k].clip
    /\ \/ NothingToEncode(c) /\ Goto(k, "send") /\ UNCHANGED enc
       \/ StartRun(k, c) /\ Goto(k, "encode")
    /\ UNCHANGED <<file, flagVars, archive, asked, unlocked, dawnVars, nightVars>>

\* Its result is not looked at: a clip that could not be encoded goes out raw.
UploadEncoded(k) ==
    /\ task[k].step = "encode"
    /\ MarkReencoded(k) \/ FailRun(k)
    /\ Goto(k, "send")
    /\ UNCHANGED <<asked, unlocked, dawnVars, nightVars>>

\* rsync_file; a transfer that is reported failed may have taken place.
UploadSend(k, c, arrived, ok) ==
    /\ task[k].step = "send" /\ c \in task[k].clip
    /\ arrived => OnDisk(c)
    /\ ok => arrived
    /\ archive' = IF arrived THEN [archive EXCEPT ![c] = file[c]] ELSE archive
    /\ task' = [task EXCEPT ![k] = IF ok THEN [@ EXCEPT !.step = "mark"] ELSE Free]
    /\ UNCHANGED <<file, flagVars, enc, asked, unlocked, dawnVars, nightVars>>

\* _mark_uploaded; a flag that cannot be written is logged and left.
MarkUploaded(c) == up' = [up EXCEPT ![c] = TRUE] \/ UNCHANGED up

UploadMark(k, c) ==
    /\ task[k].step = "mark" /\ c \in task[k].clip
    /\ MarkUploaded(c)
    /\ task' = [task EXCEPT ![k] = Free]
    /\ UNCHANGED <<file, lock, reenc, morning, archive, enc, asked, unlocked,
                   dawnVars, nightVars>>

\* delete_chunk: ssh rm -f, then the flag is cleared whatever ssh said.
DeleteRemote(k, c, done) ==
    /\ task[k].step = "rm" /\ c \in task[k].clip
    /\ archive' = IF done THEN [archive EXCEPT ![c] = "none"] ELSE archive
    /\ Goto(k, "unmark")
    /\ UNCHANGED <<file, flagVars, enc, asked, unlocked, dawnVars, nightVars>>

DeleteUnmark(k, c) ==
    /\ task[k].step = "unmark" /\ c \in task[k].clip
    /\ up' = [up EXCEPT ![c] = FALSE]
    /\ task' = [task EXCEPT ![k] = Free]
    /\ UNCHANGED <<file, lock, reenc, morning, archive, enc, asked, unlocked,
                   dawnVars, nightVars>>

\* The API stops; its daemon threads die with it.
ApiStops ==
    /\ \E k \in Tasks : task[k] # Free
    /\ task' = [k \in Tasks |-> Free]
    /\ enc' = [w \in Workers |-> IF w \in Tasks THEN {} ELSE enc[w]]
    /\ UNCHANGED <<file, flagVars, archive, asked, unlocked, dawnVars, nightVars>>

------------------------------------------------------------------------------
(* dawn_process: one instance at a time, by its lock file.                  *)

Phase(next, clips) == pc' = next /\ todo' = clips

Started(c) == todo' = todo \ {c}

\* All cameras are through with RMS and the night is not morning_done.  The
\* detection pass looks at the clips that are there.
DawnStart ==
    /\ pc = "idle" /\ age = "young" /\ ~morning
    /\ Phase("confirm", {c \in hits : OnDisk(c)})
    /\ backfill' = FALSE
    /\ UNCHANGED <<file, flagVars, archive, enc, apiVars, confirmed, nightVars>>

\* detection_lock.process_night: every clip with a detection is locked (anew); a
\* lock that cannot be written is logged and left.
Confirm(c) ==
    /\ pc = "confirm" /\ c \in todo
    /\ Started(c)
    /\ \/ /\ lock' = [lock EXCEPT ![c] = "detection"]
          /\ confirmed' = confirmed \cup {c}
       \/ UNCHANGED <<lock, confirmed>>
    /\ UNCHANGED <<file, reenc, up, morning, archive, enc, apiVars, pc, backfill, nightVars>>

\* The state is loaded once: locked clips without a detection, whoever locked them.
FindFalse ==
    /\ pc = "confirm" /\ todo = {}
    /\ Phase("unlock", {c \in Clips \ hits : Locked(c) /\ OnDisk(c)})
    /\ UNCHANGED <<file, flagVars, archive, enc, apiVars, backfill, confirmed, nightVars>>

RemoveFalse(c) ==
    /\ pc = "unlock" /\ c \in todo
    /\ Started(c)
    /\ lock' = [lock EXCEPT ![c] = "none"] \/ UNCHANGED lock
    /\ UNCHANGED <<file, reenc, up, morning, archive, enc, apiVars, pc, backfill,
                   confirmed, nightVars>>

\* process_night_locked_only; the detection pass may have been skipped or broken off.
PickLocked ==
    /\ pc \in {"confirm", "unlock"}
    /\ pc = "unlock" => todo = {}
    /\ Phase("encode", {c \in Clips : Locked(c) /\ OnDisk(c)})
    /\ UNCHANGED <<file, flagVars, archive, enc, apiVars, backfill, confirmed, nightVars>>

\* The pool's workers take one clip each; they are alike and meet nobody's flags.
DawnEncode(c) ==
    /\ pc \in {"encode", "bulk"} /\ c \in todo
    /\ enc[Dawn] = {}
    /\ Started(c)
    /\ (NothingToEncode(c) /\ UNCHANGED enc) \/ StartRun(Dawn, c)
    /\ UNCHANGED <<file, flagVars, archive, apiVars, pc, backfill, confirmed, nightVars>>

DawnEncoded ==
    /\ MarkReencoded(Dawn) \/ FailRun(Dawn)
    /\ UNCHANGED <<apiVars, dawnVars, nightVars>>

\* Locked, encoded and not uploaded: what a pass of the uploader sends.
Pending == {c \in Clips : OnDisk(c) /\ ~up[c] /\ Locked(c) /\ reenc[c]}

ScanUploads ==
    /\ pc = "encode" /\ todo = {} /\ enc[Dawn] = {}
    /\ Phase("upload", Pending)
    /\ UNCHANGED <<file, flagVars, archive, enc, apiVars, backfill, confirmed, nightVars>>

\* The sweep over all nights at the end of this night's run or of a later one's.
StartBackfill ==
    /\ pc = "idle"
    /\ Phase("upload", Pending)
    /\ backfill' = TRUE
    /\ UNCHANGED <<file, flagVars, archive, enc, apiVars, confirmed, nightVars>>

\* Faulty variant: every file of the batch is taken as transferred.
DawnUploadAll(arrived, returned) ==
    /\ pc = "upload"
    /\ arrived \subseteq {c \in todo : OnDisk(c)}
    /\ archive' = [c \in Clips |-> IF c \in arrived THEN file[c] ELSE archive[c]]
    /\ Phase("mark", todo)
    /\ UNCHANGED <<file, flagVars, enc, apiVars, backfill, confirmed, nightVars>>

\* rsync_batch with its fallback to single files: the clips it returns have
\* arrived, and some it does not return may have arrived as well.
DawnUpload(arrived, returned) ==
    /\ pc = "upload"
    /\ arrived \subseteq {c \in todo : OnDisk(c)}
    /\ returned \subseteq arrived
    /\ archive' = [c \in Clips |-> IF c \in arrived THEN file[c] ELSE archive[c]]
    /\ Phase("mark", returned)
    /\ UNCHANGED <<file, flagVars, enc, apiVars, backfill, confirmed, nightVars>>

DawnMark(c) ==
    /\ pc = "mark" /\ c \in todo
    /\ MarkUploaded(c)
    /\ Started(c)
    /\ UNCHANGED <<file, lock, reenc, morning, archive, enc, apiVars, pc, backfill,
                   confirmed, nightVars>>

\* Phase 6, process_night: all clips.
StartBulk ==
    /\ pc = "mark" /\ todo = {} /\ ~backfill
    /\ Phase("bulk", {c \in Clips : OnDisk(c)})
    /\ UNCHANGED <<file, flagVars, archive, enc, apiVars, backfill, confirmed, nightVars>>

\* morning_done: after phase 6, or without it when it is past 11:00 UTC.
DawnDone ==
    /\ \/ pc = "bulk" /\ todo = {} /\ enc[Dawn] = {}
       \/ pc = "mark" /\ todo = {}
    /\ Phase("idle", {})
    /\ morning' = (morning \/ ~backfill)
    /\ UNCHANGED <<file, lock, reenc, up, archive, enc, apiVars, backfill, confirmed, nightVars>>

\* SIGTERM from color_capture, or the daily reboot.
DawnKilled ==
    /\ pc # "idle"
    /\ Phase("idle", {})
    /\ enc' = [enc EXCEPT ![Dawn] = {}]
    /\ UNCHANGED <<file, flagVars, archive, apiVars, backfill, confirmed, nightVars>>

\* _sweep_stale_locks: stale_lock_days and retention.locked_days are both 7.
SweepStale ==
    /\ pc = "idle" /\ age = "expired"
    /\ lock' = [c \in Clips |-> "none"]
    /\ UNCHANGED <<file, reenc, up, morning, archive, enc, apiVars, dawnVars, nightVars>>

------------------------------------------------------------------------------
(* The janitor, every ten minutes: a check, then an unlink.                 *)

\* A run of the dawn process does not outlast the retention of plain clips.
GrowOld ==
    /\ pc = "idle"
    /\ \/ age = "young" /\ age' = "old"
       \/ age = "old" /\ age' = "expired"
    /\ UNCHANGED <<file, flagVars, archive, enc, apiVars, dawnVars, hits, victim, pressure>>

DiskFills ==
    /\ \/ pressure = "none" /\ pressure' = "warn"
       \/ pressure = "warn" /\ pressure' = "nuclear"
       \/ pressure = "nuclear" /\ pressure' = "extreme"
    /\ UNCHANGED <<file, flagVars, archive, enc, apiVars, dawnVars, hits, victim, age>>

\* Faulty variant: the lock is not looked at.
OutdatedAll(c) == age \in {"old", "expired"}

\* _purge_station: plain clips by color_days, locked ones by locked_days.
Outdated(c) == age = "expired" \/ (age = "old" /\ ~Locked(c))

\* _escalate_uploaded, _escalate_nuclear.
PressedOut(c) ==
    \/ pressure # "none" /\ up[c]
    \/ pressure \in {"nuclear", "extreme"} /\ ~Locked(c)
    \/ pressure = "extreme"

JanitorPicks(c) ==
    /\ victim = {} /\ OnDisk(c)
    /\ Outdated(c) \/ PressedOut(c)
    /\ victim' = {c}
    /\ UNCHANGED <<file, flagVars, archive, enc, apiVars, dawnVars, hits, age, pressure>>

JanitorUnlinks(c) ==
    /\ c \in victim
    /\ file' = [file EXCEPT ![c] = "gone"]
    /\ victim' = {}
    /\ UNCHANGED <<flagVars, archive, enc, apiVars, dawnVars, hits, age, pressure>>

\* _escalate_nuclear deletes every other file of the directory, state.json too.
NuclearWipesState ==
    /\ pressure \in {"nuclear", "extreme"}
    /\ victim = {}
    /\ lock' = [c \in Clips |-> "none"]
    /\ reenc' = [c \in Clips |-> FALSE]
    /\ up' = [c \in Clips |-> FALSE]
    /\ morning' = FALSE
    /\ UNCHANGED <<file, archive, enc, apiVars, dawnVars, nightVars>>

------------------------------------------------------------------------------
Api ==
    \/ \E k \in Tasks : UploadEncoded(k)
    \/ \E k \in Tasks, c \in Clips :
          \/ ApiLock(k, c) \/ ApiUnlock(k, c) \/ UploadCheck(k, c)
          \/ \E arrived, ok \in BOOLEAN : UploadSend(k, c, arrived, ok)
          \/ UploadMark(k, c) \/ DeleteUnmark(k, c)
          \/ \E done \in BOOLEAN : DeleteRemote(k, c, done)
    \/ ApiStops

DawnProcess ==
    \/ DawnStart \/ FindFalse \/ PickLocked \/ DawnEncoded \/ ScanUploads
    \/ StartBackfill \/ StartBulk \/ DawnDone \/ DawnKilled \/ SweepStale
    \/ \E c \in Clips : Confirm(c) \/ RemoveFalse(c) \/ DawnEncode(c) \/ DawnMark(c)
    \/ \E arrived, returned \in SUBSET todo : DawnUpload(arrived, returned)

Janitor ==
    \/ GrowOld \/ DiskFills \/ NuclearWipesState
    \/ \E c \in Clips : JanitorPicks(c) \/ JanitorUnlinks(c)

Next == Api \/ DawnProcess \/ Janitor \/ \E w \in Workers : FinishRun(w)

Spec == Init /\ [][Next]_vars

------------------------------------------------------------------------------
(* Properties.                                                              *)

\* Every variable has its type.
TypeOK ==
    /\ hits \in SUBSET Clips
    /\ file \in [Clips -> Contents \cup {"gone"}]
    /\ lock \in [Clips -> Locks]
    /\ reenc \in [Clips -> BOOLEAN] /\ up \in [Clips -> BOOLEAN] /\ morning \in BOOLEAN
    /\ archive \in [Clips -> Contents \cup {"none"}]
    /\ enc \in [Workers -> SUBSET Run]
    /\ task \in [Tasks -> Task]
    /\ pc \in PCs /\ todo \in SUBSET Clips /\ backfill \in BOOLEAN
    /\ victim \in SUBSET Clips /\ age \in Ages /\ pressure \in Levels
    /\ confirmed \in SUBSET Clips /\ asked \in SUBSET Clips /\ unlocked \in SUBSET Clips

\* An uploaded flag means that the archive holds the clip (archive_upload: "so the
\* janitor knows which files are safe to delete"), for clips no user has unlocked:
\* failed, repeated and unanswered transfers, killed uploaders and two uploaders at
\* once included.
UploadedIsArchived == \A c \in Clips \ unlocked : up[c] => archive[c] # "none"

\* The detection pass makes a clip safe: until its retention ends, and short of
\* the nuclear level, it leaves the disk only when the archive has it.
MeteorKept ==
    \A c \in confirmed \ unlocked :
        /\ ~OnDisk(c) /\ age # "expired" /\ pressure \in {"none", "warn"}
        => archive[c] # "none"

\* The dawn process archives no raw clip, though the encoder renames first and
\* flags later, dies in between and works beside another one: only the endpoint's
\* upload, whose encoder may fail, sends one.
RawOnlyOnRequest == \A c \in Clips : archive[c] = "raw" => c \in asked

------------------------------------------------------------------------------
(* What the documentation says and the code does not do.                    *)

\* janitor_storage_watchdog.py:561 "also_stacks=False (nuclear): unlocked MKVs +
\* uploaded locked MKVs": below the extreme level the janitor does not choose a
\* confirmed meteor that is not in the archive.
NuclearSparesMeteors ==
    [][\A c \in confirmed \ unlocked :
        c \in victim' \ victim /\ age # "expired" /\ pressure # "extreme"
        => archive[c] # "none"]_vars

==============================================================================
