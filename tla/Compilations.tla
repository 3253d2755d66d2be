---------------------------- MODULE Compilations ----------------------------
(***************************************************************************)
(* Video compilations: the manifests of compilation_store, the routes of   *)
(* routes/compilation.py that read a manifest and then write it, the cron  *)
(* tick that fires the scheduled ones, and the build threads (fetch,       *)
(* concat, archive, upload to YouTube) behind a semaphore.                 *)
(***************************************************************************)
EXTENDS Integers, FiniteSets

CONSTANTS
    Manifests,          \* manifest ids
    Requests,           \* bound: requests and ticks being served at once
    Builders,           \* bound: build threads alive at once
    Concurrency,        \* _COMPILATION_BUILD_CONCURRENCY
    MaxRestarts         \* bound: restarts of the dashboard

ASSUME ManifestsAssumption == Manifests # {} /\ MaxRestarts \in Nat

VARIABLES
    manifest,           \* the store: id -> [status, sched]; whether it has clips is left open
    request,            \* those that have read a manifest and not yet written it
    builder,            \* the build threads
    workdir,            \* ids whose /tmp/rovimen_compilation_<id> is there
    orphans,            \* ids whose build a restart killed
    restarts

compilationVars == <<manifest, request, builder, workdir, orphans, restarts>>

Statuses == {"absent", "draft", "scheduled", "building", "uploading", "done", "error"}
Absent == [status |-> "absent", sched |-> FALSE]
Records == [status: Statuses, sched: BOOLEAN]

AnyId == CHOOSE c \in Manifests : TRUE
\* What a request will do, to which manifest, and the fields it will store.
NoRequest == [op |-> "none", id |-> AnyId, new |-> Absent]
\* steps of a build: waiting for a slot, reading the manifest, fetching clips, joining
\* them, uploading
NoBuild == [step |-> "idle", id |-> AnyId]
Admitted == {"reading", "fetching", "joining", "uploading"}

Busy(c) == manifest[c].status \in {"building", "uploading"}
Exists(c) == manifest[c].status # "absent"

CompilationInit ==
    /\ manifest = [c \in Manifests |-> Absent]
    /\ request = [r \in Requests |-> NoRequest]
    /\ builder = [b \in Builders |-> NoBuild]
    /\ workdir = {} /\ orphans = {}
    /\ restarts = 0

------------------------------------------------------------------------------
(* The routes: what they read first ...                                     *)

Asks(r, op, c, new) ==
    /\ request[r].op = "none"
    /\ request' = [request EXCEPT ![r] = [op |-> op, id |-> c, new |-> new]]
    /\ UNCHANGED <<manifest, builder, workdir, orphans, restarts>>

\* api_compilation_create: the id is not in load_all.
CreateRead(r, c) ==
    /\ ~Exists(c)
    /\ \E sched \in BOOLEAN :
          Asks(r, "create", c, [status |-> IF sched THEN "scheduled" ELSE "draft",
                                sched |-> sched])

\* api_compilation_patch with scheduled_for, which the status follows, or it stays: 409
\* mid-build.  Other fields change nothing here.
PatchRead(r, c) ==
    /\ Exists(c) /\ ~Busy(c)
    /\ \E sched \in BOOLEAN :
          Asks(r, "patch", c,
               [status |-> CASE sched -> "scheduled"
                             [] ~sched /\ manifest[c].status \in {"scheduled", "error"} -> "draft"
                             [] OTHER -> "absent",
                sched |-> sched])

\* api_compilation_delete: 404, 409.
DeleteRead(r, c) == Exists(c) /\ ~Busy(c) /\ Asks(r, "delete", c, Absent)

\* api_compilation_build: 404, 409, 400 without clips.
BuildRead(r, c) == Exists(c) /\ ~Busy(c) /\ Asks(r, "build", c, Absent)

\* internal_compilation_tick: load_all, and what is scheduled for a time gone by is fired.
TickRead(r, c) ==
    manifest[c].status = "scheduled" /\ manifest[c].sched /\ Asks(r, "build", c, Absent)

------------------------------------------------------------------------------
(* ... and what they write.                                                 *)

Answered(r) == request' = [request EXCEPT ![r] = NoRequest]

Merged(old, new) ==
    CASE old.status = "absent" -> old
      [] new.status = "absent" -> [new EXCEPT !.status = old.status]
      [] OTHER -> new

Status(old, status) == IF old.status = "absent" THEN old ELSE [old EXCEPT !.status = status]

CreateStore(r) ==
    /\ request[r].op = "create"
    /\ manifest' = [manifest EXCEPT ![request[r].id] = request[r].new]
    /\ Answered(r)
    /\ UNCHANGED <<builder, workdir, orphans, restarts>>

PatchStore(r) ==
    /\ request[r].op = "patch"
    /\ manifest' = [manifest EXCEPT ![request[r].id] = Merged(@, request[r].new)]
    /\ Answered(r)
    /\ UNCHANGED <<builder, workdir, orphans, restarts>>

DeleteStore(r) ==
    /\ request[r].op = "delete"
    /\ manifest' = [manifest EXCEPT ![request[r].id] = Absent]
    /\ Answered(r)
    /\ UNCHANGED <<builder, workdir, orphans, restarts>>

\* The status is building before the thread starts.
BuildStore(r) ==
    LET c == request[r].id IN
    /\ request[r].op = "build"
    /\ \E b \in Builders :
          /\ builder[b].step = "idle"
          /\ builder' = [builder EXCEPT ![b] = [step |-> "queued", id |-> c]]
    /\ manifest' = [manifest EXCEPT ![c] = Status(@, "building")]
    /\ orphans' = orphans \ {c}
    /\ Answered(r)
    /\ UNCHANGED <<workdir, restarts>>

------------------------------------------------------------------------------
(* The build threads: _run_compilation_build.                               *)

\* _compilation_set, if the manifest is still there.
Sets(c, status) == manifest' = [manifest EXCEPT ![c] = Status(@, status)]

GoesTo(b, step) == builder' = [builder EXCEPT ![b].step = step]
\* The thread ends; its slot is free again.
Ends(b) == builder' = [builder EXCEPT ![b] = NoBuild]

SlotFree == Cardinality({b \in Builders : builder[b].step \in Admitted}) < Concurrency

Admit(b) ==
    /\ builder[b].step = "queued" /\ SlotFree
    /\ GoesTo(b, "reading")
    /\ UNCHANGED <<manifest, request, workdir, orphans, restarts>>

\* Half an hour without a slot.
SlotTimeout(b) ==
    /\ builder[b].step = "queued" /\ ~SlotFree
    /\ Sets(builder[b].id, "error")
    /\ Ends(b)
    /\ UNCHANGED <<request, workdir, orphans, restarts>>

\* No manifest: nothing to do; no clips: an error.
Start(b) ==
    LET c == builder[b].id IN
    /\ builder[b].step = "reading"
    /\ \/ /\ ~Exists(c)
          /\ Ends(b)
          /\ UNCHANGED <<manifest, workdir>>
       \/ /\ Exists(c)
          /\ Sets(c, "error") /\ Ends(b)
          /\ UNCHANGED workdir
       \/ /\ Exists(c)
          /\ workdir' = workdir \cup {c}
          /\ Sets(c, "building")
          /\ GoesTo(b, "fetching")
    /\ UNCHANGED <<request, orphans, restarts>>

\* Every clip was cut from the archive into the work directory.
Fetched(b) ==
    /\ builder[b].step = "fetching" /\ builder[b].id \in workdir
    /\ GoesTo(b, "joining")
    /\ UNCHANGED <<manifest, request, workdir, orphans, restarts>>

\* The clips are joined and copied to the storage box; that is all, unless an upload is
\* asked for.
Joined(b) ==
    LET c == builder[b].id IN
    /\ builder[b].step = "joining" /\ c \in workdir
    /\ \/ Sets(c, "uploading") /\ GoesTo(b, "uploading") /\ UNCHANGED workdir
       \/ Sets(c, "done") /\ Ends(b) /\ workdir' = workdir \ {c}
    /\ UNCHANGED <<request, orphans, restarts>>

Uploaded(b) ==
    LET c == builder[b].id IN
    /\ builder[b].step = "uploading"
    /\ Sets(c, "done") /\ Ends(b)
    /\ workdir' = workdir \ {c}
    /\ UNCHANGED <<request, orphans, restarts>>

\* Faulty variant: an exception ends the thread without a word to the manifest.
CrashUnnoticed(b) ==
    /\ Ends(b)
    /\ UNCHANGED manifest

CrashNoticed(b) ==
    /\ Sets(builder[b].id, "error")
    /\ Ends(b)

\* A clip is missing or cannot be cut, ffmpeg fails or takes too long, YouTube is not set
\* up or refuses, or anything else goes wrong, the work directory gone included.
BuildFails(b) ==
    /\ builder[b].step \in Admitted
    /\ CrashNoticed(b)
    /\ workdir' = IF builder[b].step = "reading" THEN workdir ELSE workdir \ {builder[b].id}
    /\ UNCHANGED <<request, orphans, restarts>>

\* The dashboard restarts: requests, threads and jobs are gone.
RestartCompilations ==
    /\ restarts < MaxRestarts
    /\ restarts' = restarts + 1
    /\ request' = [r \in Requests |-> NoRequest]
    /\ builder' = [b \in Builders |-> NoBuild]
    /\ orphans' = {c \in Manifests : Busy(c)}
    /\ UNCHANGED <<manifest, workdir>>

------------------------------------------------------------------------------
Reads(r, c) == \/ CreateRead(r, c) \/ PatchRead(r, c) \/ DeleteRead(r, c)
               \/ BuildRead(r, c) \/ TickRead(r, c)
Stores(r) == CreateStore(r) \/ PatchStore(r) \/ DeleteStore(r) \/ BuildStore(r)
Builds(b) == \/ Admit(b) \/ SlotTimeout(b) \/ Start(b) \/ Fetched(b) \/ Joined(b)
             \/ Uploaded(b) \/ BuildFails(b)

CompilationNext ==
    \/ \E r \in Requests : Stores(r) \/ \E c \in Manifests : Reads(r, c)
    \/ \E b \in Builders : Builds(b)
    \/ RestartCompilations

CompilationSpec == CompilationInit /\ [][CompilationNext]_compilationVars

------------------------------------------------------------------------------
CompilationTypeOK ==
    /\ manifest \in [Manifests -> Records]
    /\ request \in [Requests -> [op: {"none", "create", "patch", "delete", "build"},
                                 id: Manifests, new: Records]]
    /\ builder \in [Builders -> [step: Admitted \cup {"idle", "queued"}, id: Manifests]]
    /\ workdir \in SUBSET Manifests /\ orphans \in SUBSET Manifests
    /\ restarts \in 0..MaxRestarts

\* A manifest that is building or uploading has a thread that builds it, which will change
\* that, whatever was edited, deleted or fired twice meanwhile and whatever failed, unless
\* the dashboard was restarted under it (_run_compilation_build: "never hangs on building").
BusyIsBuilt ==
    \A c \in Manifests : Busy(c) /\ c \notin orphans =>
        \E b \in Builders : builder[b].step # "idle" /\ builder[b].id = c

==============================================================================
