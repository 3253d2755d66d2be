------------------------------ MODULE MediaJobs ------------------------------
(***************************************************************************)
(* Clips made on demand: a request makes a temporary file, hands ffmpeg    *)
(* (a remux of one clip, or a stitch of several) to an executor and waits  *)
(* with a time-out; jobs of requests that gave up are never cancelled.     *)
(***************************************************************************)
EXTENDS Integers, Sequences, FiniteSets

CONSTANTS
    Requests,           \* bound: every request is made once
    Workers,            \* threads of _media_executor
    StitchSlots         \* _STITCH_CONCURRENCY

Kinds == {"remux", "stitch"}
Outcomes == {"made", "failed", "timeout"}

VARIABLES
    request,            \* request[r]: its kind and where it stands
    queue, running,     \* jobs of _media_executor, by request
    waited,             \* jobs that found every worker busy
    result,             \* result[r]: outcome of the job, while somebody may ask
    slots,              \* left of _stitch_sem
    files,              \* temporary files
    late,               \* jobs that began after their request had given up
    leaked              \* requests that took a slot and could not make their file

mediaVars == <<request, queue, running, waited, result, slots, files, late, leaked>>

MediaInit ==
    /\ request = [r \in Requests |-> [kind |-> "remux", step |-> "new"]]
    /\ queue = <<>> /\ running = {} /\ waited = {} /\ late = {} /\ leaked = {}
    /\ result = [r \in Requests |-> "none"]
    /\ slots = StitchSlots /\ files = {}

Goes(r, step) == request' = [request EXCEPT ![r].step = step]
At(r, step) == request[r].step = step

\* The worker that is free takes the job at once.
Submit(r, kind) ==
    /\ request' = [request EXCEPT ![r] = [kind |-> kind, step |-> "wait"]]
    /\ files' = files \cup {r}
    /\ queue' = Append(queue, r)
    /\ waited' = IF Cardinality(running) + Len(queue) < Workers THEN waited ELSE waited \cup {r}
    /\ UNCHANGED <<running, result, late>>

\* _stream_mkv_as_mp4
AskRemux(r) == At(r, "new") /\ Submit(r, "remux") /\ UNCHANGED <<slots, leaked>>

\* api_stitch_multi: refused without a slot.  The file is made between taking the slot and the
\* try that gives it back.
AskStitch(r) ==
    /\ At(r, "new")
    /\ IF slots = 0
       THEN Goes(r, "over") /\ UNCHANGED <<queue, running, waited, result, slots, files, late, leaked>>
       ELSE /\ slots' = slots - 1
            /\ \/ Submit(r, "stitch") /\ UNCHANGED leaked
               \/ /\ leaked' = leaked \cup {r}
                  /\ Goes(r, "over") /\ UNCHANGED <<queue, running, waited, result, files, late>>

GaveUp(r) == At(r, "over")

\* ffmpeg -y makes the file again when it is gone.
Begin ==
    /\ queue # <<>> /\ Cardinality(running) < Workers
    /\ LET r == Head(queue) IN
       /\ running' = running \cup {r}
       /\ files' = files \cup {r}
       /\ late' = IF GaveUp(r) THEN late \cup {r} ELSE late
    /\ queue' = Tail(queue)
    /\ UNCHANGED <<request, waited, result, slots, leaked>>

\* _remux_to_mp4 removes its file when ffmpeg fails; _run_ffmpeg_capped leaves that to the
\* request.
Finish(r) ==
    /\ r \in running
    /\ running' = running \ {r}
    /\ \E o \in Outcomes :
         /\ result' = [result EXCEPT ![r] = o]
         /\ files' = IF o # "made" /\ request[r].kind = "remux" THEN files \ {r} ELSE files
    /\ UNCHANGED <<request, queue, waited, slots, late, leaked>>

Released(r) == IF request[r].kind = "stitch" THEN slots + 1 ELSE slots

\* The response is sent from the file and removes it when it is closed.
Answer(r) ==
    /\ At(r, "wait") /\ result[r] = "made"
    /\ slots' = Released(r)
    /\ Goes(r, "send")
    /\ UNCHANGED <<queue, running, waited, result, files, late, leaked>>

Sent(r) ==
    /\ At(r, "send")
    /\ files' = files \ {r}
    /\ Goes(r, "over")
    /\ UNCHANGED <<queue, running, waited, result, slots, late, leaked>>

\* Faulty variant: only the time-out of ffmpeg removes the file.
KeptOnError(r) == IF result[r] = "failed" THEN files ELSE files \ {r}

Unlinked(r) == files \ {r}

Refuse(r) ==
    /\ At(r, "wait") /\ result[r] \in {"failed", "timeout"}
    /\ slots' = Released(r)
    /\ files' = Unlinked(r)
    /\ Goes(r, "over")
    /\ UNCHANGED <<queue, running, waited, result, late, leaked>>

\* The wait is longer than a job may take: only a job that had to wait is given up.  ffmpeg
\* that runs already goes on in a file without a name.
GiveUp(r) ==
    /\ At(r, "wait") /\ r \in waited /\ result[r] = "none"
    /\ slots' = Released(r)
    /\ files' = Unlinked(r)
    /\ Goes(r, "over")
    /\ UNCHANGED <<queue, running, waited, result, late, leaked>>

Asks(r) == AskRemux(r) \/ AskStitch(r) \/ Answer(r) \/ Sent(r) \/ Refuse(r) \/ GiveUp(r)

MediaNext == (\E r \in Requests : Asks(r) \/ Finish(r)) \/ Begin

------------------------------------------------------------------------------
RequestStates == [kind : Kinds, step : {"new", "wait", "send", "over"}]

MediaTypeOK ==
    /\ request \in [Requests -> RequestStates]
    /\ queue \in Seq(Requests) /\ running \subseteq Requests /\ Cardinality(running) <= Workers
    /\ result \in [Requests -> Outcomes \cup {"none"}]
    /\ slots \in 0..StitchSlots
    /\ waited \cup files \cup late \cup leaked \subseteq Requests

\* When nobody asks and nothing runs, no temporary file is left but those of jobs that began
\* only after their request had given up, and every slot is back but those of requests that
\* could not make their file (_stream_mkv_as_mp4, api_stitch_multi, _remux_to_mp4).
TmpFilesGo ==
    (\A r \in Requests : request[r].step \in {"new", "over"}) /\ queue = <<>> /\ running = {} =>
        files \subseteq late /\ slots + Cardinality(leaked) = StitchSlots

==============================================================================
