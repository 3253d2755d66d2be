----------------------------- MODULE ThumbCache -----------------------------
(***************************************************************************)
(* One thumbnail of one night on the dashboard: the station that has it,   *)
(* the hot cache (cache_store.THUMB_CACHE_DIR), the cold tier its prune    *)
(* moves it to, and the stacks on the storage box.  Prefetch jobs, request *)
(* threads and the hourly prune work on them without a lock.               *)
(***************************************************************************)
EXTENDS Integers

Images == {"bw", "colour"}
Slots == Images \cup {"none"}
Passes == {"bw", "colour"}      \* force = FALSE, force = TRUE

VARIABLES
    online, night,      \* the station; its night: going on, processed, or older than the hot tier
    hot, cold, box,
    key,                \* bw_prefetched, color_prefetched
    seenDone,           \* morning_done
    job,                \* per pass: what the executor's job has got
    asking,             \* a request that has fetched the thumbnail from the station
    bulk,               \* _archive_thumb_prefetched
    pruning,            \* the prune between its copy of the night's directory and its end:
                        \* whether the thumbnail was copied
    prunedAway          \* since the start a prune has taken what is in neither tier

thumbVars == <<online, night, hot, cold, box, key, seenDone, job, asking, bulk, pruning, prunedAway>>

JobStates == Slots \cup {"queued"}

ThumbInit ==
    /\ online = TRUE /\ night = "running"
    /\ hot = "none" /\ cold = "none" /\ box = "none"
    /\ key = [p \in Passes |-> FALSE] /\ seenDone = FALSE
    /\ job = [p \in Passes |-> "none"] /\ asking = "none"
    /\ bulk = FALSE /\ pruning = "no" /\ prunedAway = FALSE

Done == night # "running"
OfStation == IF Done THEN "colour" ELSE "bw"

Connection(up) ==
    /\ online # up /\ online' = up
    /\ UNCHANGED <<night, hot, cold, box, key, seenDone, job, asking, bulk, pruning, prunedAway>>

NightGoesOn ==
    /\ night' = CASE night = "running" -> "done" [] night = "done" -> "old"
    /\ UNCHANGED <<online, hot, cold, box, key, seenDone, job, asking, bulk, pruning, prunedAway>>

StackUploaded ==
    /\ Done /\ box' = "colour"
    /\ UNCHANGED <<online, night, hot, cold, key, seenDone, job, asking, bulk, pruning, prunedAway>>

------------------------------------------------------------------------------
(* _thumb_prefetch_loop, and api_videodb_chunks, which does the same.       *)

\* The colour pass is for the poll that finds the night newly processed.
Wanted(p) == /\ ~key[p]
             /\ p = "colour" => Done /\ ~seenDone

PollChunks ==
    /\ online /\ night # "old"
    /\ seenDone' = Done
    /\ key' = [p \in Passes |-> key[p] \/ Wanted(p)]
    /\ job' = [p \in Passes |-> IF Wanted(p) THEN "queued" ELSE job[p]]
    /\ UNCHANGED <<online, night, hot, cold, box, asking, bulk, pruning, prunedAway>>

\* _prefetch_night: one chunk, that is the whole of its list.
SkipCached ==
    /\ job["bw"] = "queued" /\ hot # "none"
    /\ job' = [job EXCEPT !["bw"] = "none"]
    /\ UNCHANGED <<online, night, hot, cold, box, key, seenDone, asking, bulk, pruning, prunedAway>>

Fetch(p) ==
    /\ job[p] = "queued" /\ online
    /\ p = "bw" => hot = "none"
    /\ job' = [job EXCEPT ![p] = OfStation]
    /\ UNCHANGED <<online, night, hot, cold, box, key, seenDone, asking, bulk, pruning, prunedAway>>

StoreFetched(p) ==
    /\ job[p] \in Images
    /\ hot' = job[p]
    /\ job' = [job EXCEPT ![p] = "none"]
    /\ UNCHANGED <<online, night, cold, box, key, seenDone, asking, bulk, pruning, prunedAway>>

\* Faulty variant: the dedup key of a pass that got nothing stays.
KeptKey(p) == key

ReleasedKey(p) == [key EXCEPT ![p] = FALSE]

\* No answer, or no space: nothing fetched at all.
GetsNothing(p) ==
    /\ job[p] # "none"
    /\ p = "bw" => hot = "none"
    /\ job' = [job EXCEPT ![p] = "none"]
    /\ key' = ReleasedKey(p)
    /\ UNCHANGED <<online, night, hot, cold, box, seenDone, asking, bulk, pruning, prunedAway>>

------------------------------------------------------------------------------
(* _serve_thumbnail, when the hot cache has not got it.                     *)

ServeCold ==
    /\ hot = "none" /\ cold # "none"
    /\ hot' = cold
    /\ UNCHANGED <<online, night, cold, box, key, seenDone, job, asking, bulk, pruning, prunedAway>>

AskStation ==
    /\ hot = "none" /\ cold = "none" /\ night # "old" /\ online /\ asking = "none"
    /\ asking' = OfStation
    /\ UNCHANGED <<online, night, hot, cold, box, key, seenDone, job, bulk, pruning, prunedAway>>

StoreAsked ==
    /\ asking # "none"
    /\ hot' = asking
    /\ asking' = "none"
    /\ UNCHANGED <<online, night, cold, box, key, seenDone, job, bulk, pruning, prunedAway>>

ServeBox ==
    /\ hot = "none" /\ cold = "none" /\ box # "none"
    /\ hot' = box
    /\ UNCHANGED <<online, night, cold, box, key, seenDone, job, asking, bulk, pruning, prunedAway>>

\* _prefetch_archive_thumbs: once for a night, again only after a failure.
PrefetchArchive ==
    /\ ~bulk /\ box # "none"
    /\ \/ bulk' = TRUE /\ hot' = IF hot = "none" THEN box ELSE hot
       \/ UNCHANGED <<bulk, hot>>
    /\ UNCHANGED <<online, night, cold, box, key, seenDone, job, asking, pruning, prunedAway>>

------------------------------------------------------------------------------
(* _prune_thumb_cache                                                       *)

\* Faulty variant: the directory goes without having been copied.
NotPromoted == cold

\* _promote_dir_to_archive leaves alone what the cold tier has.
Promoted == IF cold = "none" THEN hot ELSE cold

\* The night's directory may hold other thumbnails only.  An OSError of a copy is swallowed,
\* and the prune goes on.
PruneCopies ==
    /\ night = "old" /\ pruning = "no"
    /\ \/ cold' = Promoted /\ pruning' = IF hot = "none" THEN "missed" ELSE "copied"
       \/ hot # "none" /\ pruning' = "missed" /\ UNCHANGED cold
    /\ UNCHANGED <<online, night, hot, box, key, seenDone, job, asking, bulk, prunedAway>>

PruneRemoves ==
    /\ pruning # "no"
    /\ hot' = "none" /\ pruning' = "no"
    /\ prunedAway' = (prunedAway \/ (hot # "none" /\ cold = "none"))
    /\ UNCHANGED <<online, night, cold, box, key, seenDone, job, asking, bulk>>

------------------------------------------------------------------------------
\* The dashboard starts again: the keys are in memory, the files stay.
DashboardRestarts ==
    /\ key' = [p \in Passes |-> FALSE] /\ seenDone' = FALSE
    /\ job' = [p \in Passes |-> "none"] /\ asking' = "none"
    /\ bulk' = FALSE /\ pruning' = "no" /\ prunedAway' = FALSE
    /\ UNCHANGED <<online, night, hot, cold, box>>

Job(p) == Fetch(p) \/ StoreFetched(p) \/ GetsNothing(p)

ThumbNext ==
    \/ \E up \in BOOLEAN : Connection(up)
    \/ night # "old" /\ NightGoesOn
    \/ StackUploaded
    \/ PollChunks \/ SkipCached
    \/ \E p \in Passes : Job(p)
    \/ ServeCold \/ AskStation \/ StoreAsked \/ ServeBox \/ PrefetchArchive
    \/ PruneCopies \/ PruneRemoves
    \/ DashboardRestarts

ThumbSpec == ThumbInit /\ [][ThumbNext]_thumbVars

------------------------------------------------------------------------------
ThumbTypeOK ==
    /\ online \in BOOLEAN /\ night \in {"running", "done", "old"}
    /\ hot \in Slots /\ cold \in Slots /\ box \in Slots
    /\ key \in [Passes -> BOOLEAN] /\ seenDone \in BOOLEAN
    /\ job \in [Passes -> JobStates] /\ asking \in Slots
    /\ bulk \in BOOLEAN /\ pruning \in {"no", "copied", "missed"} /\ prunedAway \in BOOLEAN

Kept == hot # "none" \/ cold # "none"

\* A night that counts as prefetched has its thumbnail, or a job is at it: a failed fetch
\* is tried again, whatever requests and restarts did meanwhile (_prefetch_night,
\* _thumb_prefetch_loop).  Until a prune takes what is in neither tier: the key stays then.
PrefetchedIsCached == key["bw"] => Kept \/ job["bw"] # "none" \/ prunedAway

\* What is cached once can be served ever after, from the hot cache or from the cold tier
\* (_serve_thumbnail), but for what a prune removes that its copy has missed: the copy
\* failed, which _promote_dir_to_archive swallows, or the file came after it.
CachedStaysCached == [][Kept /\ ~Kept' => pruning = "missed"]_thumbVars

==============================================================================
