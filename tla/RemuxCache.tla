------------------------------ MODULE RemuxCache ------------------------------
(***************************************************************************)
(* The public API's cache of remuxed clips (_serve_as_mp4): requests of    *)
(* anyone, a semaphore for the ffmpeg runs, temporary files in the cache   *)
(* directory itself, and the eviction of the least recently used files,    *)
(* which each run does for itself before it promotes its own.  The files   *)
(* have one size, the unit of the budget.                                  *)
(***************************************************************************)
EXTENDS Integers, FiniteSets

CONSTANTS
    Clips, Requests,
    Slots,              \* _MP4_MAX_CONCURRENT
    MaxBytes            \* _MP4_CACHE_MAX_BYTES

VARIABLES
    cache,              \* the files of the cache, by clip
    older,              \* older: pairs of them, the first less recently used
    request,            \* request[r]: its step, its clip, the files it will evict
    stale               \* clips whose source has been written again since

remuxVars == <<cache, older, request, stale>>

Idle == [step |-> "idle", clip |-> "none", victims |-> {}]
Fresh == cache \ stale
At(r, steps) == request[r].step \in steps
Goto(r, step) == request' = [request EXCEPT ![r].step = step]
Ends(r) == request' = [request EXCEPT ![r] = Idle]

Holding == {r \in Requests : At(r, {"slot", "remux", "list", "evict", "promote"})}
HalfDone == {r \in Requests : At(r, {"list", "evict", "promote"})}      \* with a file of full size

RemuxInit ==
    /\ cache = {} /\ older = {} /\ stale = {}
    /\ request = [r \in Requests |-> Idle]

\* send_file reads the file, which becomes the one used last.
Used(c) ==
    /\ cache' = cache \cup {c}
    /\ older' = {p \in older : p[1] # c} \cup ((cache \ {c}) \X {c})

------------------------------------------------------------------------------
Ask(r, c) ==
    /\ At(r, {"idle"})
    /\ IF c \in Fresh
       THEN Used(c) /\ UNCHANGED request
       ELSE request' = [request EXCEPT ![r] = [Idle EXCEPT !.step = "wait", !.clip = c]]
            /\ UNCHANGED <<cache, older>>
    /\ UNCHANGED stale

\* Within the time-out, or _RemuxBusy.
Acquire(r) ==
    /\ At(r, {"wait"}) /\ Cardinality(Holding) < Slots
    /\ Goto(r, "slot")
    /\ UNCHANGED <<cache, older, stale>>

Busy(r) ==
    /\ At(r, {"wait"})
    /\ Ends(r)
    /\ UNCHANGED <<cache, older, stale>>

\* Another request may have remuxed it meanwhile.
LookAgain(r) ==
    /\ At(r, {"slot"})
    /\ IF request[r].clip \in Fresh
       THEN Used(request[r].clip) /\ Ends(r)
       ELSE Goto(r, "remux") /\ UNCHANGED <<cache, older>>
    /\ UNCHANGED stale

\* ffmpeg ends; an error or its time-out removes the temporary file.
Remux(r) ==
    /\ At(r, {"remux"})
    /\ Goto(r, "list") \/ Ends(r)
    /\ UNCHANGED <<cache, older, stale>>

\* Faulty variant: temporary files are not counted.
CacheOnly == Cardinality(cache)

TotalBytes == Cardinality(cache) + Cardinality(HalfDone)

\* _evict_mp4_cache: the total has every temporary file in it, the own one as well.
Excess ==
    LET excess == TotalBytes - (MaxBytes - 1)
    IN  IF excess < 0 THEN 0 ELSE IF excess > Cardinality(cache) THEN Cardinality(cache) ELSE excess

ListVictims(r) ==
    /\ At(r, {"list"})
    /\ \E oldest \in SUBSET cache :
         /\ Cardinality(oldest) = Excess
         /\ \A c \in oldest, d \in cache \ oldest : <<c, d>> \in older
         /\ request' = [request EXCEPT ![r].step = "evict", ![r].victims = oldest]
    /\ UNCHANGED <<cache, older, stale>>

Evict(r) ==
    LET gone == request[r].victims IN
    /\ At(r, {"evict"})
    /\ cache' = cache \ gone /\ stale' = stale \ gone
    /\ older' = {p \in older : p[1] \notin gone /\ p[2] \notin gone}
    /\ request' = [request EXCEPT ![r].step = "promote", ![r].victims = {}]

\* The rename, the release of the slot, the answer.
Promote(r) ==
    LET c == request[r].clip IN
    /\ At(r, {"promote"})
    /\ Used(c) /\ stale' = stale \ {c}
    /\ Ends(r)

\* The archive gets another file under that name.
SourceChanges(c) ==
    /\ c \in Fresh
    /\ stale' = stale \cup {c}
    /\ UNCHANGED <<cache, older, request>>

Serve(r) ==
    \/ \E c \in Clips : Ask(r, c)
    \/ Acquire(r) \/ Busy(r) \/ LookAgain(r) \/ Remux(r)
    \/ ListVictims(r) \/ Evict(r) \/ Promote(r)

RemuxNext ==
    \/ \E r \in Requests : Serve(r)
    \/ \E c \in Clips : SourceChanges(c)

------------------------------------------------------------------------------
RequestStates ==
    [step : {"idle", "wait", "slot", "remux", "list", "evict", "promote"},
     clip : Clips \cup {"none"}, victims : SUBSET Clips]

RemuxTypeOK ==
    /\ cache \subseteq Clips /\ stale \subseteq Clips
    /\ older \subseteq cache \X cache
    /\ \A c, d \in cache : c # d => (<<c, d>> \in older <=> <<d, c>> \notin older)
    /\ request \in [Requests -> RequestStates]

\* However many requests remux at once, each evicting from its own listing, the cache stays
\* within its budget when that has room for one file of every slot (_evict_mp4_cache).
WithinBudget == Slots <= MaxBytes => Cardinality(cache) <= MaxBytes

==============================================================================
