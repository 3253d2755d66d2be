------------------------------- MODULE SwrCache -------------------------------
(***************************************************************************)
(* The timelapses of a station, shown from a cache while they are computed *)
(* anew (_get_timelapses_swr).  A marker lets one refresh run at a time;   *)
(* a request that finds the cache empty sets it as well, computes and      *)
(* drops it before it has stored the answer.                               *)
(***************************************************************************)
EXTENDS Naturals

CONSTANTS
    Requests, Refreshers,
    MaxNights           \* bound: timelapses that appear

Nothing == 0            \* no answer yet

VARIABLES
    nights,             \* timelapses there are, at the station and in the archive
    cache, fresh,       \* timelapses_swr_cache: those of the last computation
    inflight,           \* timelapses_swr_inflight
    worker,             \* worker[w]: its step, what it has computed
    newest,             \* the most that was ever stored
    doubled             \* two requests have found the cache empty

swrVars == <<nights, cache, fresh, inflight, worker, newest, doubled>>

SwrWorkers == Requests \cup Refreshers
Idle == [step |-> "idle", val |-> Nothing]

SwrInit ==
    /\ nights = 1 /\ cache = Nothing /\ fresh = FALSE /\ inflight = FALSE
    /\ worker = [w \in SwrWorkers |-> Idle]
    /\ newest = Nothing /\ doubled = FALSE

At(w, step) == worker[w].step = step
Goes(w, step) == worker' = [worker EXCEPT ![w].step = step]
Ends(w) == worker' = [worker EXCEPT ![w] = Idle]
Computing == {w \in SwrWorkers : worker[w].step \in {"compute", "drop", "store"}}

NightAdded ==
    /\ nights < MaxNights
    /\ nights' = nights + 1
    /\ UNCHANGED <<cache, fresh, inflight, worker, newest, doubled>>

Expire ==
    /\ fresh /\ fresh' = FALSE
    /\ UNCHANGED <<nights, cache, inflight, worker, newest, doubled>>

\* The walks of the cameras' archives and the station's list, when all of them answer: what
\* does not is left out, and a later answer may then show less than an earlier one.
Compute(w, next) ==
    /\ At(w, "compute")
    /\ worker' = [worker EXCEPT ![w] = [step |-> next, val |-> nights]]
    /\ UNCHANGED <<nights, cache, fresh, inflight, newest, doubled>>

Store(w, next) ==
    /\ At(w, "store")
    /\ cache' = worker[w].val /\ fresh' = TRUE
    /\ newest' = IF worker[w].val > newest THEN worker[w].val ELSE newest
    /\ IF next = "idle" THEN Ends(w) ELSE Goes(w, next)
    /\ UNCHANGED <<nights, inflight, doubled>>

Drop(w, next) ==
    /\ At(w, "drop")
    /\ inflight' = FALSE
    /\ IF next = "idle" THEN Ends(w) ELSE Goes(w, next)
    /\ UNCHANGED <<nights, cache, fresh, newest, doubled>>

------------------------------------------------------------------------------
\* A request with nothing to show and nobody at work.
Miss(q) ==
    /\ At(q, "idle") /\ cache = Nothing /\ ~inflight
    /\ Goes(q, "mark")
    /\ UNCHANGED <<nights, cache, fresh, inflight, newest, doubled>>

MarkCold(q) ==
    /\ At(q, "mark")
    /\ inflight' = TRUE
    /\ doubled' = (doubled \/ Computing # {} \/ cache # Nothing)
    /\ Goes(q, "compute")
    /\ UNCHANGED <<nights, cache, fresh, newest>>

\* A request with an old answer to show asks for a refresh.
Stale(p) ==
    /\ At(p, "idle") /\ cache # Nothing /\ ~fresh
    /\ Goes(p, "mark")
    /\ UNCHANGED <<nights, cache, fresh, inflight, newest, doubled>>

\* Faulty variant: the marker is set, and not looked at.
Unlooked == TRUE

Alone == ~inflight

MarkRefresh(p) ==
    /\ At(p, "mark")
    /\ IF Alone THEN inflight' = TRUE /\ Goes(p, "compute") ELSE Ends(p) /\ UNCHANGED inflight
    /\ UNCHANGED <<nights, cache, fresh, newest, doubled>>

SwrNext ==
    \/ NightAdded \/ Expire
    \/ \E q \in Requests : Miss(q) \/ MarkCold(q) \/ Compute(q, "drop") \/ Drop(q, "store") \/ Store(q, "idle")
    \/ \E p \in Refreshers : Stale(p) \/ MarkRefresh(p) \/ Compute(p, "store") \/ Store(p, "drop") \/ Drop(p, "idle")

------------------------------------------------------------------------------
SwrTypeOK ==
    /\ nights \in 1..MaxNights /\ cache \in 0..MaxNights /\ newest \in 0..MaxNights
    /\ fresh \in BOOLEAN /\ inflight \in BOOLEAN /\ doubled \in BOOLEAN
    /\ worker \in [SwrWorkers -> [step : {"idle", "mark", "compute", "drop", "store"}, val : 0..MaxNights]]

\* Nobody waits for a computation that is not there, and what is shown never goes back to an
\* older answer, unless two requests found the cache empty (_get_timelapses_swr,
\* _refresh_timelapses).
SwrGoesForward ==
    /\ inflight => Computing # {}
    /\ doubled \/ cache = newest

==============================================================================
