------------------------------ MODULE GmnMonth -------------------------------
(***************************************************************************)
(* The monthly trajectory file of the meteor network: it is downloaded     *)
(* again when it is older than an hour and the server has a newer one,     *)
(* under a lock of the process; the dashboard and the janitor share the    *)
(* directory.  Daily counts are cached under the file's time.              *)
(***************************************************************************)
EXTENDS Integers, FiniteSets

CONSTANTS
    Threads, ProcOf(_),
    Inodes,
    MaxNews, MaxExpiries    \* bounds, as it is that nothing is new once processes have crossed

Parts == {1, 2}             \* a download is written in chunks
None == 0                   \* no inode, no time

VARIABLES
    clock,              \* counts publications and changes of the file's time
    upstream,           \* the published content and its time
    data,               \* data[i]: what inode i holds
    name,               \* the inodes of the file and of its temporary file
    mtime, fresh,       \* of the file: st_mtime, younger than CACHE_TTL_SECONDS
    fetch,              \* fetch[t]: where a thread is in ensure_monthly_cached
    counts,             \* _daily_count_cache: the file's time and the content counted
    count,              \* the thread in _daily_counts_for_month
    expiries,
    crossed,            \* two processes had the temporary file open
    hidden              \* a publication fell into a download

monthVars == <<clock, upstream, data, name, mtime, fresh, fetch, counts, count, expiries,
               crossed, hidden>>

NoData == [parts |-> {}, of |-> 0]
NoFetch == [step |-> "idle", since |-> None, inode |-> None, of |-> 0]

MonthInit ==
    /\ clock = 1 /\ upstream = [of |-> 1, at |-> 1]
    /\ data = [i \in Inodes |-> NoData]
    /\ name = [file |-> None, tmp |-> None] /\ mtime = None /\ fresh = FALSE
    /\ fetch = [t \in Threads |-> NoFetch]
    /\ counts = [at |-> None, of |-> 0] /\ count = [step |-> "idle", at |-> None, of |-> 0]
    /\ expiries = 0 /\ crossed = FALSE /\ hidden = FALSE

At(t, step) == fetch[t].step = step
Goes(t, step) == fetch' = [fetch EXCEPT ![t].step = step]
Ends(t) == fetch' = [fetch EXCEPT ![t] = NoFetch]
Locked(p) == \E t \in Threads : ProcOf(t) = p /\ fetch[t].step \in {"locked", "first", "second", "replace"}
Downloads(t) == fetch[t].step \in {"first", "second", "replace"}
Free == Inodes \ ({name.file, name.tmp} \cup {fetch[t].inode : t \in Threads})

------------------------------------------------------------------------------
(* The server, and time                                                     *)

Publish ==
    /\ upstream.of < MaxNews /\ ~crossed
    /\ clock' = clock + 1
    /\ upstream' = [of |-> upstream.of + 1, at |-> clock + 1]
    /\ hidden' = (hidden \/ \E t \in Threads : Downloads(t))
    /\ UNCHANGED <<data, name, mtime, fresh, fetch, counts, count, expiries, crossed>>

Expire ==
    /\ fresh /\ expiries < MaxExpiries /\ ~crossed
    /\ fresh' = FALSE /\ expiries' = expiries + 1
    /\ UNCHANGED <<clock, upstream, data, name, mtime, fetch, counts, count, crossed, hidden>>

------------------------------------------------------------------------------
(* ensure_monthly_cached                                                    *)

\* If-Modified-Since has the time the file has now.
Want(t) ==
    /\ At(t, "idle") /\ ~fresh
    /\ fetch' = [fetch EXCEPT ![t] = [NoFetch EXCEPT !.step = "lock", !.since = mtime]]
    /\ UNCHANGED <<clock, upstream, data, name, mtime, fresh, counts, count, expiries, crossed, hidden>>

Lock(t) ==
    /\ At(t, "lock") /\ ~Locked(ProcOf(t))
    /\ IF fresh THEN Ends(t) ELSE Goes(t, "locked")
    /\ UNCHANGED <<clock, upstream, data, name, mtime, fresh, counts, count, expiries, crossed, hidden>>

Unchanged(t) == fetch[t].since >= upstream.at

\* 304: the file gets the time of now.
NotModified(t) ==
    /\ At(t, "locked") /\ Unchanged(t) /\ name.file # None
    /\ clock' = clock + 1 /\ mtime' = clock + 1 /\ fresh' = TRUE
    /\ Ends(t)
    /\ UNCHANGED <<upstream, data, name, counts, count, expiries, crossed, hidden>>

\* 200: open() empties the temporary file that is there.
Download(t) ==
    /\ At(t, "locked") /\ ~Unchanged(t)
    /\ LET i == IF name.tmp = None THEN CHOOSE j \in Free : TRUE ELSE name.tmp IN
         /\ data' = [data EXCEPT ![i] = [parts |-> {}, of |-> upstream.of]]
         /\ name' = [name EXCEPT !.tmp = i]
         /\ fetch' = [fetch EXCEPT ![t].step = "first", ![t].inode = i, ![t].of = upstream.of]
    /\ crossed' = (crossed \/ \E u \in Threads : Downloads(u))
    /\ UNCHANGED <<clock, upstream, mtime, fresh, counts, count, expiries, hidden>>

WritePart(t, step, part, next) ==
    /\ At(t, step)
    /\ data' = [data EXCEPT ![fetch[t].inode] = [parts |-> @.parts \cup {part}, of |-> fetch[t].of]]
    /\ Goes(t, next)
    /\ UNCHANGED <<clock, upstream, name, mtime, fresh, counts, count, expiries, crossed, hidden>>

\* Faulty variant: a body that ends early is taken for the whole.
EndsEarly(t) == Goes(t, "replace")

Broken(t) == Ends(t)

\* The temporary file stays.
Breaks(t) ==
    /\ fetch[t].step \in {"first", "second"}
    /\ Broken(t)
    /\ UNCHANGED <<clock, upstream, data, name, mtime, fresh, counts, count, expiries, crossed, hidden>>

\* Without an answer, nothing changes.
NoAnswer(t) ==
    /\ At(t, "locked")
    /\ Ends(t)
    /\ UNCHANGED <<clock, upstream, data, name, mtime, fresh, counts, count, expiries, crossed, hidden>>

\* It fails when another process has moved the temporary file away.
Replace(t) ==
    /\ At(t, "replace")
    /\ Ends(t)
    /\ IF name.tmp = None
       THEN UNCHANGED <<clock, name, mtime, fresh>>
       ELSE /\ name' = [file |-> name.tmp, tmp |-> None]
            /\ clock' = clock + 1 /\ mtime' = clock + 1 /\ fresh' = TRUE
    /\ UNCHANGED <<upstream, data, counts, count, expiries, crossed, hidden>>

Fetches(t) ==
    \/ Want(t) \/ Lock(t) \/ NotModified(t) \/ Download(t) \/ Breaks(t) \/ NoAnswer(t) \/ Replace(t)
    \/ WritePart(t, "first", 1, "second") \/ WritePart(t, "second", 2, "replace")

------------------------------------------------------------------------------
(* _daily_counts_for_month                                                  *)

\* The file's time is read first; the counts cached under it are taken.
Stat ==
    /\ count.step = "idle" /\ name.file # None /\ counts.at # mtime
    /\ count' = [step |-> "read", at |-> mtime, of |-> 0]
    /\ UNCHANGED <<clock, upstream, data, name, mtime, fresh, fetch, counts, expiries, crossed, hidden>>

Read ==
    /\ count.step = "read"
    /\ count' = [count EXCEPT !.step = "store", !.of = data[name.file].of]
    /\ UNCHANGED <<clock, upstream, data, name, mtime, fresh, fetch, counts, expiries, crossed, hidden>>

\* Faulty variant: the file's time is read when the counts are stored.
TimeOfNow == mtime

TimeOfStat == count.at

Store ==
    /\ count.step = "store"
    /\ counts' = [at |-> TimeOfStat, of |-> count.of]
    /\ count' = [step |-> "idle", at |-> None, of |-> 0]
    /\ UNCHANGED <<clock, upstream, data, name, mtime, fresh, fetch, expiries, crossed, hidden>>

MonthNext ==
    \/ Publish \/ Expire
    \/ \E t \in Threads : Fetches(t)
    \/ Stat \/ Read \/ Store

------------------------------------------------------------------------------
FetchStates ==
    [step : {"idle", "lock", "locked", "first", "second", "replace"},
     since : Nat, inode : Inodes \cup {None}, of : 0..MaxNews]

Contents == [parts : SUBSET Parts, of : 0..MaxNews]

MonthTypeOK ==
    /\ clock \in Nat /\ upstream \in [of : 1..MaxNews, at : Nat]
    /\ data \in [Inodes -> Contents]
    /\ name \in [file : Inodes \cup {None}, tmp : Inodes \cup {None}]
    /\ mtime \in Nat /\ fresh \in BOOLEAN /\ expiries \in 0..MaxExpiries
    /\ fetch \in [Threads -> FetchStates]
    /\ counts \in [at : Nat, of : 0..MaxNews]
    /\ count \in [step : {"idle", "read", "store"}, at : Nat, of : 0..MaxNews]

\* Unless two processes wrote the temporary file at once, the month's file is always a whole
\* one; counts kept under its time are counts of it; and where the server would answer "not
\* modified" it is the published one, unless that came out during a download
\* (ensure_monthly_cached, _daily_counts_for_month).
MonthIsSound ==
    name.file # None /\ ~crossed =>
        /\ data[name.file].parts = Parts
        /\ counts.at = mtime => counts.of = data[name.file].of
        /\ mtime >= upstream.at /\ ~hidden => data[name.file].of = upstream.of

==============================================================================
