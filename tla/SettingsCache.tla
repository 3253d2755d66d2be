---------------------------- MODULE SettingsCache ----------------------------
(***************************************************************************)
(* The settings of a station behind two caches: the station API keeps a    *)
(* copy of config.json for 5 s, loaded by one request at a time, and the   *)
(* dashboard keeps the answer for 10 s.  A change is merged into the copy  *)
(* itself, written to the file, and drops both.                            *)
(***************************************************************************)
EXTENDS Integers, FiniteSets

CONSTANTS
    Readers,            \* requests of the station API that read
    Patches,            \* requests that change, each made once
    Copies              \* loaded dictionaries

Callers == Readers \cup Patches
Nobody == "nobody"
Absent == [live |-> FALSE, val |-> {}]
NoCopy == "none"

VARIABLES
    file, acked,        \* the changes that config.json holds, that were answered
    copy,               \* what a copy holds; who has the copy sees what is merged into it
    entry, inflight,    \* the copy in _cache["config"], the owner of _cache_inflight["config"]
    thread,             \* thread[t]: where it is, the copy it has, the text it has dumped
    page, get,          \* the dashboard: proxy_cache, and a request to the station
    stale,              \* a load that an invalidation overtook was kept
    crossed,            \* a change began before another had reached the file
    phantom,            \* a change could not be written and stays in its copy
    late                \* an answer that an invalidation overtook was kept

settingsVars == <<file, acked, copy, entry, inflight, thread, page, get, stale, crossed, phantom, late>>

Idle == [step |-> "idle", copy |-> NoCopy, text |-> {}]
ThreadStates == [step : {"idle", "wait", "claim", "again", "load", "release", "store",
                         "merge", "dump", "replace", "answer"},
                 copy : Copies \cup {NoCopy}, text : SUBSET Patches]
NoGet == [step |-> "idle", val |-> {}]

SettingsInit ==
    /\ file = {} /\ acked = {} /\ copy = [c \in Copies |-> {}]
    /\ entry = NoCopy /\ inflight = Nobody
    /\ thread = [t \in Callers |-> Idle]
    /\ page = Absent /\ get = NoGet
    /\ stale = FALSE /\ crossed = FALSE /\ phantom = FALSE /\ late = FALSE

At(t, step) == thread[t].step = step
Goes(t, step) == thread' = [thread EXCEPT ![t].step = step]
Changing == {p \in Patches : thread[p].step \in {"merge", "dump", "replace"}}
Shown == IF entry = NoCopy THEN file ELSE copy[entry]
Free == Copies \ ({entry} \cup {thread[t].copy : t \in Callers})
Fresh == CHOOSE c \in Free : TRUE
dashboardVars == <<page, get, late>>

\* A copy that nobody has any more is gone.
Collected ==
    copy' = [c \in Copies |->
               IF c = entry' \/ \E t \in Callers : thread'[t].copy = c THEN copy[c] ELSE {}]

\* A reader has its answer; a change goes on to merge.
Got(t, c) ==
    /\ thread' = [thread EXCEPT ![t] = IF t \in Patches THEN [Idle EXCEPT !.step = "merge", !.copy = c]
                                        ELSE Idle]
    /\ crossed' = (crossed \/ (t \in Patches /\ Changing # {}))

------------------------------------------------------------------------------
(* The station: cached()                                                    *)

Look(t) ==
    /\ At(t, "idle") /\ t \notin acked
    /\ IF entry # NoCopy THEN Got(t, entry)
       ELSE Goes(t, IF inflight = Nobody THEN "claim" ELSE "wait") /\ UNCHANGED crossed
    /\ UNCHANGED <<file, acked, copy, entry, inflight, stale, phantom, dashboardVars>>

\* The load has ended, or 35 s have passed.
Wake(t) ==
    /\ At(t, "wait")
    /\ IF entry # NoCopy THEN Got(t, entry) ELSE Goes(t, "claim") /\ UNCHANGED crossed
    /\ UNCHANGED <<file, acked, copy, entry, inflight, stale, phantom, dashboardVars>>

Claim(t) ==
    /\ At(t, "claim")
    /\ Goes(t, IF inflight = Nobody THEN "load" ELSE "again")
    /\ inflight' = IF inflight = Nobody THEN t ELSE inflight
    /\ UNCHANGED <<file, acked, copy, entry, stale, crossed, phantom, dashboardVars>>

\* Who has waited in vain reads the file and keeps nothing.
Alone(t) ==
    /\ At(t, "again")
    /\ IF entry # NoCopy \/ t \in Readers THEN Got(t, entry) /\ UNCHANGED copy
       ELSE Got(t, Fresh) /\ copy' = [copy EXCEPT ![Fresh] = file]
    /\ UNCHANGED <<file, acked, entry, inflight, stale, phantom, dashboardVars>>

Load(t) ==
    /\ At(t, "load")
    /\ copy' = [copy EXCEPT ![Fresh] = file]
    /\ thread' = [thread EXCEPT ![t].step = "release", ![t].copy = Fresh]
    /\ UNCHANGED <<file, acked, entry, inflight, stale, crossed, phantom, dashboardVars>>

\* Faulty variant: the marker stays when the file cannot be read.
KeptMarker == inflight

ClearedMarker == Nobody

\* The request fails; those who wait are not told.
LoadFails(t) ==
    /\ At(t, "load")
    /\ inflight' = ClearedMarker
    /\ thread' = [thread EXCEPT ![t] = Idle]
    /\ UNCHANGED <<file, acked, copy, entry, stale, crossed, phantom, dashboardVars>>

Release(t) ==
    /\ At(t, "release")
    /\ inflight' = Nobody
    /\ Goes(t, "store")
    /\ UNCHANGED <<file, acked, copy, entry, stale, crossed, phantom, dashboardVars>>

Store(t) ==
    /\ At(t, "store")
    /\ entry' = thread[t].copy
    /\ stale' = (stale \/ copy[thread[t].copy] # file)
    /\ Got(t, thread[t].copy)
    /\ UNCHANGED <<file, acked, inflight, phantom, dashboardVars>>
    /\ Collected

Expire ==
    /\ entry # NoCopy
    /\ entry' = NoCopy
    /\ UNCHANGED <<file, acked, inflight, thread, stale, crossed, phantom, dashboardVars>>
    /\ Collected

------------------------------------------------------------------------------
(* The station: api_settings_patch                                          *)

MergePatch(p) ==
    /\ At(p, "merge")
    /\ copy' = [copy EXCEPT ![thread[p].copy] = @ \cup {p}]
    /\ Goes(p, "dump")
    /\ UNCHANGED <<file, acked, entry, inflight, stale, crossed, phantom, dashboardVars>>

Dump(p) ==
    /\ At(p, "dump")
    /\ thread' = [thread EXCEPT ![p].step = "replace", ![p].text = copy[thread[p].copy]]
    /\ UNCHANGED <<file, acked, copy, entry, inflight, stale, crossed, phantom, dashboardVars>>

\* The disk is full, or the file may not be written: the copy keeps the change.
WriteFails(p) ==
    /\ At(p, "dump")
    /\ phantom' = TRUE
    /\ thread' = [thread EXCEPT ![p] = Idle]
    /\ UNCHANGED <<file, acked, entry, inflight, stale, crossed, dashboardVars>>
    /\ Collected

Replace(p) ==
    /\ At(p, "replace")
    /\ file' = thread[p].text
    /\ entry' = NoCopy
    /\ acked' = acked \cup {p}
    /\ thread' = [thread EXCEPT ![p] = [Idle EXCEPT !.step = "answer"]]
    /\ UNCHANGED <<inflight, stale, crossed, phantom, dashboardVars>>
    /\ Collected

------------------------------------------------------------------------------
(* The dashboard                                                            *)

\* Faulty variant: the kept answer is not dropped.
KeptPage == page

DroppedPage == Absent

\* api_settings_patch of the dashboard drops its own answer.
Invalidate(p) ==
    /\ At(p, "answer")
    /\ thread' = [thread EXCEPT ![p] = Idle]
    /\ page' = DroppedPage
    /\ UNCHANGED <<file, acked, copy, entry, inflight, stale, crossed, phantom, get, late>>

\* proxy_get
Get ==
    /\ get.step = "idle" /\ ~page.live
    /\ get' = [step |-> "answer", val |-> Shown]
    /\ UNCHANGED <<file, acked, copy, entry, inflight, thread, page, stale, crossed, phantom, late>>

Keep ==
    /\ get.step = "answer"
    /\ page' = [live |-> TRUE, val |-> get.val]
    /\ get' = NoGet
    /\ late' = (late \/ get.val # file)
    /\ UNCHANGED <<file, acked, copy, entry, inflight, thread, stale, crossed, phantom>>

PageExpires ==
    /\ page.live
    /\ page' = Absent
    /\ UNCHANGED <<file, acked, copy, entry, inflight, thread, get, stale, crossed, phantom, late>>

Cached(t) == Look(t) \/ Wake(t) \/ Claim(t) \/ Alone(t) \/ Load(t) \/ LoadFails(t) \/ Release(t) \/ Store(t)

SettingsNext ==
    \/ \E t \in Callers : Cached(t)
    \/ \E p \in Patches : MergePatch(p) \/ Dump(p) \/ WriteFails(p) \/ Replace(p) \/ Invalidate(p)
    \/ Expire \/ Get \/ Keep \/ PageExpires

------------------------------------------------------------------------------
SettingsTypeOK ==
    /\ file \cup acked \subseteq Patches /\ copy \in [Copies -> SUBSET Patches]
    /\ entry \in Copies \cup {NoCopy} /\ page \in [live : BOOLEAN, val : SUBSET Patches]
    /\ inflight \in Callers \cup {Nobody}
    /\ thread \in [Callers -> ThreadStates]
    /\ get \in [step : {"idle", "answer"}, val : SUBSET Patches]
    /\ stale \in BOOLEAN /\ crossed \in BOOLEAN /\ phantom \in BOOLEAN /\ late \in BOOLEAN

\* The marker of a load is that of a thread that loads.  A change that was answered stays, and
\* a copy that is kept shows what the file has, as long as no two changes are on their way to
\* the file at once, none overtakes a load and none fails to be written.  A page that is kept
\* shows it unless a change has overtaken the answer or is about to drop the page (cached,
\* api_settings_patch, proxy_get).
ChangesStay ==
    /\ inflight # Nobody => thread[inflight].step \in {"load", "release"}
    /\ stale \/ crossed \/ acked \subseteq file
    /\ stale \/ crossed \/ phantom \/ Changing # {} \/ entry = NoCopy \/ copy[entry] = file
    /\ late \/ ~page.live \/ page.val = file \/ \E p \in Patches : At(p, "answer")

==============================================================================
