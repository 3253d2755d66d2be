----------------------------- MODULE MediaProofs -----------------------------
(***************************************************************************)
(* The dashboard's caches, streams and downloads among the parts of        *)
(* Stores: for each the inductive invariant behind what it promises, that  *)
(* it holds at the start and that every step of the part keeps it.         *)
(***************************************************************************)
EXTENDS Stores, FiniteSetTheorems, TLAPS

------------------------------------------------------------------------------
(* SwrCache: one worker computes at a time, and the cache has the newest.   *)

\* A worker that has set the marker and not dropped it yet.
Holds(w) == Swr!At(w, "compute") \/ Swr!At(w, "drop") \/ (w \in Refreshers /\ Swr!At(w, "store"))

\* One worker computes at a time; a request only while there is nothing to show.
OneComputes ==
    /\ \A v, w \in Swr!SwrWorkers : v \in Swr!Computing /\ w \in Swr!Computing => v = w
    /\ \A w \in Swr!Computing :
         /\ w \in Refreshers => swrInflight /\ swr # 0
         /\ w \in Requests => swr = 0 /\ (Swr!At(w, "store") \/ swrInflight)
         /\ w \in Refreshers /\ Swr!At(w, "store") => worker[w].val >= newest
    /\ swr = newest

SwrInv ==
    /\ Swr!SwrTypeOK
    /\ newest <= nights
    /\ swrInflight => \E w \in Swr!SwrWorkers : Holds(w)
    /\ \A w \in Swr!SwrWorkers :
         Swr!At(w, "store") \/ (w \in Requests /\ Swr!At(w, "drop")) => worker[w].val \in 1..nights
    /\ \A p \in Refreshers : Swr!At(p, "mark") => swr # 0
    /\ ~swrDoubled => OneComputes

LEMMA SwrInvInit == ASSUME Swr!SwrInit PROVE SwrInv
<1>1. Swr!SwrTypeOK
  <2>1. 0 \in 0..MaxNights /\ 1 \in 1..MaxNights
    BY NightsAssumption
  <2>. QED  BY <2>1 DEF Swr!SwrInit, Swr!SwrTypeOK, Swr!Idle, Swr!Nothing
<1>2. \A w \in Swr!SwrWorkers : worker[w].step = "idle"
  BY DEF Swr!SwrInit, Swr!Idle
<1>. QED  BY <1>1, <1>2, RefreshersAssumption
          DEF Swr!SwrInit, SwrInv, OneComputes, Holds, Swr!At, Swr!Nothing, Swr!Computing, Swr!SwrWorkers, Swr!SwrWorkers

\* A worker goes on; the others stay where they are.
LEMMA SwrWorkerMoves ==
    ASSUME Swr!SwrTypeOK, NEW w \in Swr!SwrWorkers, NEW s, NEW n \in 0..MaxNights,
           s \in {"idle", "mark", "compute", "drop", "store"},
           worker' = [worker EXCEPT ![w] = [step |-> s, val |-> n]]
    PROVE  /\ worker' \in [Swr!SwrWorkers -> [step : {"idle", "mark", "compute", "drop", "store"},
                                           val : 0..MaxNights]]
           /\ worker'[w].step = s /\ worker'[w].val = n
           /\ \A v \in Swr!SwrWorkers : v # w => worker'[v] = worker[v]
BY DEF Swr!SwrTypeOK

LEMMA SwrWorkerGoes ==
    ASSUME Swr!SwrTypeOK, NEW w \in Swr!SwrWorkers, NEW s, Swr!Goes(w, s)
    PROVE  worker' = [worker EXCEPT ![w] = [step |-> s, val |-> worker[w].val]]
<1>1. worker[w] \in [step : {"idle", "mark", "compute", "drop", "store"}, val : 0..MaxNights]
  BY DEF Swr!SwrTypeOK
<1>2. [worker[w] EXCEPT !.step = s] = [step |-> s, val |-> worker[w].val]
  BY <1>1
<1>. QED  BY <1>2 DEF Swr!Goes

LEMMA SwrInvStep == ASSUME SwrInv, Swr!SwrNext PROVE SwrInv'
<1>. USE DEF Swr!At, Swr!Nothing
<1>. Swr!SwrTypeOK /\ MaxNights \in Nat
  BY NightsAssumption DEF SwrInv
<1>. Requests \subseteq Swr!SwrWorkers /\ Refreshers \subseteq Swr!SwrWorkers
  BY DEF Swr!SwrWorkers
<1>0. ASSUME NEW w \in Swr!SwrWorkers
      PROVE  worker[w] \in [step : {"idle", "mark", "compute", "drop", "store"}, val : 0..MaxNights]
  BY DEF Swr!SwrTypeOK
<1>1. ASSUME Swr!NightAdded PROVE SwrInv'
  BY <1>1 DEF Swr!NightAdded, SwrInv, Swr!SwrTypeOK, OneComputes, Holds, Swr!Computing
<1>2. ASSUME Swr!Expire PROVE SwrInv'
  BY <1>2 DEF Swr!Expire, SwrInv, Swr!SwrTypeOK, OneComputes, Holds, Swr!Computing
<1>3. ASSUME NEW q \in Requests, Swr!Miss(q) PROVE SwrInv'
  <2>. q \in Swr!SwrWorkers /\ q \notin Refreshers
    BY RefreshersAssumption DEF Swr!SwrWorkers
  <2>1. worker' = [worker EXCEPT ![q] = [step |-> "mark", val |-> worker[q].val]]
    BY <1>3, SwrWorkerGoes DEF Swr!Miss
  <2>2. Swr!SwrTypeOK' /\ worker'[q].step = "mark" /\ \A v \in Swr!SwrWorkers : v # q => worker'[v] = worker[v]
    BY <1>0, <1>3, <2>1, SwrWorkerMoves DEF Swr!Miss, Swr!SwrTypeOK
  <2>. QED  BY <1>3, <2>2 DEF Swr!Miss, SwrInv, OneComputes, Holds, Swr!Computing
<1>4. ASSUME NEW q \in Requests, Swr!MarkCold(q) PROVE SwrInv'
  <2>. q \in Swr!SwrWorkers /\ q \notin Refreshers
    BY RefreshersAssumption DEF Swr!SwrWorkers
  <2>1. worker' = [worker EXCEPT ![q] = [step |-> "compute", val |-> worker[q].val]]
    BY <1>4, SwrWorkerGoes DEF Swr!MarkCold
  <2>2. Swr!SwrTypeOK' /\ worker'[q].step = "compute" /\ \A v \in Swr!SwrWorkers : v # q => worker'[v] = worker[v]
    BY <1>0, <1>4, <2>1, SwrWorkerMoves DEF Swr!MarkCold, Swr!SwrTypeOK
  <2>. QED  BY <1>4, <2>2 DEF Swr!MarkCold, SwrInv, OneComputes, Holds, Swr!Computing
<1>5. ASSUME NEW w \in Swr!SwrWorkers, NEW next,
             \/ w \in Requests /\ next = "drop"
             \/ w \in Refreshers /\ next = "store",
             Swr!Compute(w, next)
      PROVE  SwrInv'
  <2>1. worker' = [worker EXCEPT ![w] = [step |-> next, val |-> nights]] /\ nights \in 0..MaxNights
    BY <1>5 DEF Swr!Compute, Swr!SwrTypeOK
  <2>2. Swr!SwrTypeOK' /\ worker'[w].step = next /\ worker'[w].val = nights
        /\ \A v \in Swr!SwrWorkers : v # w => worker'[v] = worker[v]
    BY <1>5, <2>1, SwrWorkerMoves DEF Swr!Compute, Swr!SwrTypeOK
  <2>. QED  BY <1>5, <2>2, RefreshersAssumption DEF Swr!Compute, SwrInv, OneComputes, Holds, Swr!Computing, Swr!SwrTypeOK
<1>6. ASSUME NEW q \in Requests, Swr!Drop(q, "store") PROVE SwrInv'
  <2>. q \in Swr!SwrWorkers /\ q \notin Refreshers
    BY RefreshersAssumption DEF Swr!SwrWorkers
  <2>1. worker' = [worker EXCEPT ![q] = [step |-> "store", val |-> worker[q].val]]
    BY <1>6, SwrWorkerGoes DEF Swr!Drop
  <2>2. Swr!SwrTypeOK' /\ worker'[q].step = "store" /\ worker'[q].val = worker[q].val
        /\ \A v \in Swr!SwrWorkers : v # q => worker'[v] = worker[v]
    BY <1>0, <1>6, <2>1, SwrWorkerMoves DEF Swr!Drop, Swr!SwrTypeOK
  <2>. QED  BY <1>6, <2>2 DEF Swr!Drop, SwrInv, OneComputes, Holds, Swr!Computing
<1>7. ASSUME NEW q \in Requests, Swr!Store(q, "idle") PROVE SwrInv'
  <2>. q \in Swr!SwrWorkers /\ q \notin Refreshers
    BY RefreshersAssumption DEF Swr!SwrWorkers
  <2>1. worker' = [worker EXCEPT ![q] = [step |-> "idle", val |-> 0]]
    BY <1>7 DEF Swr!Store, Swr!Ends, Swr!Idle
  <2>2. worker[q].val \in 1..nights /\ swr' = worker[q].val
    BY <1>7 DEF Swr!Store, SwrInv
  <2>3. Swr!SwrTypeOK' /\ worker'[q].step = "idle" /\ \A v \in Swr!SwrWorkers : v # q => worker'[v] = worker[v]
    BY <1>7, <2>1, <2>2, SwrWorkerMoves DEF Swr!Store, Swr!SwrTypeOK
  <2>. QED  BY <1>7, <2>2, <2>3 DEF Swr!Store, SwrInv, OneComputes, Holds, Swr!Computing, Swr!SwrTypeOK
<1>8. ASSUME NEW p \in Refreshers, Swr!Stale(p) PROVE SwrInv'
  <2>. p \in Swr!SwrWorkers /\ p \notin Requests
    BY RefreshersAssumption DEF Swr!SwrWorkers
  <2>1. worker' = [worker EXCEPT ![p] = [step |-> "mark", val |-> worker[p].val]]
    BY <1>8, SwrWorkerGoes DEF Swr!Stale
  <2>2. Swr!SwrTypeOK' /\ worker'[p].step = "mark" /\ \A v \in Swr!SwrWorkers : v # p => worker'[v] = worker[v]
    BY <1>0, <1>8, <2>1, SwrWorkerMoves DEF Swr!Stale, Swr!SwrTypeOK
  <2>. QED  BY <1>8, <2>2 DEF Swr!Stale, SwrInv, OneComputes, Holds, Swr!Computing
<1>9. ASSUME NEW p \in Refreshers, Swr!MarkRefresh(p) PROVE SwrInv'
  <2>. p \in Swr!SwrWorkers /\ p \notin Requests
    BY RefreshersAssumption DEF Swr!SwrWorkers
  <2>1. CASE swrInflight
    <3>1. worker' = [worker EXCEPT ![p] = [step |-> "idle", val |-> 0]]
      BY <1>9, <2>1 DEF Swr!MarkRefresh, Swr!Ends, Swr!Idle, Swr!Alone
    <3>2. Swr!SwrTypeOK' /\ worker'[p].step = "idle" /\ \A v \in Swr!SwrWorkers : v # p => worker'[v] = worker[v]
      BY <1>9, <2>1, <3>1, SwrWorkerMoves DEF Swr!MarkRefresh, Swr!SwrTypeOK, Swr!Alone
    <3>. QED  BY <1>9, <2>1, <3>2 DEF Swr!MarkRefresh, Swr!Alone, SwrInv, OneComputes, Holds, Swr!Computing
  <2>2. CASE ~swrInflight
    <3>1. worker' = [worker EXCEPT ![p] = [step |-> "compute", val |-> worker[p].val]]
      BY <1>9, <2>2, SwrWorkerGoes DEF Swr!MarkRefresh, Swr!Alone
    <3>2. Swr!SwrTypeOK' /\ worker'[p].step = "compute" /\ \A v \in Swr!SwrWorkers : v # p => worker'[v] = worker[v]
      BY <1>0, <1>9, <2>2, <3>1, SwrWorkerMoves DEF Swr!MarkRefresh, Swr!SwrTypeOK, Swr!Alone
    <3>3. swr # 0 /\ (~swrDoubled => Swr!Computing = {})
      BY <1>9, <2>2 DEF Swr!MarkRefresh, SwrInv, OneComputes, Swr!Computing, Swr!SwrWorkers
    <3>. QED  BY <1>9, <2>2, <3>2, <3>3 DEF Swr!MarkRefresh, Swr!Alone, SwrInv, OneComputes, Holds, Swr!Computing
  <2>. QED  BY <2>1, <2>2
<1>10. ASSUME NEW p \in Refreshers, Swr!Store(p, "drop") PROVE SwrInv'
  <2>. p \in Swr!SwrWorkers /\ p \notin Requests
    BY RefreshersAssumption DEF Swr!SwrWorkers
  <2>1. worker' = [worker EXCEPT ![p] = [step |-> "drop", val |-> worker[p].val]]
    BY <1>10, SwrWorkerGoes DEF Swr!Store
  <2>2. worker[p].val \in 1..nights /\ swr' = worker[p].val
    BY <1>10 DEF Swr!Store, SwrInv
  <2>3. Swr!SwrTypeOK' /\ worker'[p].step = "drop" /\ \A v \in Swr!SwrWorkers : v # p => worker'[v] = worker[v]
    BY <1>10, <2>1, <2>2, SwrWorkerMoves DEF Swr!Store, Swr!SwrTypeOK
  <2>. QED  BY <1>10, <2>2, <2>3 DEF Swr!Store, SwrInv, OneComputes, Holds, Swr!Computing, Swr!SwrTypeOK
<1>11. ASSUME NEW p \in Refreshers, Swr!Drop(p, "idle") PROVE SwrInv'
  <2>. p \in Swr!SwrWorkers /\ p \notin Requests
    BY RefreshersAssumption DEF Swr!SwrWorkers
  <2>1. worker' = [worker EXCEPT ![p] = [step |-> "idle", val |-> 0]]
    BY <1>11 DEF Swr!Drop, Swr!Ends, Swr!Idle
  <2>2. 0 \in 0..MaxNights
    OBVIOUS
  <2>3. /\ worker' \in [Swr!SwrWorkers -> [step : {"idle", "mark", "compute", "drop", "store"}, val : 0..MaxNights]]
        /\ worker'[p].step = "idle" /\ \A v \in Swr!SwrWorkers : v # p => worker'[v] = worker[v]
    BY <2>1, <2>2, SwrWorkerMoves
  <2>4. Swr!SwrTypeOK'
    BY <1>11, <2>3 DEF Swr!Drop, Swr!SwrTypeOK
  <2>. QED  BY <1>11, <2>3, <2>4 DEF Swr!Drop, SwrInv, OneComputes, Holds, Swr!Computing
<1>. QED
  BY <1>1, <1>2, <1>3, <1>4, <1>5, <1>6, <1>7, <1>8, <1>9, <1>10, <1>11 DEF Swr!SwrNext

LEMMA SwrInvSafe == ASSUME SwrInv PROVE Swr!SwrGoesForward
BY DEF SwrInv, OneComputes, Holds, Swr!SwrGoesForward, Swr!Computing, Swr!At

LEMMA SwrInvStays == ASSUME SwrInv, UNCHANGED swrVars PROVE SwrInv'
BY DEF swrVars, SwrInv, Swr!SwrTypeOK, Swr!At, Holds, OneComputes, Swr!Computing

------------------------------------------------------------------------------
(* SettingsCache: copies of the settings in memory, the file, and the page. *)

\* Who has a copy in hand, and who changes.
InHand == {"release", "store", "merge", "dump", "replace"}
SettingsHands ==
    \A t \in Settings!Callers :
      /\ patcher[t].step \in InHand => patcher[t].copy \in Copies
      /\ patcher[t].step \notin InHand => patcher[t].copy = Settings!NoCopy
      /\ patcher[t].step \in {"merge", "dump", "replace", "answer"} => t \in Patches

OneLoads ==
    /\ \A t \in Settings!Callers : patcher[t].step \in {"load", "release"} => inflight = t
    /\ inflight # Settings!Nobody => patcher[inflight].step \in {"load", "release"}

PageShows ==
    lateAnswer \/ ~page.live \/ page.val = config \/ \E p \in Patches : patcher[p].step = "answer"

Changes(p) == patcher[p].step \in {"merge", "dump", "replace"}
OneChanges == \A p, q \in Patches : Changes(p) /\ Changes(q) => p = q

\* A change on its way has every one before it, and itself once it is merged.
NoneIsLost ==
    /\ saved \subseteq config
    /\ entry # Settings!NoCopy => saved \subseteq copy[entry]
    /\ \A p \in Patches :
         /\ patcher[p].step = "merge" => saved \subseteq copy[patcher[p].copy]
         /\ patcher[p].step = "dump" => saved \cup {p} \subseteq copy[patcher[p].copy]
         /\ patcher[p].step = "replace" => saved \cup {p} \subseteq patcher[p].text

\* A copy differs from the file by the change that is on its way.
CopiesAgree ==
    /\ \A p \in Patches :
         /\ patcher[p].step = "merge" => copy[patcher[p].copy] = config
         /\ patcher[p].step \in {"dump", "replace"} => copy[patcher[p].copy] = config \cup {p}
         /\ patcher[p].step = "replace" => patcher[p].text = config \cup {p}
    /\ entry # Settings!NoCopy /\ copy[entry] # config =>
         \E p \in Patches : patcher[p].step \in {"dump", "replace"} /\ patcher[p].copy = entry

SettingsInv ==
    /\ Settings!SettingsTypeOK
    /\ SettingsHands /\ OneLoads /\ PageShows
    /\ ~crossedPatch => OneChanges
    /\ ~staleCopy /\ ~crossedPatch => NoneIsLost
    /\ ~staleCopy /\ ~crossedPatch /\ ~phantom => CopiesAgree

LEMMA SettingsInvInit == ASSUME Settings!SettingsInit PROVE SettingsInv
<1>1. Settings!SettingsTypeOK
  BY DEF Settings!SettingsInit, Settings!SettingsTypeOK, Settings!Idle, Settings!NoCopy, Settings!Nobody,
         Settings!Absent, Settings!NoGet, Settings!ThreadStates
<1>. QED
  BY <1>1 DEF SettingsInv, SettingsHands, OneLoads, PageShows, OneChanges, Changes, NoneIsLost, CopiesAgree,
              InHand, Settings!SettingsInit, Settings!Idle, Settings!Absent, Settings!Callers

\* There are more copies than threads, so that one is free for who has none.
LEMMA FreshIsFree ==
    ASSUME Settings!SettingsTypeOK, NEW t \in Settings!Callers, patcher[t].copy = Settings!NoCopy
    PROVE  /\ Settings!Fresh \in Copies /\ Settings!Fresh # entry
           /\ \A u \in Settings!Callers : patcher[u].copy # Settings!Fresh
<1>1. PICK any \in Copies : TRUE
  BY CopiesAssumption
<1>. DEFINE taken(u) == IF u = t THEN entry ELSE patcher[u].copy
            f == [u \in Settings!Callers |-> IF taken(u) \in Copies THEN taken(u) ELSE any]
<1>2. f \in [Readers \cup Patches -> Copies]
  BY <1>1 DEF Settings!Callers
<1>3. PICK c \in Copies : \A u \in Settings!Callers : f[u] # c
  BY <1>2, CopiesAssumption DEF Settings!Callers
<1>4. \A u \in Settings!Callers : taken(u) # c
  BY <1>3
<1>5. c # entry /\ \A u \in Settings!Callers : patcher[u].copy # c
  BY <1>4, CopiesAssumption DEF Settings!NoCopy
<1>6. c \in Settings!Free
  BY <1>5 DEF Settings!Free
<1>7. Settings!Fresh \in Settings!Free
  BY <1>6 DEF Settings!Fresh
<1>. QED  BY <1>7 DEF Settings!Free

\* The thread of a step moves, the others stay.
LEMMA PatcherMoves ==
    ASSUME Settings!SettingsTypeOK, NEW t \in Settings!Callers, NEW to \in Settings!ThreadStates,
           patcher' = [patcher EXCEPT ![t] = to]
    PROVE  /\ patcher' \in [Settings!Callers -> Settings!ThreadStates]
           /\ patcher'[t] = to
           /\ \A u \in Settings!Callers : u # t => patcher'[u] = patcher[u]
BY DEF Settings!SettingsTypeOK

LEMMA PatcherGoes ==
    ASSUME Settings!SettingsTypeOK, NEW t \in Settings!Callers, NEW s, Settings!Goes(t, s),
           s \in {"wait", "claim", "again", "load", "release", "store", "dump"}
    PROVE  /\ patcher' \in [Settings!Callers -> Settings!ThreadStates]
           /\ patcher'[t].step = s /\ patcher'[t].copy = patcher[t].copy /\ patcher'[t].text = patcher[t].text
           /\ \A u \in Settings!Callers : u # t => patcher'[u] = patcher[u]
BY DEF Settings!SettingsTypeOK, Settings!Goes, Settings!ThreadStates

LEMMA GotGives ==
    ASSUME Settings!SettingsTypeOK, NEW t \in Settings!Callers, NEW c \in Copies \cup {Settings!NoCopy},
           Settings!Got(t, c)
    PROVE  /\ patcher' \in [Settings!Callers -> Settings!ThreadStates]
           /\ \A u \in Settings!Callers : u # t => patcher'[u] = patcher[u]
           /\ t \in Patches => patcher'[t].step = "merge" /\ patcher'[t].copy = c
           /\ t \notin Patches => patcher'[t] = Settings!Idle
           /\ crossedPatch' \in BOOLEAN /\ (crossedPatch => crossedPatch')
           /\ t \in Patches /\ ~crossedPatch' => \A p \in Patches : ~Changes(p)
<1>. DEFINE to == IF t \in Patches THEN [Settings!Idle EXCEPT !.step = "merge", !.copy = c] ELSE Settings!Idle
<1>1. /\ patcher' = [patcher EXCEPT ![t] = to]
      /\ t \in Patches => to.step = "merge" /\ to.copy = c
      /\ t \notin Patches => to = Settings!Idle
  BY DEF Settings!Got, Settings!Idle
<1>2. to \in Settings!ThreadStates
  BY DEF Settings!Idle, Settings!ThreadStates
<1>. HIDE DEF to
<1>3. crossedPatch' \in BOOLEAN /\ (crossedPatch => crossedPatch')
  BY DEF Settings!Got, Settings!SettingsTypeOK
<1>4. t \in Patches /\ ~crossedPatch' => \A p \in Patches : ~Changes(p)
  BY DEF Settings!Got, Settings!Changing, Changes
<1>. QED  BY <1>1, <1>2, <1>3, <1>4, PatcherMoves

\* What any step of cached() gives: the file, the page and the other threads stay, and a thread
\* that goes on to change has a copy of the file, or the one that is kept.
CachedSteps == {"idle", "wait", "claim", "again", "load", "release", "store"}
CachedGives(t) ==
    /\ UNCHANGED <<config, saved, phantom, page, get, lateAnswer>>
    /\ patcher' \in [Settings!Callers -> Settings!ThreadStates]
    /\ \A u \in Settings!Callers : u # t => patcher'[u] = patcher[u]
    /\ patcher[t].step \in CachedSteps /\ patcher'[t].step \in CachedSteps \cup {"merge"}
    /\ patcher'[t].step \in InHand => patcher'[t].copy \in Copies
    /\ patcher'[t].step \notin InHand => patcher'[t].copy = Settings!NoCopy
    /\ copy' \in [Copies -> SUBSET Patches]
    /\ \A u \in Settings!Callers : u # t /\ patcher[u].copy \in Copies =>
         copy'[patcher[u].copy] = copy[patcher[u].copy]
    /\ \/ entry' = entry /\ (entry \in Copies => copy'[entry] = copy[entry])
       \/ entry' \in Copies /\ (staleCopy' \/ copy'[entry'] = config)
    /\ patcher'[t].step = "merge" =>
         /\ t \in Patches /\ (crossedPatch' \/ \A p \in Patches : ~Changes(p))
         /\ staleCopy' \/ copy'[patcher'[t].copy] = config \/ (patcher'[t].copy = entry /\ entry' = entry)
    /\ staleCopy' \in BOOLEAN /\ crossedPatch' \in BOOLEAN
    /\ (staleCopy => staleCopy') /\ (crossedPatch => crossedPatch')
    /\ inflight' \in Settings!Callers \cup {Settings!Nobody}
    /\ OneLoads'

LEMMA CachedGiven ==
    ASSUME SettingsInv, NEW t \in Settings!Callers, Settings!Cached(t) PROVE CachedGives(t)
<1>. Settings!SettingsTypeOK /\ SettingsHands /\ OneLoads
  BY DEF SettingsInv
<1>. Settings!Nobody \notin Settings!Callers /\ Settings!NoCopy \notin Copies
  BY ReadersAssumption, CopiesAssumption DEF Settings!Callers, Settings!Nobody, Settings!NoCopy
<1>. USE DEF Settings!At
<1>1. ASSUME entry # Settings!NoCopy \/ t \in Readers, patcher[t].step \in {"idle", "wait", "again"}, Settings!Got(t, entry),
             UNCHANGED <<config, saved, copy, entry, inflight, staleCopy, phantom, page, get, lateAnswer>>
      PROVE  CachedGives(t)
  <2>1. entry \in Copies \cup {Settings!NoCopy} /\ (t \in Patches => entry \in Copies)
    BY <1>1, ReadersAssumption DEF Settings!SettingsTypeOK
  <2>2. /\ patcher' \in [Settings!Callers -> Settings!ThreadStates]
        /\ \A u \in Settings!Callers : u # t => patcher'[u] = patcher[u]
        /\ t \in Patches => patcher'[t].step = "merge" /\ patcher'[t].copy = entry
        /\ t \notin Patches => patcher'[t] = Settings!Idle
        /\ crossedPatch' \in BOOLEAN /\ (crossedPatch => crossedPatch')
        /\ t \in Patches /\ ~crossedPatch' => \A p \in Patches : ~Changes(p)
    BY <1>1, <2>1, GotGives
  <2>3. patcher'[t].step \in {"idle", "merge"} /\ (patcher'[t].step = "merge" <=> t \in Patches)
    BY <2>2 DEF Settings!Idle
  <2>4. patcher'[t].step = "idle" => patcher'[t].copy = Settings!NoCopy
    BY <2>2, <2>3 DEF Settings!Idle
  <2>5. OneLoads'
    BY <1>1, <2>2, <2>3 DEF OneLoads, Settings!SettingsTypeOK
  <2>. QED  BY <1>1, <2>1, <2>2, <2>3, <2>4, <2>5 DEF CachedGives, CachedSteps, InHand, Settings!SettingsTypeOK
<1>2. ASSUME NEW s \in {"claim", "wait"}, patcher[t].step \in {"idle", "wait"}, Settings!Goes(t, s),
             UNCHANGED <<config, saved, copy, entry, inflight, staleCopy, crossedPatch, phantom, page, get, lateAnswer>>
      PROVE  CachedGives(t)
  <2>1. /\ patcher' \in [Settings!Callers -> Settings!ThreadStates]
        /\ patcher'[t].step = s /\ patcher'[t].copy = Settings!NoCopy
        /\ \A u \in Settings!Callers : u # t => patcher'[u] = patcher[u]
    BY <1>2, PatcherGoes DEF SettingsHands, InHand
  <2>2. OneLoads'
    BY <1>2, <2>1 DEF OneLoads, Settings!SettingsTypeOK
  <2>. QED  BY <1>2, <2>1, <2>2 DEF CachedGives, CachedSteps, InHand, Settings!SettingsTypeOK
<1>3. CASE Settings!Look(t)
  BY <1>1, <1>2, <1>3 DEF Settings!Look, Settings!dashboardVars
<1>4. CASE Settings!Wake(t)
  BY <1>1, <1>2, <1>4 DEF Settings!Wake, Settings!dashboardVars
<1>5. CASE Settings!Claim(t)
  <2>1. PICK s \in {"load", "again"} :
          /\ Settings!Goes(t, s)
          /\ s = "load" => inflight = Settings!Nobody /\ inflight' = t
          /\ s = "again" => inflight # Settings!Nobody /\ inflight' = inflight
    BY <1>5 DEF Settings!Claim
  <2>2. /\ patcher' \in [Settings!Callers -> Settings!ThreadStates]
        /\ patcher'[t].step = s /\ patcher'[t].copy = Settings!NoCopy
        /\ \A u \in Settings!Callers : u # t => patcher'[u] = patcher[u]
    <3>1. patcher[t].copy = Settings!NoCopy
      BY <1>5 DEF Settings!Claim, SettingsHands, InHand
    <3>. QED  BY <2>1, <3>1, PatcherGoes
  <2>3. OneLoads' /\ inflight' \in Settings!Callers \cup {Settings!Nobody}
    <3>1. inflight \in Settings!Callers \cup {Settings!Nobody} /\ patcher[t].step = "claim"
      BY <1>5 DEF Settings!SettingsTypeOK, Settings!Claim
    <3>2. CASE s = "load"
      BY <2>1, <2>2, <3>1, <3>2 DEF OneLoads
    <3>3. CASE s = "again"
      BY <2>1, <2>2, <3>1, <3>3 DEF OneLoads
    <3>. QED  BY <3>2, <3>3
  <2>. QED
    BY <1>5, <2>1, <2>2, <2>3 DEF Settings!Claim, Settings!dashboardVars, CachedGives, CachedSteps, InHand, Settings!SettingsTypeOK
<1>6. CASE Settings!Alone(t)
  <2>1. CASE entry # Settings!NoCopy \/ t \in Readers
    BY <1>1, <1>6, <2>1 DEF Settings!Alone, Settings!dashboardVars
  <2>2. CASE ~(entry # Settings!NoCopy \/ t \in Readers)
    <3>. DEFINE c == Settings!Fresh
    <3>1. patcher[t].step = "again" /\ patcher[t].copy = Settings!NoCopy /\ t \in Patches
      BY <1>6, <2>2 DEF Settings!Alone, SettingsHands, InHand, Settings!Callers
    <3>2. c \in Copies /\ c # entry /\ \A u \in Settings!Callers : patcher[u].copy # c
      BY <3>1, FreshIsFree
    <3>3. /\ Settings!Got(t, c) /\ copy' = [copy EXCEPT ![c] = config]
          /\ UNCHANGED <<config, saved, entry, inflight, staleCopy, phantom, page, get, lateAnswer>>
      BY <1>6, <2>2 DEF Settings!Alone, Settings!dashboardVars
    <3>. HIDE DEF c
    <3>4. /\ patcher' \in [Settings!Callers -> Settings!ThreadStates]
          /\ \A u \in Settings!Callers : u # t => patcher'[u] = patcher[u]
          /\ patcher'[t].step = "merge" /\ patcher'[t].copy = c
          /\ crossedPatch' \in BOOLEAN /\ (crossedPatch => crossedPatch')
          /\ ~crossedPatch' => \A p \in Patches : ~Changes(p)
      BY <3>1, <3>2, <3>3, GotGives
    <3>5. /\ copy' \in [Copies -> SUBSET Patches] /\ copy'[c] = config
          /\ \A d \in Copies : d # c => copy'[d] = copy[d]
      BY <3>2, <3>3 DEF Settings!SettingsTypeOK
    <3>6. OneLoads'
      BY <3>1, <3>3, <3>4 DEF OneLoads, Settings!SettingsTypeOK
    <3>. QED
      BY <3>1, <3>2, <3>3, <3>4, <3>5, <3>6 DEF CachedGives, CachedSteps, InHand, Settings!SettingsTypeOK
  <2>. QED  BY <2>1, <2>2
<1>7. CASE Settings!Load(t)
  <2>. DEFINE c == Settings!Fresh
  <2>1. patcher[t].step = "load" /\ patcher[t].copy = Settings!NoCopy
    BY <1>7 DEF Settings!Load, SettingsHands, InHand
  <2>2. c \in Copies /\ c # entry /\ \A u \in Settings!Callers : patcher[u].copy # c
    BY <2>1, FreshIsFree
  <2>3. /\ patcher' = [patcher EXCEPT ![t].step = "release", ![t].copy = c] /\ copy' = [copy EXCEPT ![c] = config]
        /\ UNCHANGED <<config, saved, entry, inflight, staleCopy, crossedPatch, phantom, page, get, lateAnswer>>
    BY <1>7 DEF Settings!Load, Settings!dashboardVars
  <2>. HIDE DEF c
  <2>4. /\ patcher' \in [Settings!Callers -> Settings!ThreadStates]
        /\ \A u \in Settings!Callers : u # t => patcher'[u] = patcher[u]
        /\ patcher'[t].step = "release" /\ patcher'[t].copy = c
    BY <2>2, <2>3 DEF Settings!SettingsTypeOK, Settings!ThreadStates
  <2>5. /\ copy' \in [Copies -> SUBSET Patches]
        /\ \A d \in Copies : d # c => copy'[d] = copy[d]
    BY <2>2, <2>3 DEF Settings!SettingsTypeOK
  <2>6. OneLoads'
    BY <2>1, <2>3, <2>4 DEF OneLoads, Settings!SettingsTypeOK
  <2>. QED
    BY <2>1, <2>2, <2>3, <2>4, <2>5, <2>6 DEF CachedGives, CachedSteps, InHand, Settings!SettingsTypeOK
<1>8. CASE Settings!LoadFails(t)
  <2>1. Settings!Idle \in Settings!ThreadStates
    BY DEF Settings!Idle, Settings!ThreadStates
  <2>2. /\ patcher' \in [Settings!Callers -> Settings!ThreadStates]
        /\ patcher'[t] = Settings!Idle
        /\ \A u \in Settings!Callers : u # t => patcher'[u] = patcher[u]
    BY <1>8, <2>1, PatcherMoves DEF Settings!LoadFails
  <2>3. patcher'[t].step = "idle" /\ patcher'[t].copy = Settings!NoCopy
    BY <2>2 DEF Settings!Idle
  <2>4. OneLoads' /\ inflight' = Settings!Nobody
    BY <1>8, <2>2, <2>3 DEF OneLoads, Settings!SettingsTypeOK, Settings!LoadFails, Settings!ClearedMarker
  <2>. QED
    BY <1>8, <2>2, <2>3, <2>4
       DEF Settings!LoadFails, Settings!dashboardVars, CachedGives, CachedSteps, InHand, Settings!SettingsTypeOK
<1>9. CASE Settings!Release(t)
  <2>1. /\ patcher' \in [Settings!Callers -> Settings!ThreadStates]
        /\ patcher'[t].step = "store" /\ patcher'[t].copy = patcher[t].copy
        /\ \A u \in Settings!Callers : u # t => patcher'[u] = patcher[u]
    BY <1>9, PatcherGoes DEF Settings!Release
  <2>2. patcher[t].copy \in Copies
    BY <1>9 DEF Settings!Release, SettingsHands, InHand
  <2>3. OneLoads' /\ inflight' = Settings!Nobody
    BY <1>9, <2>1 DEF OneLoads, Settings!SettingsTypeOK, Settings!Release
  <2>. QED
    BY <1>9, <2>1, <2>2, <2>3
       DEF Settings!Release, Settings!dashboardVars, CachedGives, CachedSteps, InHand, Settings!SettingsTypeOK
<1>10. CASE Settings!Store(t)
  <2>. DEFINE c == patcher[t].copy
  <2>1. c \in Copies
    BY <1>10 DEF Settings!Store, SettingsHands, InHand
  <2>2. /\ patcher[t].step = "store" /\ entry' = c /\ Settings!Got(t, c) /\ Settings!Collected
        /\ UNCHANGED <<config, saved, inflight, phantom, page, get, lateAnswer>>
        /\ staleCopy' \in BOOLEAN /\ (staleCopy => staleCopy') /\ (~staleCopy' => copy[c] = config)
    BY <1>10 DEF Settings!Store, Settings!dashboardVars, Settings!SettingsTypeOK
  <2>. HIDE DEF c
  <2>3. /\ patcher' \in [Settings!Callers -> Settings!ThreadStates]
        /\ \A u \in Settings!Callers : u # t => patcher'[u] = patcher[u]
        /\ t \in Patches => patcher'[t].step = "merge" /\ patcher'[t].copy = c
        /\ t \notin Patches => patcher'[t] = Settings!Idle
        /\ crossedPatch' \in BOOLEAN /\ (crossedPatch => crossedPatch')
        /\ t \in Patches /\ ~crossedPatch' => \A p \in Patches : ~Changes(p)
    BY <2>1, <2>2, GotGives
  <2>4. patcher'[t].step \in {"idle", "merge"} /\ (patcher'[t].step = "merge" <=> t \in Patches)
    BY <2>3 DEF Settings!Idle
  <2>5. patcher'[t].step = "idle" => patcher'[t].copy = Settings!NoCopy
    BY <2>3, <2>4 DEF Settings!Idle
  <2>6. /\ copy' \in [Copies -> SUBSET Patches] /\ copy'[c] = copy[c]
        /\ \A u \in Settings!Callers : u # t /\ patcher[u].copy \in Copies =>
             copy'[patcher[u].copy] = copy[patcher[u].copy]
    BY <2>1, <2>2, <2>3 DEF Settings!Collected, Settings!SettingsTypeOK
  <2>7. OneLoads'
    BY <2>2, <2>3, <2>4 DEF OneLoads, Settings!SettingsTypeOK
  <2>. QED
    BY <2>1, <2>2, <2>3, <2>4, <2>5, <2>6, <2>7 DEF CachedGives, CachedSteps, InHand, Settings!SettingsTypeOK
<1>. QED  BY <1>3, <1>4, <1>5, <1>6, <1>7, <1>8, <1>9, <1>10 DEF Settings!Cached

LEMMA CachedStep ==
    ASSUME SettingsInv, NEW t \in Settings!Callers, Settings!Cached(t) PROVE SettingsInv'
<1>. SettingsInv /\ Settings!SettingsTypeOK /\ SettingsHands /\ CachedGives(t)
  BY CachedGiven DEF SettingsInv
<1>. Settings!NoCopy \notin Copies
  BY CopiesAssumption DEF Settings!NoCopy
<1>1. Settings!SettingsTypeOK'
  BY DEF CachedGives, Settings!SettingsTypeOK
<1>2. SettingsHands' /\ OneLoads'
  BY DEF CachedGives, SettingsHands, CachedSteps, InHand
<1>3. PageShows'
  BY DEF SettingsInv, CachedGives, PageShows, CachedSteps, Settings!Callers
<1>4. \A p \in Patches : p # t => patcher'[p] = patcher[p]
  BY DEF CachedGives, Settings!Callers
<1>5. ~Changes(t) /\ (Changes(t)' => patcher'[t].step = "merge")
  BY DEF CachedGives, Changes, CachedSteps
<1>6. (~crossedPatch => OneChanges)'
  <2>1. CASE patcher'[t].step = "merge"
    BY <1>4, <1>5, <2>1 DEF CachedGives, OneChanges, Changes
  <2>2. CASE patcher'[t].step # "merge"
    BY <1>4, <1>5, <2>2 DEF CachedGives, OneChanges, Changes, SettingsInv
  <2>. QED  BY <2>1, <2>2
<1>7. (~staleCopy /\ ~crossedPatch => NoneIsLost)'
  <2>. SUFFICES ASSUME ~staleCopy', ~crossedPatch' PROVE NoneIsLost'
    OBVIOUS
  <2>. NoneIsLost /\ UNCHANGED <<config, saved>>
    BY DEF SettingsInv, CachedGives
  <2>1. entry' # Settings!NoCopy => saved \subseteq copy'[entry']
    BY DEF CachedGives, NoneIsLost, Settings!SettingsTypeOK
  <2>2. patcher'[t].step = "merge" => saved \subseteq copy'[patcher'[t].copy]
    <3>. SUFFICES ASSUME patcher'[t].step = "merge" PROVE saved \subseteq copy'[patcher'[t].copy]
      OBVIOUS
    <3>1. patcher'[t].copy \in Copies
      BY DEF CachedGives, InHand
    <3>. QED  BY <2>1, <3>1 DEF CachedGives, NoneIsLost
  <2>3. patcher'[t].step \notin {"dump", "replace"}
    BY DEF CachedGives, CachedSteps
  <2>4. ASSUME NEW p \in Patches, p # t, patcher[p].step \in {"merge", "dump"}
        PROVE  copy'[patcher[p].copy] = copy[patcher[p].copy]
    BY <2>4 DEF CachedGives, SettingsHands, InHand, Settings!Callers
  <2>. QED  BY <1>4, <2>1, <2>2, <2>3, <2>4 DEF NoneIsLost
<1>8. (~staleCopy /\ ~crossedPatch /\ ~phantom => CopiesAgree)'
  <2>. SUFFICES ASSUME ~staleCopy', ~crossedPatch', ~phantom' PROVE CopiesAgree'
    OBVIOUS
  <2>. CopiesAgree /\ UNCHANGED config
    BY DEF SettingsInv, CachedGives
  <2>1. patcher'[t].step = "merge" => copy'[patcher'[t].copy] = config
    <3>. SUFFICES ASSUME patcher'[t].step = "merge", patcher'[t].copy = entry, entry' = entry
                  PROVE  copy'[entry] = config
      BY DEF CachedGives
    <3>1. entry \in Copies
      BY DEF CachedGives, InHand
    <3>2. copy'[entry] = copy[entry] \/ copy'[entry] = config
      BY <3>1 DEF CachedGives
    <3>3. \A p \in Patches : ~Changes(p)
      BY DEF CachedGives
    <3>4. copy[entry] = config
      BY <3>1, <3>3 DEF CopiesAgree, Changes
    <3>. QED  BY <3>2, <3>4
  <2>2. patcher'[t].step \notin {"dump", "replace"} /\ patcher[t].step \notin {"dump", "replace"}
    BY DEF CachedGives, CachedSteps
  <2>3. ASSUME NEW p \in Patches, p # t, patcher[p].step \in {"merge", "dump", "replace"}
        PROVE  copy'[patcher[p].copy] = copy[patcher[p].copy]
    BY <2>3 DEF CachedGives, SettingsHands, InHand, Settings!Callers
  <2>4. entry' # Settings!NoCopy /\ copy'[entry'] # config =>
          \E p \in Patches : patcher'[p].step \in {"dump", "replace"} /\ patcher'[p].copy = entry'
    <3>. SUFFICES ASSUME entry' # Settings!NoCopy, copy'[entry'] # config
                  PROVE  \E p \in Patches : patcher'[p].step \in {"dump", "replace"} /\ patcher'[p].copy = entry'
      OBVIOUS
    <3>1. entry' = entry /\ copy'[entry] = copy[entry]
      BY DEF CachedGives, Settings!SettingsTypeOK
    <3>. QED  BY <1>4, <2>2, <3>1 DEF CopiesAgree
  <2>. QED  BY <1>4, <2>1, <2>2, <2>3, <2>4 DEF CopiesAgree
<1>. QED  BY <1>1, <1>2, <1>3, <1>6, <1>7, <1>8 DEF SettingsInv

\* A copy that somebody has, or that is kept, is not collected.
LEMMA CollectedKeeps ==
    ASSUME Settings!SettingsTypeOK, Settings!Collected
    PROVE  /\ copy' \in [Copies -> SUBSET Patches]
           /\ entry' \in Copies => copy'[entry'] = copy[entry']
           /\ \A t \in Settings!Callers : patcher'[t].copy \in Copies =>
                copy'[patcher'[t].copy] = copy[patcher'[t].copy]
BY DEF Settings!SettingsTypeOK, Settings!Collected

LEMMA MergeStep ==
    ASSUME SettingsInv, NEW q \in Patches, Settings!MergePatch(q) PROVE SettingsInv'
<1>. DEFINE c == patcher[q].copy
<1>. Settings!SettingsTypeOK /\ SettingsHands /\ q \in Settings!Callers
  BY DEF SettingsInv, Settings!Callers
<1>1. /\ patcher[q].step = "merge" /\ Settings!Goes(q, "dump") /\ c \in Copies
      /\ copy' = [copy EXCEPT ![c] = copy[c] \cup {q}]
      /\ UNCHANGED <<config, saved, entry, inflight, staleCopy, crossedPatch, phantom, page, get, lateAnswer>>
  BY DEF Settings!MergePatch, Settings!dashboardVars, Settings!At, SettingsHands, InHand
<1>. HIDE DEF c
<1>2. /\ patcher' \in [Settings!Callers -> Settings!ThreadStates]
      /\ patcher'[q].step = "dump" /\ patcher'[q].copy = c
      /\ \A u \in Settings!Callers : u # q => patcher'[u] = patcher[u]
  BY <1>1, PatcherGoes DEF c
<1>3. /\ copy' \in [Copies -> SUBSET Patches] /\ copy'[c] = copy[c] \cup {q}
      /\ \A d \in Copies : d # c => copy'[d] = copy[d]
  BY <1>1 DEF Settings!SettingsTypeOK
<1>4. Settings!SettingsTypeOK'
  BY <1>1, <1>2, <1>3 DEF Settings!SettingsTypeOK
<1>5. SettingsHands'
  BY <1>1, <1>2 DEF SettingsHands, InHand
<1>6. OneLoads'
  BY <1>1, <1>2 DEF SettingsInv, OneLoads, Settings!SettingsTypeOK
<1>7. PageShows'
  BY <1>1, <1>2 DEF SettingsInv, PageShows, Settings!Callers
<1>8. \A p \in Patches : Changes(p)' = Changes(p)
  BY <1>1, <1>2 DEF Changes, Settings!Callers
<1>9. (~crossedPatch => OneChanges)'
  BY <1>1, <1>8 DEF SettingsInv, OneChanges
<1>10. ~crossedPatch => \A p \in Patches : p # q => ~Changes(p)
  BY <1>1 DEF SettingsInv, OneChanges, Changes
<1>11. (~staleCopy /\ ~crossedPatch => NoneIsLost)'
  <2>. SUFFICES ASSUME ~staleCopy, ~crossedPatch PROVE NoneIsLost'
    BY <1>1
  <2>. NoneIsLost
    BY DEF SettingsInv
  <2>1. saved \subseteq copy[c]
    BY <1>1 DEF NoneIsLost, c
  <2>2. entry # Settings!NoCopy => saved \subseteq copy'[entry]
    BY <1>3, <2>1 DEF NoneIsLost, Settings!SettingsTypeOK
  <2>3. saved \cup {q} \subseteq copy'[c]
    BY <1>3, <2>1
  <2>. QED  BY <1>1, <1>2, <1>10, <2>2, <2>3 DEF NoneIsLost, Changes, Settings!Callers
<1>12. (~staleCopy /\ ~crossedPatch /\ ~phantom => CopiesAgree)'
  <2>. SUFFICES ASSUME ~staleCopy, ~crossedPatch, ~phantom PROVE CopiesAgree'
    BY <1>1
  <2>. CopiesAgree
    BY DEF SettingsInv
  <2>1. copy'[c] = config \cup {q}
    BY <1>1, <1>3 DEF CopiesAgree, c
  <2>2. entry # Settings!NoCopy /\ copy'[entry] # config => entry = c
    BY <1>1, <1>3, <1>10 DEF CopiesAgree, Changes, Settings!SettingsTypeOK
  <2>. QED  BY <1>1, <1>2, <1>10, <2>1, <2>2 DEF CopiesAgree, Changes, Settings!Callers
<1>. QED  BY <1>4, <1>5, <1>6, <1>7, <1>9, <1>11, <1>12 DEF SettingsInv

LEMMA DumpStep ==
    ASSUME SettingsInv, NEW q \in Patches, Settings!Dump(q) PROVE SettingsInv'
<1>. DEFINE c == patcher[q].copy
<1>. Settings!SettingsTypeOK /\ SettingsHands /\ q \in Settings!Callers
  BY DEF SettingsInv, Settings!Callers
<1>1. /\ patcher[q].step = "dump" /\ c \in Copies
      /\ patcher' = [patcher EXCEPT ![q].step = "replace", ![q].text = copy[c]]
      /\ UNCHANGED <<config, saved, copy, entry, inflight, staleCopy, crossedPatch, phantom, page, get, lateAnswer>>
  BY DEF Settings!Dump, Settings!dashboardVars, Settings!At, SettingsHands, InHand
<1>2. /\ patcher' \in [Settings!Callers -> Settings!ThreadStates]
      /\ patcher'[q].step = "replace" /\ patcher'[q].copy = c /\ patcher'[q].text = copy[c]
      /\ \A u \in Settings!Callers : u # q => patcher'[u] = patcher[u]
  <2>1. copy[c] \in SUBSET Patches
    BY <1>1 DEF Settings!SettingsTypeOK
  <2>. QED  BY <1>1, <2>1 DEF Settings!SettingsTypeOK, Settings!ThreadStates
<1>3. Settings!SettingsTypeOK'
  BY <1>1, <1>2 DEF Settings!SettingsTypeOK
<1>4. SettingsHands'
  BY <1>1, <1>2 DEF SettingsHands, InHand
<1>5. OneLoads'
  BY <1>1, <1>2 DEF SettingsInv, OneLoads, Settings!SettingsTypeOK
<1>6. PageShows'
  BY <1>1, <1>2 DEF SettingsInv, PageShows, Settings!Callers
<1>7. (~crossedPatch => OneChanges)'
  BY <1>1, <1>2 DEF SettingsInv, OneChanges, Changes, Settings!Callers
<1>8. (~staleCopy /\ ~crossedPatch => NoneIsLost)'
  BY <1>1, <1>2 DEF SettingsInv, NoneIsLost, Settings!Callers
<1>9. (~staleCopy /\ ~crossedPatch /\ ~phantom => CopiesAgree)'
  BY <1>1, <1>2 DEF SettingsInv, CopiesAgree, Settings!Callers
<1>. QED  BY <1>3, <1>4, <1>5, <1>6, <1>7, <1>8, <1>9 DEF SettingsInv

LEMMA WriteFailsStep ==
    ASSUME SettingsInv, NEW q \in Patches, Settings!WriteFails(q) PROVE SettingsInv'
<1>. Settings!SettingsTypeOK /\ SettingsHands /\ q \in Settings!Callers
  BY DEF SettingsInv, Settings!Callers
<1>. Settings!NoCopy \notin Copies
  BY CopiesAssumption DEF Settings!NoCopy
<1>1. /\ patcher[q].step = "dump" /\ phantom' = TRUE /\ patcher' = [patcher EXCEPT ![q] = Settings!Idle]
      /\ Settings!Collected
      /\ UNCHANGED <<config, saved, entry, inflight, staleCopy, crossedPatch, page, get, lateAnswer>>
  BY DEF Settings!WriteFails, Settings!dashboardVars, Settings!At
<1>2. /\ patcher' \in [Settings!Callers -> Settings!ThreadStates]
      /\ patcher'[q].step = "idle" /\ patcher'[q].copy = Settings!NoCopy
      /\ \A u \in Settings!Callers : u # q => patcher'[u] = patcher[u]
  BY <1>1, PatcherMoves DEF Settings!Idle, Settings!ThreadStates
<1>3. Settings!SettingsTypeOK'
  BY <1>1, <1>2, CollectedKeeps DEF Settings!SettingsTypeOK
<1>4. SettingsHands'
  BY <1>1, <1>2 DEF SettingsHands, InHand
<1>5. OneLoads'
  BY <1>1, <1>2 DEF SettingsInv, OneLoads, Settings!SettingsTypeOK
<1>6. PageShows'
  BY <1>1, <1>2 DEF SettingsInv, PageShows, Settings!Callers
<1>7. (~crossedPatch => OneChanges)'
  BY <1>1, <1>2 DEF SettingsInv, OneChanges, Changes, Settings!Callers
<1>8. (~staleCopy /\ ~crossedPatch => NoneIsLost)'
  <2>1. entry \in Copies => copy'[entry] = copy[entry]
    BY <1>1, CollectedKeeps
  <2>2. ASSUME NEW p \in Patches, p # q, patcher[p].step \in {"merge", "dump"}
        PROVE  copy'[patcher[p].copy] = copy[patcher[p].copy]
    BY <1>1, <1>2, <2>2, CollectedKeeps DEF SettingsHands, InHand, Settings!Callers
  <2>3. entry # Settings!NoCopy => entry \in Copies
    BY DEF Settings!SettingsTypeOK
  <2>. QED  BY <1>1, <1>2, <2>1, <2>2, <2>3 DEF SettingsInv, NoneIsLost, Settings!Callers
<1>. QED  BY <1>1, <1>3, <1>4, <1>5, <1>6, <1>7, <1>8 DEF SettingsInv

LEMMA ReplaceStep ==
    ASSUME SettingsInv, NEW q \in Patches, Settings!Replace(q) PROVE SettingsInv'
<1>. Settings!SettingsTypeOK /\ SettingsHands /\ q \in Settings!Callers
  BY DEF SettingsInv, Settings!Callers
<1>1. /\ patcher[q].step = "replace" /\ config' = patcher[q].text /\ entry' = Settings!NoCopy
      /\ saved' = saved \cup {q}
      /\ patcher' = [patcher EXCEPT ![q] = [Settings!Idle EXCEPT !.step = "answer"]]
      /\ Settings!Collected
      /\ UNCHANGED <<inflight, staleCopy, crossedPatch, phantom, page, get, lateAnswer>>
  BY DEF Settings!Replace, Settings!dashboardVars, Settings!At
<1>2. /\ patcher' \in [Settings!Callers -> Settings!ThreadStates]
      /\ patcher'[q].step = "answer" /\ patcher'[q].copy = Settings!NoCopy
      /\ \A u \in Settings!Callers : u # q => patcher'[u] = patcher[u]
  <2>1. [Settings!Idle EXCEPT !.step = "answer"] \in Settings!ThreadStates
    BY DEF Settings!Idle, Settings!ThreadStates
  <2>2. patcher'[q] = [Settings!Idle EXCEPT !.step = "answer"]
    BY <1>1, <2>1, PatcherMoves
  <2>3. patcher'[q].step = "answer" /\ patcher'[q].copy = Settings!NoCopy
    BY <2>2 DEF Settings!Idle
  <2>. QED  BY <1>1, <2>1, <2>3, PatcherMoves
<1>3. Settings!SettingsTypeOK'
  <2>1. config' \subseteq Patches
    BY <1>1 DEF Settings!SettingsTypeOK, Settings!ThreadStates
  <2>. QED  BY <1>1, <1>2, <2>1, CollectedKeeps DEF Settings!SettingsTypeOK
<1>4. SettingsHands'
  BY <1>1, <1>2 DEF SettingsHands, InHand
<1>5. OneLoads'
  BY <1>1, <1>2 DEF SettingsInv, OneLoads, Settings!SettingsTypeOK
<1>6. PageShows'
  BY <1>2 DEF PageShows
<1>7. (~crossedPatch => OneChanges)'
  BY <1>1, <1>2 DEF SettingsInv, OneChanges, Changes, Settings!Callers
<1>8. ~crossedPatch => \A p \in Patches : ~Changes(p)'
  BY <1>1, <1>2 DEF SettingsInv, OneChanges, Changes, Settings!Callers
<1>9. (~staleCopy /\ ~crossedPatch => NoneIsLost)'
  BY <1>1, <1>8 DEF SettingsInv, NoneIsLost, Changes
<1>10. (~staleCopy /\ ~crossedPatch /\ ~phantom => CopiesAgree)'
  BY <1>1, <1>8 DEF SettingsInv, CopiesAgree, Changes
<1>. QED  BY <1>3, <1>4, <1>5, <1>6, <1>7, <1>9, <1>10 DEF SettingsInv

\* The dashboard's steps, and the end of the 5 s.
LEMMA PageStep ==
    ASSUME SettingsInv, Settings!Get \/ Settings!Keep \/ Settings!PageExpires PROVE SettingsInv'
<1>1. /\ UNCHANGED <<config, saved, copy, entry, inflight, patcher, staleCopy, crossedPatch, phantom>>
      /\ lateAnswer' \in BOOLEAN
  BY DEF Settings!Get, Settings!Keep, Settings!PageExpires, SettingsInv, Settings!SettingsTypeOK
<1>2. /\ page' \in [live : BOOLEAN, val : SUBSET Patches]
      /\ get' \in [step : {"idle", "answer"}, val : SUBSET Patches]
  <2>1. Settings!Shown \in SUBSET Patches
    BY DEF SettingsInv, Settings!SettingsTypeOK, Settings!Shown
  <2>. Settings!SettingsTypeOK
    BY DEF SettingsInv
  <2>2. CASE Settings!Get
    BY <2>1, <2>2 DEF Settings!Get, Settings!SettingsTypeOK
  <2>3. CASE Settings!Keep
    BY <2>3 DEF Settings!Keep, Settings!NoGet, Settings!SettingsTypeOK
  <2>4. CASE Settings!PageExpires
    BY <2>4 DEF Settings!PageExpires, Settings!Absent, Settings!SettingsTypeOK
  <2>. QED  BY <2>2, <2>3, <2>4
<1>3. PageShows'
  BY <1>1 DEF Settings!Get, Settings!Keep, Settings!PageExpires, Settings!Absent, SettingsInv, PageShows
<1>4. Settings!SettingsTypeOK'
  BY <1>1, <1>2 DEF SettingsInv, Settings!SettingsTypeOK
<1>. QED
  BY <1>1, <1>3, <1>4 DEF SettingsInv, SettingsHands, OneLoads, OneChanges, Changes, NoneIsLost, CopiesAgree

LEMMA InvalidateStep ==
    ASSUME SettingsInv, NEW q \in Patches, Settings!Invalidate(q) PROVE SettingsInv'
<1>. Settings!SettingsTypeOK /\ SettingsHands /\ q \in Settings!Callers
  BY DEF SettingsInv, Settings!Callers
<1>1. /\ patcher[q].step = "answer" /\ patcher' = [patcher EXCEPT ![q] = Settings!Idle]
      /\ page' = Settings!Absent
      /\ UNCHANGED <<config, saved, copy, entry, inflight, staleCopy, crossedPatch, phantom, get, lateAnswer>>
  BY DEF Settings!Invalidate, Settings!DroppedPage, Settings!At
<1>2. /\ patcher' \in [Settings!Callers -> Settings!ThreadStates]
      /\ patcher'[q].step = "idle" /\ patcher'[q].copy = Settings!NoCopy
      /\ \A u \in Settings!Callers : u # q => patcher'[u] = patcher[u]
  BY <1>1, PatcherMoves DEF Settings!Idle, Settings!ThreadStates
<1>3. Settings!SettingsTypeOK' /\ PageShows'
  BY <1>1, <1>2 DEF Settings!SettingsTypeOK, Settings!Absent, PageShows
<1>4. SettingsHands'
  BY <1>1, <1>2 DEF SettingsHands, InHand
<1>5. OneLoads'
  BY <1>1, <1>2 DEF SettingsInv, OneLoads, Settings!SettingsTypeOK
<1>6. (~crossedPatch => OneChanges)'
  BY <1>1, <1>2 DEF SettingsInv, OneChanges, Changes, Settings!Callers
<1>7. (~staleCopy /\ ~crossedPatch => NoneIsLost)'
  BY <1>1, <1>2 DEF SettingsInv, NoneIsLost, Settings!Callers
<1>8. (~staleCopy /\ ~crossedPatch /\ ~phantom => CopiesAgree)'
  BY <1>1, <1>2 DEF SettingsInv, CopiesAgree, Settings!Callers
<1>. QED  BY <1>3, <1>4, <1>5, <1>6, <1>7, <1>8 DEF SettingsInv

LEMMA ExpireStep == ASSUME SettingsInv, Settings!Expire PROVE SettingsInv'
<1>. Settings!SettingsTypeOK /\ SettingsHands
  BY DEF SettingsInv
<1>1. /\ entry' = Settings!NoCopy /\ Settings!Collected
      /\ UNCHANGED <<config, saved, inflight, patcher, staleCopy, crossedPatch, phantom, page, get, lateAnswer>>
  BY DEF Settings!Expire, Settings!dashboardVars
<1>2. Settings!SettingsTypeOK'
  BY <1>1, CollectedKeeps DEF Settings!SettingsTypeOK
<1>3. ASSUME NEW p \in Patches, Changes(p) PROVE copy'[patcher[p].copy] = copy[patcher[p].copy]
  BY <1>1, <1>3, CollectedKeeps DEF SettingsHands, InHand, Changes, Settings!Callers
<1>4. (~staleCopy /\ ~crossedPatch => NoneIsLost)'
  BY <1>1, <1>3 DEF SettingsInv, NoneIsLost, Changes
<1>5. (~staleCopy /\ ~crossedPatch /\ ~phantom => CopiesAgree)'
  BY <1>1, <1>3 DEF SettingsInv, CopiesAgree, Changes
<1>. QED
  BY <1>1, <1>2, <1>4, <1>5 DEF SettingsInv, SettingsHands, OneLoads, PageShows, OneChanges, Changes

LEMMA SettingsInvStep == ASSUME SettingsInv, Settings!SettingsNext PROVE SettingsInv'
BY CachedStep, MergeStep, DumpStep, WriteFailsStep, ReplaceStep, PageStep, InvalidateStep, ExpireStep
   DEF Settings!SettingsNext

LEMMA SettingsInvSafe == ASSUME SettingsInv PROVE Settings!ChangesStay
BY DEF SettingsInv, OneLoads, PageShows, NoneIsLost, CopiesAgree, Settings!ChangesStay, Settings!Changing,
       Settings!At

LEMMA SettingsInvStays == ASSUME SettingsInv, UNCHANGED settingsVars PROVE SettingsInv'
BY DEF settingsVars, SettingsInv, Settings!SettingsTypeOK, Settings!ThreadStates, CopiesAgree,
       OneLoads, PageShows, NoneIsLost, SettingsHands, InHand, OneChanges, Changes

------------------------------------------------------------------------------
(* ClipCache: a file that one request writes alone is whole when it gets    *)
(* its name.                                                                *)

\* Who writes has a file open, and a version of the station's.
ClipHands ==
    \A r \in Requests :
      /\ clipRequest[r].step \in {"first", "second", "check"} =>
           clipRequest[r].inode \in Inodes /\ clipRequest[r].version \in Clip!Versions
      /\ clipRequest[r].step = "open" => clipRequest[r].version \in Clip!Versions
      /\ clipRequest[r].step \in {"idle", "open"} => clipRequest[r].inode = Clip!NoFile

\* A file that one request alone has had open since it was empty: its end is there only with its beginning.
Unshared(i) ==
    /\ content[i][2] # 0 => content[i][1] = content[i][2]
    /\ \A r \in Requests : clipRequest[r].inode = i =>
         /\ clipRequest[r].step = "first" => content[i] = Clip!Empty
         /\ clipRequest[r].step = "second" => content[i] = <<clipRequest[r].version, 0>>
         /\ \A s \in Requests : clipRequest[s].inode = i => s = r

ClipsInv ==
    /\ Clip!ClipCacheTypeOK /\ ClipHands
    /\ cached # Clip!NoFile => cached # clipTmp
    /\ \A i \in Inodes \ shared : Unshared(i)
    /\ cached # Clip!NoFile /\ cached \notin shared => content[cached][2] # 0

LEMMA ClipsInvInit == ASSUME Clip!ClipCacheInit PROVE ClipsInv
<1>1. Clip!ClipCacheTypeOK
  BY DEF Clip!ClipCacheInit, Clip!ClipCacheTypeOK, Clip!Contents, Clip!RequestStates, Clip!Versions, Clip!Empty,
         Clip!Idle, Clip!NoFile
<1>. QED
  BY <1>1, InodesAssumption
     DEF ClipsInv, ClipHands, Unshared, Clip!ClipCacheInit, Clip!Idle, Clip!Empty, Clip!NoFile

\* The request of a step moves, the others stay.
LEMMA ClipMoves ==
    ASSUME Clip!ClipCacheTypeOK, NEW r \in Requests, NEW to \in Clip!RequestStates,
           clipRequest' = [clipRequest EXCEPT ![r] = to]
    PROVE  /\ clipRequest' \in [Requests -> Clip!RequestStates]
           /\ clipRequest'[r] = to
           /\ \A s \in Requests : s # r => clipRequest'[s] = clipRequest[s]
BY DEF Clip!ClipCacheTypeOK

LEMMA ClipGoes ==
    ASSUME Clip!ClipCacheTypeOK, NEW r \in Requests, NEW s \in {"first", "second", "check"}, Clip!Goto(r, s)
    PROVE  /\ clipRequest' \in [Requests -> Clip!RequestStates]
           /\ clipRequest'[r].step = s /\ clipRequest'[r].version = clipRequest[r].version
           /\ clipRequest'[r].inode = clipRequest[r].inode
           /\ \A q \in Requests : q # r => clipRequest'[q] = clipRequest[q]
BY DEF Clip!ClipCacheTypeOK, Clip!Goto, Clip!RequestStates

LEMMA IdleClip == Clip!Idle \in Clip!RequestStates /\ Clip!Empty \in Clip!Contents
BY DEF Clip!Idle, Clip!RequestStates, Clip!Empty, Clip!Contents, Clip!Versions, Clip!NoFile

\* A step that ends with Forget, opens no file and leaves the requests or ends some.
LEMMA ForgetStep ==
    ASSUME ClipsInv, Clip!Forget, upstream' = upstream,
           clipRequest' \in [Requests -> Clip!RequestStates],
           \A r \in Requests : clipRequest'[r] \in {clipRequest[r], Clip!Idle},
           cached' \in {cached, clipTmp, Clip!NoFile}, clipTmp' \in {clipTmp, Clip!NoFile},
           cached' = clipTmp => clipTmp' = Clip!NoFile,
           cached' # Clip!NoFile /\ cached' # cached => content[cached'][2] # 0
    PROVE  ClipsInv'
<1>. DEFINE kept == {cached', clipTmp'} \cup {clipRequest'[r].inode : r \in Requests}
<1>. Clip!ClipCacheTypeOK /\ ClipHands
  BY DEF ClipsInv
<1>1. /\ content' = [i \in Inodes |-> IF i \in kept THEN content[i] ELSE Clip!Empty]
      /\ shared' = shared \cap kept
  BY DEF Clip!Forget
<1>2. Clip!ClipCacheTypeOK'
  BY <1>1, IdleClip DEF Clip!ClipCacheTypeOK
<1>3. Clip!Idle.step = "idle" /\ Clip!Idle.inode = Clip!NoFile
  BY DEF Clip!Idle
<1>4. ClipHands'
  BY <1>3 DEF ClipHands
<1>5. cached' # Clip!NoFile => cached' # clipTmp'
  BY DEF ClipsInv
<1>6. ASSUME NEW i \in Inodes, i \notin shared', i \in kept PROVE Unshared(i)' /\ content'[i] = content[i]
  <2>1. content'[i] = content[i] /\ Unshared(i)
    BY <1>1, <1>6 DEF ClipsInv
  <2>2. i # Clip!NoFile
    BY InodesAssumption DEF Clip!NoFile
  <2>3. \A r \in Requests : clipRequest'[r].inode = i => clipRequest'[r] = clipRequest[r]
    BY <1>3, <2>2
  <2>. QED  BY <2>1, <2>3 DEF Unshared
<1>7. ASSUME NEW i \in Inodes, i \notin kept PROVE Unshared(i)'
  <2>1. content'[i] = Clip!Empty /\ \A r \in Requests : clipRequest'[r].inode # i
    BY <1>1, <1>7
  <2>. QED  BY <2>1 DEF Unshared, Clip!Empty
<1>8. cached' # Clip!NoFile /\ cached' \notin shared' => content'[cached'][2] # 0
  <2>. SUFFICES ASSUME cached' # Clip!NoFile, cached' \notin shared' PROVE content'[cached'][2] # 0
    OBVIOUS
  <2>1. cached' \in Inodes /\ cached' \in kept /\ cached' \notin shared
    BY <1>1, <1>2 DEF Clip!ClipCacheTypeOK
  <2>2. content'[cached'] = content[cached']
    BY <1>1, <2>1
  <2>. QED  BY <2>1, <2>2 DEF ClipsInv
<1>. HIDE DEF kept
<1>9. \A i \in Inodes \ shared' : Unshared(i)'
  BY <1>6, <1>7
<1>. QED  BY <1>2, <1>4, <1>5, <1>8, <1>9 DEF ClipsInv

LEMMA OpenStep == ASSUME ClipsInv, NEW r \in Requests, Clip!Open(r) PROVE ClipsInv'
<1>. Clip!ClipCacheTypeOK /\ ClipHands
  BY DEF ClipsInv
<1>1. PICK i \in IF clipTmp = Clip!NoFile THEN Clip!Unused ELSE {clipTmp} :
         /\ clipTmp' = i /\ content' = [content EXCEPT ![i] = Clip!Empty]
         /\ clipRequest' = [clipRequest EXCEPT ![r].step = "first", ![r].inode = i]
         /\ shared' = IF \E q \in Requests : clipRequest[q].inode = i THEN shared \cup {i}
                      ELSE shared \ {i}
  BY DEF Clip!Open
<1>2. /\ clipRequest[r].step = "open" /\ clipRequest[r].version \in Clip!Versions
      /\ UNCHANGED <<upstream, cached>> /\ i \in Inodes
  BY <1>1 DEF Clip!Open, Clip!At, ClipHands, Clip!Unused, Clip!ClipCacheTypeOK
<1>3. /\ clipRequest' \in [Requests -> Clip!RequestStates]
      /\ clipRequest'[r].step = "first" /\ clipRequest'[r].inode = i
      /\ clipRequest'[r].version = clipRequest[r].version
      /\ \A q \in Requests : q # r => clipRequest'[q] = clipRequest[q]
  BY <1>1, <1>2 DEF Clip!ClipCacheTypeOK, Clip!RequestStates
<1>4. /\ content' \in [Inodes -> Clip!Contents] /\ content'[i] = Clip!Empty
      /\ \A j \in Inodes : j # i => content'[j] = content[j]
  BY <1>1, <1>2, IdleClip DEF Clip!ClipCacheTypeOK
<1>5. Clip!ClipCacheTypeOK'
  BY <1>1, <1>2, <1>3, <1>4 DEF Clip!ClipCacheTypeOK
<1>6. ClipHands'
  BY <1>2, <1>3 DEF ClipHands
<1>7. i # Clip!NoFile
  BY <1>2, InodesAssumption DEF Clip!NoFile
<1>8. cached # Clip!NoFile => cached # i
  BY <1>1, <1>7 DEF ClipsInv, Clip!Unused
<1>9. ASSUME NEW j \in Inodes, j \notin shared' PROVE Unshared(j)'
  <2>1. CASE j = i
    <3>1. \A q \in Requests : clipRequest[q].inode # i
      BY <1>1, <1>9, <2>1 DEF Clip!Unused
    <3>. QED  BY <1>3, <1>4, <2>1, <3>1 DEF Unshared, Clip!Empty
  <2>2. CASE j # i
    <3>1. j \in Inodes \ shared
      BY <1>1, <1>9, <2>2
    <3>2. Unshared(j)
      BY <3>1 DEF ClipsInv
    <3>. QED  BY <1>3, <1>4, <2>2, <3>2 DEF Unshared
  <2>. QED  BY <2>1, <2>2
<1>10. cached' # Clip!NoFile /\ cached' \notin shared' => content'[cached'][2] # 0
  BY <1>1, <1>2, <1>4, <1>8 DEF ClipsInv, Clip!ClipCacheTypeOK
<1>. QED  BY <1>1, <1>2, <1>5, <1>6, <1>8, <1>9, <1>10 DEF ClipsInv

\* A write, or the end of what arrives: one file changes, and who has it open goes on.
LEMMA WriteStep ==
    ASSUME ClipsInv, NEW r \in Requests, Clip!WriteFirst(r) \/ Clip!WriteSecond(r) \/ Clip!CutShort(r)
    PROVE  ClipsInv'
<1>. DEFINE i == clipRequest[r].inode
            v == clipRequest[r].version
<1>. Clip!ClipCacheTypeOK /\ ClipHands
  BY DEF ClipsInv
<1>1. /\ clipRequest[r].step \in {"first", "second"} /\ i \in Inodes /\ v \in Clip!Versions
      /\ UNCHANGED <<upstream, cached, clipTmp, shared>>
  BY DEF Clip!WriteFirst, Clip!WriteSecond, Clip!CutShort, Clip!At, ClipHands
<1>2. PICK s \in {"second", "check"} :
        /\ Clip!Goto(r, s)
        /\ s = "second" => clipRequest[r].step = "first" /\ content' = [content EXCEPT ![i] = [content[i] EXCEPT ![1] = v]]
        /\ s = "check" => \/ content' = content
                          \/ /\ clipRequest[r].step = "second"
                             /\ content' = [content EXCEPT ![i] =
                                              [content[i] EXCEPT ![2] = IF content[i][2] = 1 THEN 1 ELSE v]]
  BY DEF Clip!WriteFirst, Clip!WriteSecond, Clip!CutShort, Clip!At
<1>3. /\ clipRequest' \in [Requests -> Clip!RequestStates]
      /\ clipRequest'[r].step = s /\ clipRequest'[r].version = v /\ clipRequest'[r].inode = i
      /\ \A q \in Requests : q # r => clipRequest'[q] = clipRequest[q]
  BY <1>2, ClipGoes
<1>4. content[i] = <<content[i][1], content[i][2]>> /\ content[i] \in Clip!Contents
  BY <1>1 DEF Clip!ClipCacheTypeOK, Clip!Contents
<1>5. /\ content' \in [Inodes -> Clip!Contents]
      /\ \A j \in Inodes : j # i => content'[j] = content[j]
      /\ s = "second" => content'[i] = <<v, content[i][2]>>
      /\ s = "check" => \/ content'[i] = content[i]
                        \/ /\ clipRequest[r].step = "second"
                           /\ content'[i] = <<content[i][1], IF content[i][2] = 1 THEN 1 ELSE v>>
  <2>1. PICK x \in Clip!Contents :
          /\ content' = [content EXCEPT ![i] = x]
          /\ s = "second" => x = <<v, content[i][2]>>
          /\ s = "check" => \/ x = content[i]
                            \/ /\ clipRequest[r].step = "second"
                               /\ x = <<content[i][1], IF content[i][2] = 1 THEN 1 ELSE v>>
    <3>1. CASE s = "check" /\ content' = content
      <4>1. content' = [content EXCEPT ![i] = content[i]]
        BY <3>1 DEF Clip!ClipCacheTypeOK
      <4>. QED  BY <1>4, <3>1, <4>1
    <3>2. CASE s = "second"
      <4>1. [content[i] EXCEPT ![1] = v] = <<v, content[i][2]>>
        BY <1>4
      <4>2. <<v, content[i][2]>> \in Clip!Contents
        BY <1>1, <1>4 DEF Clip!Contents
      <4>. QED  BY <1>2, <3>2, <4>1, <4>2
    <3>3. CASE s = "check" /\ content' # content
      <4>1. [content[i] EXCEPT ![2] = IF content[i][2] = 1 THEN 1 ELSE v] =
              <<content[i][1], IF content[i][2] = 1 THEN 1 ELSE v>>
        BY <1>4
      <4>2. <<content[i][1], IF content[i][2] = 1 THEN 1 ELSE v>> \in Clip!Contents
        BY <1>1, <1>4 DEF Clip!Contents, Clip!Versions
      <4>. QED  BY <1>2, <3>3, <4>1, <4>2
    <3>. QED  BY <3>1, <3>2, <3>3
  <2>. QED  BY <1>1, <2>1 DEF Clip!ClipCacheTypeOK
<1>6. Clip!ClipCacheTypeOK'
  BY <1>1, <1>3, <1>5 DEF Clip!ClipCacheTypeOK
<1>7. ClipHands'
  BY <1>1, <1>3 DEF ClipHands
<1>8. i \notin shared => content[i][2] = 0 /\ (clipRequest[r].step = "second" => content[i][1] = v)
  BY <1>1 DEF ClipsInv, Unshared, Clip!Empty
<1>9. ASSUME NEW j \in Inodes, j \notin shared PROVE Unshared(j)'
  <2>. Unshared(j)
    BY <1>9 DEF ClipsInv
  <2>1. CASE j # i
    BY <1>3, <1>5, <2>1 DEF Unshared
  <2>2. CASE j = i
    <3>1. \A q \in Requests : clipRequest'[q].inode = i => q = r
      BY <1>3, <2>2 DEF Unshared
    <3>2. content'[i][2] # 0 => content'[i][1] = content'[i][2]
      BY <1>5, <1>8, <1>9, <2>2 DEF Unshared
    <3>3. s = "second" => content'[i] = <<v, 0>>
      BY <1>5, <1>8, <1>9, <2>2
    <3>. QED  BY <1>3, <2>2, <3>1, <3>2, <3>3 DEF Unshared
  <2>. QED  BY <2>1, <2>2
<1>10. cached' # Clip!NoFile /\ cached' \notin shared' => content'[cached'][2] # 0
  BY <1>1, <1>5, <1>8 DEF ClipsInv, Clip!ClipCacheTypeOK
<1>. QED  BY <1>1, <1>6, <1>7, <1>9, <1>10 DEF ClipsInv

LEMMA ClipsInvStep == ASSUME ClipsInv, Clip!ClipCacheNext PROVE ClipsInv'
<1>. Clip!ClipCacheTypeOK /\ ClipHands
  BY DEF ClipsInv
<1>1. ASSUME upstream # 0, Clip!StationChanges PROVE ClipsInv'
  <2>1. upstream' \in {0} \cup Clip!Versions
    BY <1>1 DEF Clip!StationChanges, Clip!ClipCacheTypeOK, Clip!Versions
  <2>2. UNCHANGED <<content, cached, clipTmp, clipRequest, shared>>
    BY <1>1 DEF Clip!StationChanges
  <2>3. Clip!ClipCacheTypeOK' /\ ClipHands'
    BY <2>1, <2>2 DEF Clip!ClipCacheTypeOK, ClipHands
  <2>4. \A i \in Inodes \ shared' : Unshared(i)'
    BY <2>2 DEF ClipsInv, Unshared
  <2>. QED  BY <2>2, <2>3, <2>4 DEF ClipsInv
<1>2. ASSUME NEW r \in Requests, Clip!Validate(r) PROVE ClipsInv'
  BY <1>2, ForgetStep DEF Clip!Validate, Clip!ClipCacheTypeOK
<1>3. ASSUME NEW r \in Requests, Clip!Get(r) PROVE ClipsInv'
  <2>. DEFINE to == [step |-> "open", version |-> upstream, inode |-> Clip!NoFile]
  <2>1. to \in Clip!RequestStates /\ to.step = "open" /\ to.inode = Clip!NoFile /\ to.version \in Clip!Versions
    BY <1>3 DEF Clip!Get, Clip!ClipCacheTypeOK, Clip!RequestStates
  <2>. HIDE DEF to
  <2>2. /\ clipRequest' \in [Requests -> Clip!RequestStates]
        /\ clipRequest'[r] = to
        /\ \A s \in Requests : s # r => clipRequest'[s] = clipRequest[s]
    BY <1>3, <2>1, ClipMoves DEF Clip!Get, to
  <2>3. UNCHANGED <<upstream, content, cached, clipTmp, shared>>
    BY <1>3 DEF Clip!Get
  <2>4. Clip!ClipCacheTypeOK' /\ ClipHands'
    BY <2>1, <2>2, <2>3 DEF Clip!ClipCacheTypeOK, ClipHands
  <2>5. ASSUME NEW i \in Inodes, i \notin shared PROVE Unshared(i)'
    <3>1. Unshared(i) /\ i # Clip!NoFile
      BY <2>5, InodesAssumption DEF ClipsInv, Clip!NoFile
    <3>. QED  BY <2>1, <2>2, <2>3, <3>1 DEF Unshared
  <2>. QED  BY <2>3, <2>4, <2>5 DEF ClipsInv
<1>4. ASSUME NEW r \in Requests, Clip!Broken(r) PROVE ClipsInv'
  <2>1. /\ clipRequest' \in [Requests -> Clip!RequestStates]
        /\ \A q \in Requests : clipRequest'[q] \in {clipRequest[q], Clip!Idle}
    BY <1>4, IdleClip, ClipMoves DEF Clip!Broken, Clip!Ends
  <2>. QED  BY <1>4, <2>1, ForgetStep DEF Clip!Broken, ClipsInv
<1>5. ASSUME NEW r \in Requests, Clip!Promote(r) PROVE ClipsInv'
  <2>1. /\ clipRequest' \in [Requests -> Clip!RequestStates]
        /\ \A q \in Requests : clipRequest'[q] \in {clipRequest[q], Clip!Idle}
    BY <1>5, IdleClip, ClipMoves DEF Clip!Promote, Clip!Ends
  <2>2. clipRequest[r].version # 0
    BY <1>5 DEF Clip!Promote, Clip!At, ClipHands, Clip!Versions
  <2>. QED  BY <1>5, <2>1, <2>2, ForgetStep DEF Clip!Promote, Clip!Complete, Clip!Size, ClipsInv
<1>6. ASSUME Clip!Cleanup PROVE ClipsInv'
  BY <1>6, ForgetStep DEF Clip!Cleanup, Clip!ClipCacheTypeOK, ClipsInv
<1>7. ASSUME Clip!DashboardStops PROVE ClipsInv'
  <2>1. /\ clipRequest' \in [Requests -> Clip!RequestStates]
        /\ \A q \in Requests : clipRequest'[q] \in {clipRequest[q], Clip!Idle}
    BY <1>7, IdleClip DEF Clip!DashboardStops
  <2>. QED  BY <1>7, <2>1, ForgetStep DEF Clip!DashboardStops, ClipsInv
<1>. QED
  BY <1>1, <1>2, <1>3, <1>4, <1>5, <1>6, <1>7, OpenStep, WriteStep DEF Clip!ClipCacheNext, Clip!Streaming

LEMMA ClipsInvSafe == ASSUME ClipsInv PROVE Clip!CachedIsWhole
BY DEF ClipsInv, Unshared, Clip!CachedIsWhole, Clip!ClipCacheTypeOK

LEMMA ClipsInvStays == ASSUME ClipsInv, UNCHANGED clipsVars PROVE ClipsInv'
BY DEF clipsVars, ClipsInv, Clip!ClipCacheTypeOK, Unshared, ClipHands

------------------------------------------------------------------------------
(* SkyDome: one request renders; the timelapse of the night is built at     *)
(* dawn.                                                                    *)

\* One request renders or writes; while the timelapse is built, the sun that has risen is up.
DomeInv ==
    /\ Dome!SkyDomeTypeOK
    /\ \A r, s \in Requests :
         domeRequest[r] \in {"render", "write"} /\ domeRequest[s] \in {"render", "write"} => r = s
    /\ Dome!DomeIsWhole
    /\ Dome!At("build") => sun = "up" /\ sched.sun = "up" /\ lastSun = "down" /\ tried
    /\ Dome!DawnIsBuilt

LEMMA DomeInvInit == ASSUME Dome!SkyDomeInit PROVE DomeInv
<1>1. 0 \in 0..MuteThreshold /\ 0 \in 0..MaxFrames
  BY DomeAssumption
<1>2. Dome!SkyDomeTypeOK
  <2>1. sched \in [step : {"pass", "render", "replace", "dawn", "build"}, sun : Dome!Suns]
    BY DEF Dome!SkyDomeInit, Dome!Suns
  <2>2. domeRequest \in [Requests -> {"idle", "wait", "render", "write"}]
    BY DEF Dome!SkyDomeInit
  <2>. QED
    BY <1>1, <2>1, <2>2 DEF Dome!SkyDomeInit, Dome!SkyDomeTypeOK, Dome!Suns, Dome!DomeFiles, Dome!StartsDark
<1>3. \A r \in Requests : domeRequest[r] = "idle"
  BY DEF Dome!SkyDomeInit
<1>. QED
  BY <1>2, <1>3 DEF Dome!SkyDomeInit, DomeInv, Dome!At, Dome!StartsDark, Dome!DomeIsWhole, Dome!DawnIsBuilt

\* The sun, the clock and the scheduler leave the requests alone.
LEMMA SkyStep ==
    ASSUME DomeInv, Dome!SunRises \/ Dome!SunSets \/ Dome!TimePasses PROVE DomeInv'
<1>1. CASE Dome!SunRises
  BY <1>1 DEF Dome!SunRises, DomeInv, Dome!SkyDomeTypeOK, Dome!Suns, Dome!At, Dome!DomeIsWhole, Dome!DawnIsBuilt
<1>2. CASE Dome!SunSets
  <2>1. frames' \in 0..MaxFrames
    BY <1>2, DomeAssumption DEF Dome!SunSets
  <2>. QED
    BY <1>2, <2>1 DEF Dome!SunSets, DomeInv, Dome!SkyDomeTypeOK, Dome!Suns, Dome!DomeFiles, Dome!At, Dome!DomeIsWhole,
                      Dome!DawnIsBuilt
<1>3. CASE Dome!TimePasses
  BY <1>3 DEF Dome!TimePasses, DomeInv, Dome!SkyDomeTypeOK, Dome!At, Dome!DomeIsWhole, Dome!DawnIsBuilt
<1>. QED  BY <1>1, <1>2, <1>3

LEMMA DomeAsks ==
    ASSUME DomeInv, NEW r \in Requests, Dome!Asks(r) PROVE DomeInv'
<1>. Dome!SkyDomeTypeOK
  BY DEF DomeInv
<1>1. PICK s \in {"idle", "wait", "render", "write"} : domeRequest' = [domeRequest EXCEPT ![r] = s]
  BY DEF Dome!Asks, Dome!Ask, Dome!Enter, Dome!RenderNothing, Dome!StartWrite, Dome!EndWrite, Dome!Becomes
<1>2. /\ domeRequest' \in [Requests -> {"idle", "wait", "render", "write"}]
      /\ domeRequest'[r] = s
      /\ \A q \in Requests : q # r => domeRequest'[q] = domeRequest[q]
  BY <1>1 DEF Dome!SkyDomeTypeOK
<1>3. /\ UNCHANGED <<sun, sched, lastSun, failures, muted, frames, mp4, tried>>
      /\ png' \in {"torn", "whole", png} /\ fresh' \in BOOLEAN /\ renamed' \in BOOLEAN /\ cut' \in BOOLEAN
  BY DEF Dome!Asks, Dome!Ask, Dome!Enter, Dome!RenderNothing, Dome!StartWrite, Dome!EndWrite, Dome!SkyDomeTypeOK
<1>4. Dome!SkyDomeTypeOK'
  BY <1>2, <1>3 DEF Dome!SkyDomeTypeOK, Dome!DomeFiles
<1>5. s \in {"render", "write"} /\ domeRequest[r] \notin {"render", "write"} =>
        \A q \in Requests : domeRequest[q] \notin {"render", "write"}
  <2>1. CASE Dome!Enter(r)
    BY <2>1 DEF Dome!Enter, Dome!Locked
  <2>2. CASE ~Dome!Enter(r)
    BY <1>2, <2>2 DEF Dome!Asks, Dome!Ask, Dome!RenderNothing, Dome!StartWrite, Dome!EndWrite, Dome!Becomes
  <2>. QED  BY <2>1, <2>2
<1>6. \A q, u \in Requests :
        domeRequest'[q] \in {"render", "write"} /\ domeRequest'[u] \in {"render", "write"} => q = u
  BY <1>2, <1>5 DEF DomeInv
<1>7. Dome!DomeIsWhole'
  <2>1. CASE Dome!Ask(r) \/ Dome!Enter(r) \/ Dome!RenderNothing(r)
    <3>1. UNCHANGED <<png, renamed, cut>> /\ domeRequest[r] # "write"
      BY <2>1 DEF Dome!Ask, Dome!Enter, Dome!RenderNothing
    <3>. QED  BY <1>2, <3>1 DEF DomeInv, Dome!DomeIsWhole
  <2>2. CASE Dome!StartWrite(r)
    <3>1. domeRequest'[r] = "write" /\ ~renamed'
      BY <1>2, <2>2 DEF Dome!StartWrite, Dome!Becomes, Dome!SkyDomeTypeOK
    <3>. QED  BY <3>1 DEF Dome!DomeIsWhole
  <2>3. CASE Dome!EndWrite(r)
    BY <2>3 DEF Dome!EndWrite, DomeInv, Dome!DomeIsWhole
  <2>. QED  BY <2>1, <2>2, <2>3 DEF Dome!Asks
<1>. QED  BY <1>3, <1>4, <1>6, <1>7 DEF DomeInv, Dome!At, Dome!DawnIsBuilt

LEMMA DomeSchedules ==
    ASSUME DomeInv, Dome!Scheduler PROVE DomeInv'
<1>. Dome!SkyDomeTypeOK
  BY DEF DomeInv
<1>1. UNCHANGED <<sun, domeRequest>>
  BY DEF Dome!Scheduler, Dome!Pass, Dome!RenderFails, Dome!StoreTmp, Dome!Replace, Dome!LookAtSun, Dome!Build
<1>2. CASE Dome!Pass
  <2>1. /\ sched' \in [step : {"pass", "render", "replace", "dawn", "build"}, sun : Dome!Suns]
        /\ sched'.step \in {"dawn", "render"}
    BY <1>2 DEF Dome!Pass, Dome!SkyDomeTypeOK
  <2>. QED
    BY <1>1, <1>2, <2>1 DEF Dome!Pass, DomeInv, Dome!SkyDomeTypeOK, Dome!At, Dome!DomeIsWhole, Dome!DawnIsBuilt
<1>3. ASSUME NEW s \in {"pass", "replace", "dawn"}, Dome!Goto(s)
      PROVE  /\ sched' \in [step : {"pass", "render", "replace", "dawn", "build"}, sun : Dome!Suns]
             /\ sched'.step = s
  BY <1>3 DEF Dome!Goto, Dome!SkyDomeTypeOK
<1>4. CASE Dome!RenderFails
  <2>1. failures' \in 0..MuteThreshold /\ muted' \in BOOLEAN
    BY <1>4, DomeAssumption DEF Dome!RenderFails, Dome!SkyDomeTypeOK
  <2>. QED
    BY <1>1, <1>3, <1>4, <2>1 DEF Dome!RenderFails, DomeInv, Dome!SkyDomeTypeOK, Dome!At, Dome!DomeIsWhole, Dome!DawnIsBuilt
<1>5. CASE Dome!StoreTmp
  BY <1>1, <1>3, <1>5 DEF Dome!StoreTmp, Dome!Beside, DomeInv, Dome!SkyDomeTypeOK, Dome!At, Dome!DomeIsWhole, Dome!DawnIsBuilt
<1>6. CASE Dome!Replace
  <2>1. failures' \in 0..MuteThreshold /\ renamed' \in BOOLEAN
    BY <1>6, DomeAssumption DEF Dome!Replace, Dome!SkyDomeTypeOK
  <2>2. frames' \in 0..MaxFrames
    BY <1>6, DomeAssumption DEF Dome!Replace, Dome!SkyDomeTypeOK
  <2>3. /\ sched' \in [step : {"pass", "render", "replace", "dawn", "build"}, sun : Dome!Suns]
        /\ sched'.step = "dawn"
    BY <1>3, <1>6 DEF Dome!Replace
  <2>4. UNCHANGED <<lastSun, muted, mp4, tried>> /\ png' = "whole" /\ fresh' = TRUE /\ cut' = FALSE
    BY <1>6 DEF Dome!Replace
  <2>. QED
    BY <1>1, <2>1, <2>2, <2>3, <2>4 DEF DomeInv, Dome!SkyDomeTypeOK, Dome!DomeFiles, Dome!At, Dome!DomeIsWhole, Dome!DawnIsBuilt
<1>7. CASE Dome!LookAtSun
  <2>1. CASE lastSun = "down" /\ sun = "up"
    BY <1>1, <1>7, <2>1
       DEF Dome!LookAtSun, DomeInv, Dome!SkyDomeTypeOK, Dome!Suns, Dome!At, Dome!DomeIsWhole, Dome!DawnIsBuilt
  <2>2. CASE ~(lastSun = "down" /\ sun = "up")
    BY <1>1, <1>3, <1>7, <2>2
       DEF Dome!LookAtSun, DomeInv, Dome!SkyDomeTypeOK, Dome!Suns, Dome!At, Dome!DomeIsWhole, Dome!DawnIsBuilt
  <2>. QED  BY <2>1, <2>2
<1>8. CASE Dome!Build
  <2>1. sched'.step = "pass" /\ sched' \in [step : {"pass", "render", "replace", "dawn", "build"}, sun : Dome!Suns]
    BY <1>3, <1>8 DEF Dome!Build
  <2>. QED
    BY <1>1, <1>8, <2>1
       DEF Dome!Build, Dome!Stitched, DomeInv, Dome!SkyDomeTypeOK, Dome!Suns, Dome!DomeFiles, Dome!At, Dome!DomeIsWhole,
           Dome!DawnIsBuilt
<1>. QED  BY <1>2, <1>4, <1>5, <1>6, <1>7, <1>8 DEF Dome!Scheduler

LEMMA DomeInvStep == ASSUME DomeInv, Dome!SkyDomeNext PROVE DomeInv'
<1>1. CASE Dome!DashboardRestarts
  <2>1. /\ domeRequest' = [r \in Requests |-> "idle"] /\ renamed' = FALSE /\ cut' \in BOOLEAN
        /\ sched' = [step |-> "pass", sun |-> sun] /\ lastSun' = "down" /\ failures' = 0 /\ muted' = FALSE
        /\ UNCHANGED <<sun, png, fresh, frames, tried>>
    BY <1>1 DEF Dome!DashboardRestarts, Dome!StartsDark, DomeInv, Dome!SkyDomeTypeOK
  <2>2. mp4' \in Dome!DomeFiles
    BY <1>1 DEF Dome!DashboardRestarts, DomeInv, Dome!SkyDomeTypeOK, Dome!DomeFiles
  <2>3. failures' \in 0..MuteThreshold
    BY <2>1, DomeAssumption
  <2>4. Dome!SkyDomeTypeOK'
    BY <2>1, <2>2, <2>3 DEF DomeInv, Dome!SkyDomeTypeOK, Dome!Suns
  <2>5. Dome!DomeIsWhole'
    BY <1>1 DEF Dome!DashboardRestarts, DomeInv, Dome!DomeIsWhole
  <2>. QED  BY <2>1, <2>4, <2>5 DEF DomeInv, Dome!At, Dome!DawnIsBuilt
<1>. QED  BY <1>1, SkyStep, DomeAsks, DomeSchedules DEF Dome!SkyDomeNext

LEMMA DomeInvStays == ASSUME DomeInv, UNCHANGED domeVars PROVE DomeInv'
BY DEF domeVars, DomeInv, Dome!SkyDomeTypeOK, Dome!DomeIsWhole, Dome!At, Dome!DawnIsBuilt

------------------------------------------------------------------------------
(* FocusStreams: the pool has every ffmpeg that runs, and counts who        *)
(* watches.                                                                 *)

FocusWatchers(o) == {v \in Viewers : focusViewer[v].step = "watch" /\ focusViewer[v].at = o}
FocusHands == {v \in Viewers : focusViewer[v].step = "hand"}
\* Who watches is counted, and has a stream.
FocusCounted ==
    /\ \A o \in Objects : clients[o] = Cardinality(FocusWatchers(o))
    /\ \A v \in Viewers : focusViewer[v].step # "idle" => focusViewer[v].at \in Objects
\* What runs is what has an ffmpeg, all of it in the pool, each once, with room for the stream
\* that is in a hand.
FocusOwned ==
    /\ focusRunning = focusFfmpeg /\ focusFfmpeg \subseteq Focus!Pooled /\ reader \cap Focus!Pooled = {}
    /\ \A i, j \in Ips : pool[i] = pool[j] /\ pool[i] # Focus!NoObject => i = j
    /\ \A u, v \in FocusHands : u = v
    /\ \A v \in FocusHands : focusViewer[v].at \in Focus!Pooled
    /\ Cardinality(focusFfmpeg) <= MaxStreams
    /\ \A v \in FocusHands : focusViewer[v].at \notin focusFfmpeg => Cardinality(focusFfmpeg) < MaxStreams
FocusInv == Focus!FocusTypeOK /\ FocusCounted /\ (~raced => FocusOwned)

LEMMA FocusCardinality == ASSUME NEW S PROVE Focus!Cardinality(S) = Cardinality(S)
BY DEF Focus!Cardinality, Cardinality

LEMMA FocusInvSafe == ASSUME FocusInv PROVE Focus!PoolOwnsFfmpeg
<1>1. SUFFICES ASSUME ~raced
               PROVE  /\ focusFfmpeg \subseteq Focus!Pooled /\ Cardinality(focusFfmpeg) <= MaxStreams
                      /\ \A v \in Viewers : focusViewer[v].step = "watch" =>
                            focusViewer[v].at \in Focus!Pooled \/ focusViewer[v].at \notin focusRunning
  BY FocusCardinality DEF Focus!PoolOwnsFfmpeg
<1>2. FocusOwned
  BY <1>1 DEF FocusInv
<1>. QED  BY <1>2 DEF FocusOwned

LEMMA FocusViewerMoves ==
    ASSUME Focus!FocusTypeOK, NEW v \in Viewers, NEW new \in Focus!ViewerStates,
           focusViewer' = [focusViewer EXCEPT ![v] = new]
    PROVE  /\ focusViewer' \in [Viewers -> Focus!ViewerStates]
           /\ focusViewer'[v] = new
           /\ \A u \in Viewers : u # v => focusViewer'[u] = focusViewer[u]
BY DEF Focus!FocusTypeOK

\* The counts are numbers.
LEMMA FocusCounts ==
    ASSUME FocusCounted, NEW o \in Objects
    PROVE  /\ IsFiniteSet(FocusWatchers(o)) /\ clients[o] = Cardinality(FocusWatchers(o))
           /\ Cardinality(FocusWatchers(o)) \in Nat
<1>1. FocusWatchers(o) \in SUBSET Viewers
  BY DEF FocusWatchers
<1>2. IsFiniteSet(FocusWatchers(o)) /\ Cardinality(FocusWatchers(o)) \in Nat
  BY <1>1, FocusAssumption, FS_Subset, FS_CardinalityType
<1>. QED  BY <1>2 DEF FocusCounted

LEMMA FocusClientsTyped ==
    ASSUME FocusCounted', NEW o \in Objects PROVE clients'[o] \in 0..Cardinality(Viewers)
<1>1. FocusWatchers(o)' \in SUBSET Viewers
  BY DEF FocusWatchers
<1>2. /\ Cardinality(FocusWatchers(o)') <= Cardinality(Viewers)
      /\ Cardinality(FocusWatchers(o)') \in Nat /\ Cardinality(Viewers) \in Nat
  BY <1>1, FocusAssumption, FS_Subset, FS_CardinalityType
<1>. QED  BY <1>2 DEF FocusCounted

\* Who does not watch before or after is not counted.
LEMMA FocusSameWatchers ==
    ASSUME FocusCounted, UNCHANGED clients,
           \A u \in Viewers : \/ focusViewer'[u] = focusViewer[u]
                              \/ /\ focusViewer[u].step # "watch" /\ focusViewer'[u].step # "watch"
                                 /\ focusViewer'[u].step # "idle" => focusViewer'[u].at \in Objects
    PROVE  FocusCounted'
<1>1. ASSUME NEW o \in Objects PROVE clients'[o] = Cardinality(FocusWatchers(o)')
  <2>1. FocusWatchers(o)' = FocusWatchers(o)
    BY DEF FocusWatchers
  <2>. QED  BY <2>1 DEF FocusCounted
<1>2. \A u \in Viewers : focusViewer'[u].step # "idle" => focusViewer'[u].at \in Objects
  BY DEF FocusCounted
<1>. QED  BY <1>1, <1>2 DEF FocusCounted

\* What the ffmpegs are counts.
LEMMA FocusFfmpegs ==
    ASSUME Focus!FocusTypeOK
    PROVE  IsFiniteSet(focusFfmpeg) /\ Cardinality(focusFfmpeg) \in Nat
BY FocusAssumption, FS_Subset, FS_CardinalityType DEF Focus!FocusTypeOK

\* What the pool makes of a viewer that asks.
LEMMA FocusTakes ==
    ASSUME FocusInv, NEW v \in Viewers, NEW o \in Objects, NEW hollow, Focus!Takes(v, o, hollow),
           focusViewer[v].step = "idle", UNCHANGED clients
    PROVE  /\ focusViewer' \in [Viewers -> Focus!ViewerStates] /\ FocusCounted'
           /\ focusViewer'[v] = [step |-> "hand", at |-> o]
           /\ \A u \in Viewers : u # v => focusViewer'[u] = focusViewer[u]
           /\ ~raced' => ~raced /\ ~hollow /\ FocusHands = {} /\ FocusHands' = {v}
<1>. Focus!FocusTypeOK
  BY DEF FocusInv
<1>. DEFINE new == [step |-> "hand", at |-> o]
<1>1. new \in Focus!ViewerStates /\ new.step = "hand" /\ new.at = o
  BY DEF Focus!ViewerStates
<1>2. focusViewer' = [focusViewer EXCEPT ![v] = new]
  BY DEF Focus!Takes
<1>. HIDE DEF new
<1>3. /\ focusViewer' \in [Viewers -> Focus!ViewerStates]
      /\ focusViewer'[v] = new
      /\ \A u \in Viewers : u # v => focusViewer'[u] = focusViewer[u]
  BY <1>1, <1>2, FocusViewerMoves
<1>4. FocusCounted'
  BY <1>1, <1>3, FocusSameWatchers DEF FocusInv
<1>5. ~raced' => ~raced /\ ~hollow /\ FocusHands = {}
  BY DEF Focus!Takes, FocusHands
<1>6. FocusHands = {} => FocusHands' = {v}
  BY <1>1, <1>3 DEF FocusHands
<1>. QED  BY <1>3, <1>4, <1>5, <1>6 DEF new

LEMMA FocusShares == ASSUME FocusInv, NEW v \in Viewers, NEW i \in Ips, Focus!Share(v, i) PROVE FocusInv'
<1>. Focus!FocusTypeOK
  BY DEF FocusInv
<1>1. /\ focusViewer[v].step = "idle" /\ pool[i] \in focusRunning
      /\ Focus!Takes(v, pool[i], FALSE) /\ idle' = idle \ {i}
      /\ UNCHANGED <<pool, focusRunning, clients, focusFfmpeg, reader>>
  BY DEF Focus!Share
<1>2. pool[i] \in Objects /\ pool[i] \in Focus!Pooled
  BY <1>1, FocusAssumption DEF Focus!FocusTypeOK, Focus!Pooled
<1>3. /\ focusViewer' \in [Viewers -> Focus!ViewerStates] /\ FocusCounted'
      /\ focusViewer'[v] = [step |-> "hand", at |-> pool[i]]
      /\ ~raced' => ~raced /\ FocusHands' = {v}
  BY <1>1, <1>2, FocusTakes
<1>4. raced' \in BOOLEAN
  BY <1>1 DEF Focus!Takes
<1>5. Focus!FocusTypeOK'
  BY <1>1, <1>3, <1>4 DEF Focus!FocusTypeOK
<1>6. ~raced' => FocusOwned'
  <2>1. SUFFICES ASSUME ~raced' PROVE FocusOwned'
    OBVIOUS
  <2>2. FocusOwned
    BY <1>3, <2>1 DEF FocusInv
  <2>3. Focus!Pooled' = Focus!Pooled
    BY <1>1 DEF Focus!Pooled
  <2>. QED  BY <1>1, <1>2, <1>3, <2>1, <2>2, <2>3 DEF FocusOwned
<1>. QED  BY <1>3, <1>5, <1>6 DEF FocusInv

\* A new stream takes the place of one that has ended.
LEMMA FocusPlaces ==
    ASSUME FocusInv, NEW i \in Ips, NEW o \in Focus!Unused, NEW gone \in SUBSET Ips,
           pool' = [j \in Ips |-> IF j = i THEN o ELSE IF j \in gone THEN Focus!NoObject ELSE pool[j]]
    PROVE  /\ pool' \in [Ips -> Objects \cup {Focus!NoObject}]
           /\ o \in Objects /\ o \notin focusFfmpeg /\ o \notin reader /\ o \in Focus!Pooled'
           /\ Focus!Pooled' \subseteq Focus!Pooled \cup {o}
           /\ \A p \in Focus!Pooled : p \in Focus!Pooled' \/ p = pool[i] \/ \E j \in gone : p = pool[j]
           /\ ~raced => \A j, k \in Ips : pool'[j] = pool'[k] /\ pool'[j] # Focus!NoObject => j = k
<1>1. pool \in [Ips -> Objects \cup {Focus!NoObject}]
  BY DEF FocusInv, Focus!FocusTypeOK
<1>2. o \in Objects /\ o \notin focusFfmpeg /\ o \notin reader /\ o \notin Focus!Pooled /\ o # Focus!NoObject
  BY FocusAssumption DEF Focus!Unused
<1>3. \A j \in Ips : pool[j] # o
  BY <1>2 DEF Focus!Pooled
<1>4. pool' \in [Ips -> Objects \cup {Focus!NoObject}]
  BY <1>1, <1>2
<1>5. /\ o \in Focus!Pooled'
      /\ Focus!Pooled' \subseteq Focus!Pooled \cup {o}
      /\ \A p \in Focus!Pooled : p \in Focus!Pooled' \/ p = pool[i] \/ \E j \in gone : p = pool[j]
  BY <1>2 DEF Focus!Pooled
<1>6. ~raced => \A j, k \in Ips : pool'[j] = pool'[k] /\ pool'[j] # Focus!NoObject => j = k
  BY <1>3 DEF FocusInv, FocusOwned
<1>. QED  BY <1>2, <1>4, <1>5, <1>6

LEMMA FocusCreates == ASSUME FocusInv, NEW v \in Viewers, NEW i \in Ips, Focus!Create(v, i) PROVE FocusInv'
<1>. Focus!FocusTypeOK
  BY DEF FocusInv
<1>1. /\ focusViewer[v].step = "idle" /\ pool[i] \notin focusRunning /\ Focus!Active < MaxStreams
      /\ idle' = idle \ {i}
      /\ UNCHANGED <<focusRunning, clients, focusFfmpeg, reader>>
  BY DEF Focus!Create
<1>2. PICK o \in Focus!Unused : Focus!Takes(v, o, FALSE) /\ pool' = [pool EXCEPT ![i] = o]
  BY DEF Focus!Create
<1>3. pool' = [j \in Ips |-> IF j = i THEN o ELSE IF j \in {} THEN Focus!NoObject ELSE pool[j]]
  BY <1>2 DEF Focus!FocusTypeOK
<1>4. /\ pool' \in [Ips -> Objects \cup {Focus!NoObject}]
      /\ o \in Objects /\ o \notin focusFfmpeg /\ o \notin reader /\ o \in Focus!Pooled'
      /\ Focus!Pooled' \subseteq Focus!Pooled \cup {o}
      /\ \A p \in Focus!Pooled : p \in Focus!Pooled' \/ p = pool[i] \/ \E j \in {} : p = pool[j]
      /\ ~raced => \A j, k \in Ips : pool'[j] = pool'[k] /\ pool'[j] # Focus!NoObject => j = k
  <2>1. {} \in SUBSET Ips
    OBVIOUS
  <2>. QED  BY <1>3, <2>1, FocusPlaces
<1>5. /\ focusViewer' \in [Viewers -> Focus!ViewerStates] /\ FocusCounted'
      /\ focusViewer'[v] = [step |-> "hand", at |-> o]
      /\ ~raced' => ~raced /\ FocusHands' = {v}
  BY <1>1, <1>2, <1>4, FocusTakes
<1>6. raced' \in BOOLEAN
  BY <1>2 DEF Focus!Takes
<1>7. Focus!FocusTypeOK'
  BY <1>1, <1>4, <1>5, <1>6 DEF Focus!FocusTypeOK
<1>8. ~raced' => FocusOwned'
  <2>1. SUFFICES ASSUME ~raced' PROVE FocusOwned'
    OBVIOUS
  <2>2. FocusOwned
    BY <1>5, <2>1 DEF FocusInv
  <2>3. focusFfmpeg \subseteq Focus!Pooled'
    BY <1>1, <1>4, <2>2 DEF FocusOwned
  <2>4. Cardinality(focusFfmpeg) < MaxStreams
    <3>1. Focus!Pooled \cap focusRunning = focusFfmpeg
      BY <2>2 DEF FocusOwned
    <3>. QED  BY <1>1, <3>1, FocusCardinality DEF Focus!Active
  <2>. QED  BY <1>1, <1>4, <1>5, <2>1, <2>2, <2>3, <2>4 DEF FocusOwned
<1>. QED  BY <1>5, <1>7, <1>8 DEF FocusInv

\* An idle stream is stopped for a new one.
LEMMA FocusEvicts == ASSUME FocusInv, NEW v \in Viewers, NEW i \in Ips, Focus!Evict(v, i) PROVE FocusInv'
<1>. Focus!FocusTypeOK
  BY DEF FocusInv
<1>1. /\ focusViewer[v].step = "idle" /\ pool[i] \notin focusRunning
      /\ UNCHANGED clients
  BY DEF Focus!Evict
<1>2. PICK e \in Ips, o \in Focus!Unused :
         /\ pool[e] # Focus!NoObject
         /\ Focus!Stopped({pool[e]})
         /\ Focus!Takes(v, o, pool[e] \notin focusRunning \/ Focus!InHand(pool[e]))
         /\ pool' = [pool EXCEPT ![e] = Focus!NoObject, ![i] = o]
         /\ idle' = idle \ {e, i}
  BY DEF Focus!Evict, Focus!Evicted
<1>. DEFINE p == pool[e]
<1>3. pool' = [j \in Ips |-> IF j = i THEN o ELSE IF j \in {e} THEN Focus!NoObject ELSE pool[j]]
  BY <1>2 DEF Focus!FocusTypeOK
<1>4. /\ pool' \in [Ips -> Objects \cup {Focus!NoObject}]
      /\ o \in Objects /\ o \notin focusFfmpeg /\ o \notin reader /\ o \in Focus!Pooled'
      /\ Focus!Pooled' \subseteq Focus!Pooled \cup {o}
      /\ \A q \in Focus!Pooled : q \in Focus!Pooled' \/ q = pool[i] \/ \E j \in {e} : q = pool[j]
      /\ ~raced => \A j, k \in Ips : pool'[j] = pool'[k] /\ pool'[j] # Focus!NoObject => j = k
  <2>1. {e} \in SUBSET Ips
    OBVIOUS
  <2>. QED  BY <1>3, <2>1, FocusPlaces
<1>5. /\ focusViewer' \in [Viewers -> Focus!ViewerStates] /\ FocusCounted'
      /\ focusViewer'[v] = [step |-> "hand", at |-> o]
      /\ ~raced' => ~raced /\ p \in focusRunning /\ FocusHands' = {v}
  BY <1>1, <1>2, <1>4, FocusTakes
<1>6. raced' \in BOOLEAN
  BY <1>2 DEF Focus!Takes
<1>7. /\ p \in Objects /\ p \in Focus!Pooled
      /\ focusRunning' = focusRunning \ {p} /\ focusFfmpeg' = focusFfmpeg \ {p}
      /\ reader' \subseteq reader \cup {p} /\ reader' \subseteq Objects
  BY <1>2 DEF Focus!Stopped, Focus!FocusTypeOK, Focus!Pooled
<1>8. Focus!FocusTypeOK'
  BY <1>1, <1>2, <1>4, <1>5, <1>6, <1>7 DEF Focus!FocusTypeOK
<1>9. ~raced' => FocusOwned'
  <2>1. SUFFICES ASSUME ~raced' PROVE FocusOwned'
    OBVIOUS
  <2>2. FocusOwned /\ p \in focusFfmpeg /\ FocusHands' = {v}
    BY <1>5, <2>1 DEF FocusInv, FocusOwned
  <2>3. focusFfmpeg' \subseteq Focus!Pooled' /\ focusRunning' = focusFfmpeg'
    BY <1>1, <1>4, <1>7, <2>2 DEF FocusOwned
  <2>4. p \notin Focus!Pooled'
    <3>1. \A j \in Ips : pool[j] = p => j = e
      BY <1>2, <2>2 DEF FocusOwned
    <3>2. o # p
      BY <1>4, <2>2
    <3>. QED  BY <1>3, <3>1, <3>2 DEF Focus!Pooled
  <2>5. reader' \cap Focus!Pooled' = {}
    BY <1>4, <1>7, <2>2, <2>4 DEF FocusOwned
  <2>6. Cardinality(focusFfmpeg') < MaxStreams
    <3>1. IsFiniteSet(focusFfmpeg) /\ Cardinality(focusFfmpeg) \in Nat
      BY FocusFfmpegs
    <3>2. Cardinality(focusFfmpeg \ {p}) = Cardinality(focusFfmpeg) - 1
      BY <2>2, <3>1, FS_RemoveElement
    <3>. QED  BY <1>7, <2>2, <3>1, <3>2, FocusAssumption DEF FocusOwned
  <2>7. Cardinality(focusFfmpeg') <= MaxStreams
    <3>1. IsFiniteSet(focusFfmpeg')
      BY <1>7, FocusFfmpegs, FS_Subset
    <3>2. Cardinality(focusFfmpeg') \in Nat
      BY <3>1, FS_CardinalityType
    <3>. QED  BY <2>6, <3>2, FocusAssumption
  <2>. QED  BY <1>4, <1>5, <2>1, <2>2, <2>3, <2>5, <2>6, <2>7 DEF FocusOwned
<1>. QED  BY <1>5, <1>8, <1>9 DEF FocusInv

\* The stream in the hand begins, or is taken up where it runs.
LEMMA FocusBegins == ASSUME FocusInv, NEW v \in Viewers, Focus!Begin(v) PROVE FocusInv'
<1>. Focus!FocusTypeOK
  BY DEF FocusInv
<1>. DEFINE o == focusViewer[v].at
            new == [focusViewer[v] EXCEPT !.step = "watch"]
<1>1. /\ focusViewer[v].step = "hand" /\ UNCHANGED <<pool, idle, raced>>
      /\ clients' = [clients EXCEPT ![o] = @ + 1]
      /\ focusRunning' = focusRunning \cup {o} /\ focusFfmpeg' = focusFfmpeg \cup {o}
      /\ reader' = IF o \notin focusRunning /\ o \in focusFfmpeg THEN reader \cup {o} ELSE reader
      /\ focusViewer' = [focusViewer EXCEPT ![v] = new]
  BY DEF Focus!Begin
<1>2. o \in Objects /\ focusViewer[v] \in Focus!ViewerStates
  BY <1>1 DEF FocusInv, FocusCounted, Focus!FocusTypeOK
<1>3. new \in Focus!ViewerStates /\ new.step = "watch" /\ new.at = o
  BY <1>2 DEF Focus!ViewerStates
<1>. HIDE DEF new
<1>4. /\ focusViewer' \in [Viewers -> Focus!ViewerStates]
      /\ focusViewer'[v] = new
      /\ \A u \in Viewers : u # v => focusViewer'[u] = focusViewer[u]
  BY <1>1, <1>3, FocusViewerMoves
<1>5. FocusCounted'
  <2>1. ASSUME NEW q \in Objects PROVE clients'[q] = Cardinality(FocusWatchers(q)')
    <3>1. /\ IsFiniteSet(FocusWatchers(q)) /\ clients[q] = Cardinality(FocusWatchers(q))
          /\ v \notin FocusWatchers(q)
      BY <1>1, FocusCounts DEF FocusInv, FocusWatchers
    <3>2. CASE q = o
      <4>1. FocusWatchers(q)' = FocusWatchers(q) \cup {v}
        BY <1>3, <1>4, <3>2 DEF FocusWatchers
      <4>2. clients'[q] = clients[q] + 1
        BY <1>1, <3>2 DEF Focus!FocusTypeOK
      <4>. QED  BY <3>1, <4>1, <4>2, FS_AddElement
    <3>3. CASE q # o
      <4>1. FocusWatchers(q)' = FocusWatchers(q)
        BY <1>1, <1>3, <1>4, <3>3 DEF FocusWatchers
      <4>2. clients'[q] = clients[q]
        BY <1>1, <3>3 DEF Focus!FocusTypeOK
      <4>. QED  BY <3>1, <4>1, <4>2
    <3>. QED  BY <3>2, <3>3
  <2>2. \A u \in Viewers : focusViewer'[u].step # "idle" => focusViewer'[u].at \in Objects
    BY <1>2, <1>3, <1>4 DEF FocusInv, FocusCounted
  <2>. QED  BY <2>1, <2>2 DEF FocusCounted
<1>6. Focus!FocusTypeOK'
  <2>1. \A q \in Objects : clients'[q] \in 0..Cardinality(Viewers)
    BY <1>5, FocusClientsTyped
  <2>2. clients' \in [Objects -> 0..Cardinality(Viewers)]
    BY <1>1, <2>1 DEF Focus!FocusTypeOK
  <2>. QED  BY <1>1, <1>2, <1>4, <2>2, FocusCardinality DEF Focus!FocusTypeOK
<1>7. ~raced' => FocusOwned'
  <2>1. SUFFICES ASSUME ~raced PROVE FocusOwned'
    BY <1>1
  <2>2. FocusOwned
    BY <2>1 DEF FocusInv
  <2>3. Focus!Pooled' = Focus!Pooled
    BY <1>1 DEF Focus!Pooled
  <2>4. v \in FocusHands /\ FocusHands' = {}
    <3>1. v \in FocusHands
      BY <1>1 DEF FocusHands
    <3>2. FocusHands' = FocusHands \ {v}
      BY <1>3, <1>4 DEF FocusHands
    <3>. QED  BY <2>2, <3>1, <3>2 DEF FocusOwned
  <2>5. o \in Focus!Pooled /\ (o \in focusFfmpeg => o \in focusRunning)
    BY <2>2, <2>4 DEF FocusOwned
  <2>6. /\ focusRunning' = focusFfmpeg' /\ focusFfmpeg' \subseteq Focus!Pooled' /\ reader' = reader
    BY <1>1, <2>2, <2>3, <2>5 DEF FocusOwned
  <2>7. Cardinality(focusFfmpeg') <= MaxStreams
    <3>1. IsFiniteSet(focusFfmpeg) /\ Cardinality(focusFfmpeg) \in Nat
      BY FocusFfmpegs
    <3>2. Cardinality(focusFfmpeg') = IF o \in focusFfmpeg THEN Cardinality(focusFfmpeg) ELSE Cardinality(focusFfmpeg) + 1
      BY <1>1, <3>1, FS_AddElement
    <3>. QED  BY <2>2, <2>4, <3>1, <3>2, FocusAssumption DEF FocusOwned
  <2>. QED  BY <1>1, <2>2, <2>3, <2>4, <2>6, <2>7 DEF FocusOwned
<1>. QED  BY <1>5, <1>6, <1>7 DEF FocusInv

LEMMA FocusLeaves == ASSUME FocusInv, NEW v \in Viewers, Focus!Leave(v) PROVE FocusInv'
<1>. Focus!FocusTypeOK
  BY DEF FocusInv
<1>. DEFINE o == focusViewer[v].at
<1>1. /\ focusViewer[v].step = "watch" /\ UNCHANGED <<pool, idle, focusRunning, focusFfmpeg, reader, raced>>
      /\ clients' = [clients EXCEPT ![o] = @ - 1]
      /\ focusViewer' = [focusViewer EXCEPT ![v] = Focus!Nobody]
  BY DEF Focus!Leave
<1>2. o \in Objects
  BY <1>1 DEF FocusInv, FocusCounted
<1>3. Focus!Nobody \in Focus!ViewerStates /\ Focus!Nobody.step = "idle"
  BY DEF Focus!Nobody, Focus!ViewerStates
<1>4. /\ focusViewer' \in [Viewers -> Focus!ViewerStates]
      /\ focusViewer'[v] = Focus!Nobody
      /\ \A u \in Viewers : u # v => focusViewer'[u] = focusViewer[u]
  BY <1>1, <1>3, FocusViewerMoves
<1>5. FocusCounted'
  <2>1. ASSUME NEW q \in Objects PROVE clients'[q] = Cardinality(FocusWatchers(q)')
    <3>1. /\ IsFiniteSet(FocusWatchers(q)) /\ clients[q] = Cardinality(FocusWatchers(q))
      BY FocusCounts DEF FocusInv
    <3>2. CASE q = o
      <4>1. FocusWatchers(q)' = FocusWatchers(q) \ {v} /\ v \in FocusWatchers(q)
        BY <1>1, <1>3, <1>4, <3>2 DEF FocusWatchers
      <4>2. clients'[q] = clients[q] - 1
        BY <1>1, <3>2 DEF Focus!FocusTypeOK
      <4>. QED  BY <3>1, <4>1, <4>2, FS_RemoveElement
    <3>3. CASE q # o
      <4>1. FocusWatchers(q)' = FocusWatchers(q)
        BY <1>1, <1>3, <1>4, <3>3 DEF FocusWatchers
      <4>2. clients'[q] = clients[q]
        BY <1>1, <3>3 DEF Focus!FocusTypeOK
      <4>. QED  BY <3>1, <4>1, <4>2
    <3>. QED  BY <3>2, <3>3
  <2>2. \A u \in Viewers : focusViewer'[u].step # "idle" => focusViewer'[u].at \in Objects
    BY <1>3, <1>4 DEF FocusInv, FocusCounted
  <2>. QED  BY <2>1, <2>2 DEF FocusCounted
<1>6. Focus!FocusTypeOK'
  <2>1. \A q \in Objects : clients'[q] \in 0..Cardinality(Viewers)
    BY <1>5, FocusClientsTyped
  <2>2. clients' \in [Objects -> 0..Cardinality(Viewers)]
    BY <1>1, <2>1 DEF Focus!FocusTypeOK
  <2>. QED  BY <1>1, <1>4, <2>2, FocusCardinality DEF Focus!FocusTypeOK
<1>7. ~raced' => FocusOwned'
  <2>1. Focus!Pooled' = Focus!Pooled
    BY <1>1 DEF Focus!Pooled
  <2>2. FocusHands' \subseteq FocusHands /\ \A u \in FocusHands' : focusViewer'[u] = focusViewer[u]
    BY <1>3, <1>4 DEF FocusHands
  <2>. QED  BY <1>1, <2>1, <2>2 DEF FocusInv, FocusOwned
<1>. QED  BY <1>5, <1>6, <1>7 DEF FocusInv

\* The pool, the viewers and their counts are left alone.
LEMMA FocusExits ==
    ASSUME FocusInv, NEW o \in Objects, Focus!FfmpegExits(o) \/ Focus!ReaderEnds(o) PROVE FocusInv'
<1>. Focus!FocusTypeOK
  BY DEF FocusInv
<1>1. UNCHANGED <<focusViewer, pool, idle, clients, raced>>
  BY DEF Focus!FfmpegExits, Focus!ReaderEnds
<1>2. FocusCounted'
  BY <1>1, FocusSameWatchers DEF FocusInv
<1>3. Focus!Pooled' = Focus!Pooled /\ FocusHands' = FocusHands
  BY <1>1 DEF Focus!Pooled, FocusHands
<1>4. IsFiniteSet(focusFfmpeg) /\ Cardinality(focusFfmpeg) \in Nat
  BY FocusFfmpegs
<1>5. CASE Focus!FfmpegExits(o)
  <2>1. /\ o \in focusFfmpeg /\ UNCHANGED reader
        /\ focusFfmpeg' = focusFfmpeg \ {o} /\ focusRunning' = focusRunning \ {o}
    BY <1>5 DEF Focus!FfmpegExits
  <2>2. Focus!FocusTypeOK'
    BY <1>1, <2>1 DEF Focus!FocusTypeOK
  <2>3. Cardinality(focusFfmpeg') = Cardinality(focusFfmpeg) - 1
    BY <1>4, <2>1, FS_RemoveElement
  <2>4. ASSUME ~raced' PROVE FocusOwned'
    <3>1. FocusOwned
      BY <1>1, <2>4 DEF FocusInv
    <3>2. /\ focusRunning' = focusFfmpeg' /\ focusFfmpeg' \subseteq Focus!Pooled'
          /\ reader' \cap Focus!Pooled' = {}
      BY <1>3, <2>1, <3>1 DEF FocusOwned
    <3>3. /\ \A i, j \in Ips : pool'[i] = pool'[j] /\ pool'[i] # Focus!NoObject => i = j
          /\ \A u, v \in FocusHands' : u = v
          /\ \A v \in FocusHands' : focusViewer'[v].at \in Focus!Pooled'
      BY <1>1, <1>3, <3>1 DEF FocusOwned
    <3>4. /\ Cardinality(focusFfmpeg') <= MaxStreams
          /\ Cardinality(focusFfmpeg') < MaxStreams
      BY <1>4, <2>3, <3>1, FocusAssumption DEF FocusOwned
    <3>. QED  BY <3>2, <3>3, <3>4 DEF FocusOwned
  <2>. QED  BY <1>2, <2>2, <2>4 DEF FocusInv
<1>6. CASE Focus!ReaderEnds(o)
  <2>1. /\ o \in reader /\ UNCHANGED focusFfmpeg
        /\ reader' = reader \ {o} /\ focusRunning' = focusRunning \ {o}
    BY <1>6 DEF Focus!ReaderEnds
  <2>2. Focus!FocusTypeOK'
    BY <1>1, <2>1 DEF Focus!FocusTypeOK
  <2>3. ~raced => focusRunning' = focusRunning
    BY <2>1 DEF FocusInv, FocusOwned
  <2>4. ~raced' => FocusOwned'
    BY <1>1, <1>3, <2>1, <2>3 DEF FocusInv, FocusOwned
  <2>. QED  BY <1>2, <2>2, <2>4 DEF FocusInv
<1>. QED  BY <1>5, <1>6

\* Streams are stopped and leave the pool.
LEMMA FocusStops ==
    ASSUME FocusInv, NEW gone \in SUBSET Ips, NEW os \in SUBSET Focus!Pooled, Focus!Stopped(os),
           pool' = [j \in Ips |-> IF j \in gone THEN Focus!NoObject ELSE pool[j]],
           {pool[j] : j \in gone} \subseteq os \cup {Focus!NoObject},
           \A q \in os : \E j \in gone : pool[j] = q,
           raced' = (raced \/ \E q \in os : Focus!InHand(q)), idle' \subseteq Ips,
           UNCHANGED <<focusViewer, clients>>
    PROVE  FocusInv'
<1>. Focus!FocusTypeOK
  BY DEF FocusInv
<1>1. FocusCounted'
  BY FocusSameWatchers DEF FocusInv
<1>2. /\ focusRunning' = focusRunning \ os /\ focusFfmpeg' = focusFfmpeg \ os
      /\ reader' \subseteq reader \cup os /\ reader' \subseteq Objects
  BY DEF Focus!Stopped, Focus!FocusTypeOK
<1>3. pool' \in [Ips -> Objects \cup {Focus!NoObject}]
  BY DEF Focus!FocusTypeOK
<1>4. Focus!FocusTypeOK'
  BY <1>2, <1>3 DEF Focus!FocusTypeOK
<1>5. ~raced' => FocusOwned'
  <2>1. SUFFICES ASSUME ~raced' PROVE FocusOwned'
    OBVIOUS
  <2>2. FocusOwned /\ \A q \in os : ~Focus!InHand(q)
    BY <2>1 DEF FocusInv
  <2>3. \A j \in Ips : pool[j] \in os /\ pool[j] # Focus!NoObject => j \in gone
    BY <2>2 DEF FocusOwned, Focus!Pooled
  <2>4. Focus!Pooled' = Focus!Pooled \ os
    BY <2>3 DEF Focus!Pooled
  <2>5. FocusHands' = FocusHands
    BY DEF FocusHands
  <2>6. \A v \in FocusHands : focusViewer[v].at \notin os
    <3>1. \A v \in FocusHands : focusViewer[v] = [step |-> "hand", at |-> focusViewer[v].at]
      BY DEF FocusHands, Focus!FocusTypeOK, Focus!ViewerStates
    <3>. QED  BY <2>2, <3>1 DEF Focus!InHand, FocusHands
  <2>7. Cardinality(focusFfmpeg') <= Cardinality(focusFfmpeg) /\ Cardinality(focusFfmpeg') \in Nat
        /\ Cardinality(focusFfmpeg) \in Nat
    BY <1>2, FocusFfmpegs, FS_Subset, FS_CardinalityType
  <2>8. \A j, k \in Ips : pool'[j] = pool'[k] /\ pool'[j] # Focus!NoObject => j = k
    BY <2>2 DEF FocusOwned
  <2>9. /\ \A v \in FocusHands' : focusViewer'[v].at \in Focus!Pooled'
        /\ \A v \in FocusHands' : focusViewer'[v].at \notin focusFfmpeg' => Cardinality(focusFfmpeg') < MaxStreams
    BY <1>2, <2>2, <2>4, <2>5, <2>6, <2>7, FocusAssumption DEF FocusOwned
  <2>10. focusRunning' = focusFfmpeg' /\ focusFfmpeg' \subseteq Focus!Pooled' /\ reader' \cap Focus!Pooled' = {}
    BY <1>2, <2>2, <2>4 DEF FocusOwned
  <2>11. Cardinality(focusFfmpeg') <= MaxStreams
    BY <2>2, <2>7, FocusAssumption DEF FocusOwned
  <2>. QED  BY <2>2, <2>5, <2>8, <2>9, <2>10, <2>11 DEF FocusOwned
<1>. QED  BY <1>1, <1>4, <1>5 DEF FocusInv

LEMMA FocusCleans ==
    ASSUME FocusInv, (\E i \in Ips : Focus!SeeIdle(i) \/ Focus!StopIdle(i)) \/ Focus!StopAll PROVE FocusInv'
<1>. Focus!FocusTypeOK
  BY DEF FocusInv
<1>1. ASSUME NEW i \in Ips, Focus!SeeIdle(i) PROVE FocusInv'
  <2>1. UNCHANGED <<focusViewer, pool, focusRunning, clients, focusFfmpeg, reader, raced>> /\ idle' \subseteq Ips
    BY <1>1 DEF Focus!SeeIdle, Focus!FocusTypeOK
  <2>2. Focus!FocusTypeOK'
    BY <2>1 DEF Focus!FocusTypeOK
  <2>3. FocusCounted'
    BY <2>1, FocusSameWatchers DEF FocusInv
  <2>4. Focus!Pooled' = Focus!Pooled /\ FocusHands' = FocusHands
    BY <2>1 DEF Focus!Pooled, FocusHands
  <2>5. ~raced' => FocusOwned'
    BY <2>1, <2>4 DEF FocusInv, FocusOwned
  <2>. QED  BY <2>2, <2>3, <2>5 DEF FocusInv
<1>2. ASSUME NEW i \in Ips, Focus!StopIdle(i) PROVE FocusInv'
  <2>1. /\ pool[i] # Focus!NoObject /\ Focus!Stopped({pool[i]})
        /\ raced' = (raced \/ Focus!InHand(pool[i])) /\ idle' = idle \ {i}
        /\ pool' = [pool EXCEPT ![i] = Focus!NoObject]
        /\ UNCHANGED <<focusViewer, clients>>
    BY <1>2 DEF Focus!StopIdle
  <2>2. /\ {i} \in SUBSET Ips /\ idle' \subseteq Ips
        /\ {pool[j] : j \in {i}} \subseteq {pool[i]} \cup {Focus!NoObject}
        /\ \A q \in {pool[i]} : \E j \in {i} : pool[j] = q
    BY <2>1 DEF Focus!FocusTypeOK
  <2>4. {pool[i]} \in SUBSET Focus!Pooled
    BY <2>1 DEF Focus!Pooled
  <2>5. pool' = [j \in Ips |-> IF j \in {i} THEN Focus!NoObject ELSE pool[j]]
    BY <2>1 DEF Focus!FocusTypeOK
  <2>3. raced' = (raced \/ \E q \in {pool[i]} : Focus!InHand(q))
    BY <2>1
  <2>. QED  BY <2>1, <2>2, <2>3, <2>4, <2>5, FocusStops
<1>3. ASSUME Focus!StopAll PROVE FocusInv'
  <2>1. /\ Focus!Stopped(Focus!Pooled)
        /\ raced' = (raced \/ \E o \in Focus!Pooled : Focus!InHand(o)) /\ idle' = {}
        /\ pool' = [j \in Ips |-> Focus!NoObject]
        /\ UNCHANGED <<focusViewer, clients>>
    BY <1>3 DEF Focus!StopAll
  <2>2. /\ Ips \in SUBSET Ips /\ Focus!Pooled \in SUBSET Focus!Pooled /\ idle' \subseteq Ips
        /\ pool' = [j \in Ips |-> IF j \in Ips THEN Focus!NoObject ELSE pool[j]]
        /\ {pool[j] : j \in Ips} \subseteq Focus!Pooled \cup {Focus!NoObject}
        /\ \A q \in Focus!Pooled : \E j \in Ips : pool[j] = q
    BY <2>1 DEF Focus!Pooled
  <2>. QED  BY <2>1, <2>2, FocusStops
<1>. QED  BY <1>1, <1>2, <1>3

LEMMA FocusInvInit == ASSUME Focus!FocusInit PROVE FocusInv
<1>1. /\ focusViewer = [v \in Viewers |-> Focus!Nobody]
      /\ Focus!Nobody \in Focus!ViewerStates /\ Focus!Nobody.step = "idle"
      /\ pool = [i \in Ips |-> Focus!NoObject] /\ idle = {}
      /\ focusRunning = {} /\ clients = [o \in Objects |-> 0]
      /\ focusFfmpeg = {} /\ reader = {}
  BY DEF Focus!FocusInit, Focus!Nobody, Focus!ViewerStates
<1>2. raced = FALSE
  BY DEF Focus!FocusInit
<1>3. Cardinality({}) = 0 /\ Cardinality(Viewers) \in Nat
  BY FocusAssumption, FS_EmptySet, FS_CardinalityType
<1>4. clients \in [Objects -> 0..Cardinality(Viewers)]
  BY <1>1, <1>3
<1>5. focusViewer \in [Viewers -> Focus!ViewerStates] /\ pool \in [Ips -> Objects \cup {Focus!NoObject}]
  BY <1>1
<1>6. Focus!FocusTypeOK
  BY <1>1, <1>2, <1>4, <1>5, FocusCardinality DEF Focus!FocusTypeOK
<1>7. FocusCounted
  <2>1. \A o \in Objects : FocusWatchers(o) = {}
    BY <1>1 DEF FocusWatchers
  <2>. QED  BY <1>1, <1>3, <2>1 DEF FocusCounted
<1>8. FocusOwned
  <2>1. FocusHands = {} /\ Focus!Pooled = {}
    BY <1>1 DEF FocusHands, Focus!Pooled
  <2>. QED  BY <1>1, <1>3, <2>1, FocusAssumption DEF FocusOwned
<1>. QED  BY <1>6, <1>7, <1>8 DEF FocusInv

LEMMA FocusInvStep == ASSUME FocusInv, Focus!FocusNext PROVE FocusInv'
<1>1. ASSUME NEW v \in Viewers, Focus!Watches(v) PROVE FocusInv'
  BY <1>1, FocusBegins, FocusLeaves, FocusShares, FocusCreates, FocusEvicts DEF Focus!Watches
<1>. QED  BY <1>1, FocusExits, FocusCleans DEF Focus!FocusNext

LEMMA FocusInvStays == ASSUME FocusInv, UNCHANGED focusVars PROVE FocusInv'
BY DEF focusVars, FocusInv, Focus!FocusTypeOK, FocusCounted, FocusWatchers, FocusOwned,
       Focus!Pooled, FocusHands

------------------------------------------------------------------------------
(* LiveStreams: the three limits count those who watch, and what got lost.  *)

\* Who has a slot of the dashboard, of its user and camera, of a camera and of the station.
Watching == {v \in Viewers : viewer[v].step \in {"connect", "answer", "relay", "lost"}}
HoldsTriple(v, t) ==
    viewer[v].step # "idle" /\ ~viewer[v].old /\ t = <<UserOf(v), viewer[v].cam>>
OnCam == [c \in Cams |->
            {s \in Streams : stream[s].step \in {"global", "spawn", "frames"} /\ stream[s].cam = c}]
OnStation == {s \in Streams : stream[s].step \in {"spawn", "frames"}}

\* The dashboard: every slot that is not there is a viewer's, and those of a user and camera
\* are never shared.
LiveViewers ==
    /\ viewer \in [Viewers -> Live!ViewerStates] /\ triple \in [Live!Users \X Cams -> 0..1]
    /\ dashGlobal \in 0..DashGlobal /\ dashGlobal + Cardinality(Watching) = DashGlobal
    /\ \A v \in Viewers :
         /\ viewer[v].step # "idle" => viewer[v].cam \in Cams
         /\ viewer[v].up # "none" => viewer[v].step \in {"answer", "relay", "lost"}
    /\ \A t \in Live!Users \X Cams :
         /\ \A u, v \in Viewers : HoldsTriple(u, t) /\ HoldsTriple(v, t) => u = v
         /\ (\A v \in Viewers : ~HoldsTriple(v, t)) => triple[t] = 1
         /\ (\E v \in Viewers : HoldsTriple(v, t)) => triple[t] = 0

\* The station: every slot that is not there is a stream's, and ffmpeg runs for those that
\* have both.
LiveStations ==
    /\ stream \in [Streams -> Live!StreamStates]
    /\ perCam \in [Cams -> 0..PerCam] /\ global \in 0..Global
    /\ \A s \in Streams : stream[s].step # "free" => stream[s].cam \in Cams
    /\ \A c \in Cams : perCam[c] + Cardinality(OnCam[c]) = PerCam
    /\ global + Cardinality(OnStation) = Global
    /\ ffmpeg = {s \in Streams : stream[s].step = "frames"}

LiveInv == LiveViewers /\ LiveStations /\ thrown \in 0..MaxLost

LEMMA LiveCardinality == ASSUME NEW S PROVE Cardinality(S) = Live!Cardinality(S)
BY DEF Live!Cardinality, Cardinality

\* Some of finitely many, one more and one fewer.
LEMMA SomeCounted ==
    ASSUME NEW T, IsFiniteSet(T), NEW S \in SUBSET T
    PROVE  /\ Cardinality(S) \in Nat
           /\ \A x \in T : x \notin S => Cardinality(S \cup {x}) = Cardinality(S) + 1
           /\ \A x \in S : Cardinality(S \ {x}) = Cardinality(S) - 1
<1>1. IsFiniteSet(S)
  BY FS_Subset
<1>. QED  BY <1>1, FS_CardinalityType, FS_AddElement, FS_RemoveElement

LEMMA LiveInvInit == ASSUME Live!LiveInit PROVE LiveInv
<1>1. /\ viewer = [v \in Viewers |-> [step |-> "idle", cam |-> "none", up |-> "none", old |-> FALSE]]
      /\ stream = [s \in Streams |-> [step |-> "free", cam |-> "none"]]
      /\ triple = [t \in Live!Users \X Cams |-> 1] /\ dashGlobal = DashGlobal
      /\ perCam = [c \in Cams |-> PerCam] /\ global = Global
      /\ ffmpeg = {} /\ thrown = 0
  BY DEF Live!LiveInit, Live!NoViewer, Live!NoRequest, Live!NoStream
<1>2. /\ DashGlobal \in 0..DashGlobal /\ PerCam \in 0..PerCam /\ Global \in 0..Global /\ 0 \in 0..MaxLost
      /\ 1 \in 0..1
  BY LiveAssumption
<1>3. viewer \in [Viewers -> Live!ViewerStates] /\ stream \in [Streams -> Live!StreamStates]
  BY <1>1 DEF Live!ViewerStates, Live!StreamStates, Live!NoStream
<1>4. Watching = {} /\ OnStation = {} /\ \A c \in Cams : OnCam[c] = {}
  BY <1>1 DEF Watching, OnStation, OnCam
<1>5. Cardinality({}) = 0
  BY FS_EmptySet
<1>6. \A t : \A v \in Viewers : ~HoldsTriple(v, t)
  BY <1>1 DEF HoldsTriple
<1>7. triple \in [Live!Users \X Cams -> 0..1]
  BY <1>1, <1>2
<1>8. LiveViewers
  <2>1. dashGlobal + Cardinality(Watching) = DashGlobal
    BY <1>1, <1>4, <1>5, LiveAssumption
  <2>. QED  BY <1>1, <1>2, <1>3, <1>6, <1>7, <2>1 DEF LiveViewers
<1>9. LiveStations
  <2>1. PerCam + 0 = PerCam /\ Global + 0 = Global
    BY LiveAssumption
  <2>3. ASSUME NEW c \in Cams PROVE perCam[c] + Cardinality(OnCam[c]) = PerCam
    <3>1. perCam[c] = PerCam /\ Cardinality(OnCam[c]) = 0
      BY <1>1, <1>4, <1>5
    <3>. QED  BY <2>1, <3>1
  <2>4. global + Cardinality(OnStation) = Global
    BY <1>1, <1>4, <1>5, <2>1
  <2>2. ffmpeg = {s \in Streams : stream[s].step = "frames"}
    BY <1>1
  <2>5. \A t \in Streams : stream[t].step = "free"
    BY <1>1
  <2>. QED  BY <1>1, <1>2, <1>3, <2>2, <2>3, <2>4, <2>5 DEF LiveStations
<1>. QED  BY <1>1, <1>2, <1>8, <1>9 DEF LiveInv

LEMMA LiveViewerMoves ==
    ASSUME LiveViewers, NEW v \in Viewers, NEW new \in Live!ViewerStates,
           viewer' = [viewer EXCEPT ![v] = new]
    PROVE  /\ viewer' \in [Viewers -> Live!ViewerStates]
           /\ viewer'[v] = new
           /\ \A u \in Viewers : u # v => viewer'[u] = viewer[u]
BY DEF LiveViewers

\* Steps that leave who holds what: the slots of users and cameras stay.
LEMMA LiveKept ==
    ASSUME LiveViewers, viewer' \in [Viewers -> Live!ViewerStates], UNCHANGED triple,
           \A u \in Viewers :
             /\ viewer'[u].step = "idle" <=> viewer[u].step = "idle"
             /\ viewer'[u].cam = viewer[u].cam /\ viewer'[u].old = viewer[u].old
             /\ viewer'[u].up # "none" => viewer'[u].step \in {"answer", "relay", "lost"},
           dashGlobal' \in 0..DashGlobal, dashGlobal' + Cardinality(Watching') = DashGlobal
    PROVE  LiveViewers'
<1>1. \A u \in Viewers : \A t : HoldsTriple(u, t)' <=> HoldsTriple(u, t)
  BY DEF HoldsTriple
<1>2. \A v \in Viewers : viewer'[v].step # "idle" => viewer'[v].cam \in Cams
  BY DEF LiveViewers
<1>3. \A t \in Live!Users \X Cams :
         /\ \A u, v \in Viewers : HoldsTriple(u, t)' /\ HoldsTriple(v, t)' => u = v
         /\ (\A v \in Viewers : ~HoldsTriple(v, t)') => triple'[t] = 1
         /\ (\E v \in Viewers : HoldsTriple(v, t)') => triple'[t] = 0
  BY <1>1 DEF LiveViewers
<1>. QED  BY <1>2, <1>3 DEF LiveViewers, Live!Users

\* The slot of a user and camera, and who holds it.
LEMMA LiveKey ==
    ASSUME LiveViewers, NEW v \in Viewers, viewer[v].step # "idle"
    PROVE  /\ Live!Key(v) = <<UserOf(v), viewer[v].cam>> /\ Live!Key(v) \in Live!Users \X Cams
           /\ ~viewer[v].old => HoldsTriple(v, Live!Key(v)) /\ triple[Live!Key(v)] = 0
<1>1. Live!Key(v) = <<UserOf(v), viewer[v].cam>> /\ viewer[v].cam \in Cams /\ UserOf(v) \in Live!Users
  BY DEF LiveViewers, Live!Key, Live!Users
<1>. QED  BY <1>1 DEF LiveViewers, HoldsTriple

\* A viewer leaves and gives back what it holds.
LEMMA LiveReleases ==
    ASSUME LiveViewers, NEW v \in Viewers, viewer[v].step # "idle",
           triple' = Live!TripleReleased(v), viewer' = [viewer EXCEPT ![v] = Live!NoViewer],
           dashGlobal' = IF v \in Watching THEN dashGlobal + 1 ELSE dashGlobal
    PROVE  LiveViewers'
<1>. DEFINE k == Live!Key(v)
<1>1. /\ Live!NoViewer \in Live!ViewerStates
      /\ Live!NoViewer.step = "idle" /\ Live!NoViewer.up = "none"
  BY DEF Live!NoViewer, Live!ViewerStates, Live!NoStream
<1>2. /\ viewer' \in [Viewers -> Live!ViewerStates] /\ viewer'[v] = Live!NoViewer
      /\ \A u \in Viewers : u # v => viewer'[u] = viewer[u]
  BY <1>1, LiveViewerMoves
<1>3. /\ k = <<UserOf(v), viewer[v].cam>> /\ k \in Live!Users \X Cams
      /\ ~viewer[v].old => HoldsTriple(v, k) /\ triple[k] = 0
  BY LiveKey
<1>. HIDE DEF k
<1>4. /\ triple' \in [Live!Users \X Cams -> 0..1]
      /\ \A t \in Live!Users \X Cams : t # k => triple'[t] = triple[t]
      /\ triple'[k] = IF viewer[v].old THEN triple[k] ELSE 1
  <2>1. CASE viewer[v].old
    <3>1. triple' = triple
      BY <2>1 DEF Live!TripleReleased
    <3>. QED  BY <2>1, <3>1 DEF LiveViewers
  <2>2. CASE ~viewer[v].old
    <3>1. triple' = [triple EXCEPT ![k] = triple[k] + 1]
      BY <2>2 DEF Live!TripleReleased, k
    <3>2. triple[k] + 1 = 1 /\ triple[k] + 1 \in 0..1
      BY <1>3, <2>2
    <3>. QED  BY <1>3, <2>2, <3>1, <3>2 DEF LiveViewers
  <2>. QED  BY <2>1, <2>2
<1>5. \A u \in Viewers : \A t : HoldsTriple(u, t)' <=> u # v /\ HoldsTriple(u, t)
  BY <1>1, <1>2 DEF HoldsTriple
<1>6. \A t \in Live!Users \X Cams : HoldsTriple(v, t) => t = k /\ ~viewer[v].old
  BY <1>3 DEF HoldsTriple
<1>7. ASSUME NEW t \in Live!Users \X Cams
      PROVE  /\ \A u, w \in Viewers : HoldsTriple(u, t)' /\ HoldsTriple(w, t)' => u = w
             /\ (\A w \in Viewers : ~HoldsTriple(w, t)') => triple'[t] = 1
             /\ (\E w \in Viewers : HoldsTriple(w, t)') => triple'[t] = 0
  <2>1. /\ \A u, w \in Viewers : HoldsTriple(u, t) /\ HoldsTriple(w, t) => u = w
        /\ (\A w \in Viewers : ~HoldsTriple(w, t)) => triple[t] = 1
        /\ (\E w \in Viewers : HoldsTriple(w, t)) => triple[t] = 0
    BY DEF LiveViewers
  <2>2. CASE t = k /\ ~viewer[v].old
    <3>1. triple'[t] = 1 /\ \A w \in Viewers : ~HoldsTriple(w, t)'
      BY <1>3, <1>4, <1>5, <2>1, <2>2
    <3>. QED  BY <3>1
  <2>3. CASE ~(t = k /\ ~viewer[v].old)
    <3>1. triple'[t] = triple[t] /\ \A w \in Viewers : HoldsTriple(w, t)' <=> HoldsTriple(w, t)
      BY <1>4, <1>5, <1>6, <2>3
    <3>. QED  BY <2>1, <3>1
  <2>. QED  BY <2>2, <2>3
<1>8. dashGlobal' + Cardinality(Watching') = DashGlobal /\ dashGlobal' \in 0..DashGlobal
  <2>1. Watching \in SUBSET Viewers /\ Watching' \in SUBSET Viewers /\ Watching' = Watching \ {v}
    BY <1>1, <1>2 DEF Watching
  <2>2. /\ Cardinality(Watching) \in Nat /\ Cardinality(Watching') \in Nat
        /\ v \in Watching => Cardinality(Watching') = Cardinality(Watching) - 1
        /\ v \notin Watching => Watching' = Watching
    BY <2>1, LiveAssumption, SomeCounted
  <2>3. dashGlobal \in Nat /\ dashGlobal + Cardinality(Watching) = DashGlobal
    BY DEF LiveViewers
  <2>4. CASE v \in Watching
    <3>1. dashGlobal' = dashGlobal + 1 /\ Cardinality(Watching') = Cardinality(Watching) - 1
      BY <2>2, <2>4
    <3>. QED  BY <2>2, <2>3, <3>1
  <2>5. CASE v \notin Watching
    <3>1. dashGlobal' = dashGlobal /\ Cardinality(Watching') = Cardinality(Watching)
      BY <2>2, <2>5
    <3>. QED  BY <2>2, <2>3, <3>1
  <2>. QED  BY <2>4, <2>5
<1>9. \A u \in Viewers :
         /\ viewer'[u].step # "idle" => viewer'[u].cam \in Cams
         /\ viewer'[u].up # "none" => viewer'[u].step \in {"answer", "relay", "lost"}
  BY <1>1, <1>2 DEF LiveViewers
<1>. QED  BY <1>2, <1>4, <1>7, <1>8, <1>9 DEF LiveViewers, Live!Users

\* A viewer asks, and has the slot of its user and camera.
LEMMA LiveAsks == ASSUME LiveViewers, NEW v \in Viewers, NEW c \in Cams, Live!Ask(v, c) PROVE LiveViewers'
<1>. DEFINE k == <<UserOf(v), c>>
            new == [Live!NoViewer EXCEPT !.step = "global", !.cam = c]
<1>1. /\ viewer[v].step = "idle" /\ triple[k] > 0
      /\ triple' = [triple EXCEPT ![k] = triple[k] - 1] /\ viewer' = [viewer EXCEPT ![v] = new]
      /\ UNCHANGED dashGlobal
  BY DEF Live!Ask
<1>2. new \in Live!ViewerStates /\ new.step = "global" /\ new.cam = c /\ new.up = "none" /\ ~new.old
  BY DEF Live!NoViewer, Live!ViewerStates, Live!NoStream
<1>3. k \in Live!Users \X Cams
  BY DEF Live!Users
<1>4. /\ viewer' \in [Viewers -> Live!ViewerStates] /\ viewer'[v] = new
      /\ \A u \in Viewers : u # v => viewer'[u] = viewer[u]
  <2>. HIDE DEF new
  <2>. QED  BY <1>1, <1>2, LiveViewerMoves
<1>5. /\ triple' \in [Live!Users \X Cams -> 0..1] /\ triple'[k] = 0
      /\ \A t \in Live!Users \X Cams : t # k => triple'[t] = triple[t]
      /\ \A u \in Viewers : ~HoldsTriple(u, k)
  <2>1. triple \in [Live!Users \X Cams -> 0..1]
    BY DEF LiveViewers
  <2>2. triple[k] = 1 /\ triple[k] - 1 \in 0..1 /\ triple[k] - 1 = 0
    BY <1>1, <1>3, <2>1
  <2>3. \A u \in Viewers : ~HoldsTriple(u, k)
    BY <1>3, <2>2 DEF LiveViewers
  <2>. HIDE DEF k
  <2>. QED  BY <1>1, <1>3, <2>1, <2>2, <2>3
<1>6. \A u \in Viewers : \A t : HoldsTriple(u, t)' <=> (u # v /\ HoldsTriple(u, t)) \/ (u = v /\ t = k)
  <2>1. ASSUME NEW t PROVE HoldsTriple(v, t)' <=> t = k
    BY <1>2, <1>4 DEF HoldsTriple
  <2>2. ASSUME NEW t, NEW u \in Viewers, u # v PROVE HoldsTriple(u, t)' <=> HoldsTriple(u, t)
    BY <1>4, <2>2 DEF HoldsTriple
  <2>. QED  BY <2>1, <2>2
<1>7. \A t : ~HoldsTriple(v, t)
  BY <1>1 DEF HoldsTriple
<1>8. Watching' = Watching
  BY <1>1, <1>2, <1>4 DEF Watching
<1>9. ASSUME NEW t \in Live!Users \X Cams
      PROVE  /\ \A u, w \in Viewers : HoldsTriple(u, t)' /\ HoldsTriple(w, t)' => u = w
             /\ (\A w \in Viewers : ~HoldsTriple(w, t)') => triple'[t] = 1
             /\ (\E w \in Viewers : HoldsTriple(w, t)') => triple'[t] = 0
  <2>. HIDE DEF k, new
  <2>1. CASE t = k
    BY <1>5, <1>6, <2>1
  <2>2. CASE t # k
    <3>1. triple'[t] = triple[t] /\ \A w \in Viewers : HoldsTriple(w, t)' <=> HoldsTriple(w, t)
      BY <1>5, <1>6, <1>7, <2>2
    <3>2. /\ \A u, w \in Viewers : HoldsTriple(u, t) /\ HoldsTriple(w, t) => u = w
          /\ (\A w \in Viewers : ~HoldsTriple(w, t)) => triple[t] = 1
          /\ (\E w \in Viewers : HoldsTriple(w, t)) => triple[t] = 0
      BY DEF LiveViewers
    <3>. QED  BY <3>1, <3>2
  <2>. QED  BY <2>1, <2>2
<1>10. \A u \in Viewers :
         /\ viewer'[u].step # "idle" => viewer'[u].cam \in Cams
         /\ viewer'[u].up # "none" => viewer'[u].step \in {"answer", "relay", "lost"}
  <2>. HIDE DEF new
  <2>. QED  BY <1>2, <1>4 DEF LiveViewers
<1>. QED  BY <1>1, <1>4, <1>5, <1>8, <1>9, <1>10 DEF LiveViewers, Live!Users

\* The table of these slots is made anew: nobody holds one of it.
LEMMA LiveCleared == ASSUME LiveViewers, Live!TableCleared PROVE LiveViewers'
<1>1. /\ triple' = [t \in Live!Users \X Cams |-> 1]
      /\ viewer' = [v \in Viewers |-> [viewer[v] EXCEPT !.old = (viewer[v].step # "idle")]]
      /\ UNCHANGED dashGlobal
  BY DEF Live!TableCleared
<1>2. /\ viewer' \in [Viewers -> Live!ViewerStates]
      /\ \A v \in Viewers : /\ viewer'[v].step = viewer[v].step /\ viewer'[v].cam = viewer[v].cam
                            /\ viewer'[v].up = viewer[v].up
                            /\ viewer'[v].old = (viewer[v].step # "idle")
  BY <1>1 DEF LiveViewers, Live!ViewerStates
<1>3. Watching' = Watching
  BY <1>2 DEF Watching
<1>4. \A v \in Viewers : \A t : ~HoldsTriple(v, t)'
  BY <1>2 DEF HoldsTriple
<1>5. triple' \in [Live!Users \X Cams -> 0..1] /\ \A t \in Live!Users \X Cams : triple'[t] = 1
  BY <1>1
<1>. QED  BY <1>1, <1>2, <1>3, <1>4, <1>5 DEF LiveViewers, Live!Users

\* A viewer goes on: only TakeGlobal takes a slot.
LEMMA LiveGoesOn ==
    ASSUME LiveViewers, NEW v \in Viewers, viewer[v].step # "idle", UNCHANGED triple,
           NEW s \in {"connect", "answer", "relay", "lost"}, NEW p \in Streams \cup {"none"},
           viewer' = [viewer EXCEPT ![v].step = s, ![v].up = p],
           p # "none" => s \in {"answer", "relay", "lost"},
           IF viewer[v].step = "global" THEN dashGlobal > 0 /\ dashGlobal' = dashGlobal - 1 ELSE UNCHANGED dashGlobal
    PROVE  LiveViewers'
<1>. DEFINE new == [viewer[v] EXCEPT !.step = s, !.up = p]
<1>0. viewer[v] \in Live!ViewerStates
  BY DEF LiveViewers
<1>1. /\ new \in Live!ViewerStates /\ new.step = s /\ new.up = p
      /\ new.cam = viewer[v].cam /\ new.old = viewer[v].old
  BY <1>0 DEF Live!ViewerStates, Live!NoStream
<1>2. viewer' = [viewer EXCEPT ![v] = new]
  OBVIOUS
<1>. HIDE DEF new
<1>3. /\ viewer' \in [Viewers -> Live!ViewerStates] /\ viewer'[v] = new
      /\ \A u \in Viewers : u # v => viewer'[u] = viewer[u]
  BY <1>1, <1>2, LiveViewerMoves
<1>4. Watching' = Watching \cup {v} /\ (v \in Watching <=> viewer[v].step # "global")
  <2>1. viewer[v].step \in {"idle", "global", "connect", "answer", "relay", "lost"}
    BY DEF LiveViewers, Live!ViewerStates
  <2>. QED  BY <1>1, <1>3, <2>1 DEF Watching
<1>5. dashGlobal' \in 0..DashGlobal /\ dashGlobal' + Cardinality(Watching') = DashGlobal
  <2>1. dashGlobal \in 0..DashGlobal /\ dashGlobal + Cardinality(Watching) = DashGlobal
    BY DEF LiveViewers
  <2>2. Watching \in SUBSET Viewers
    BY DEF Watching
  <2>3. /\ Cardinality(Watching) \in Nat
        /\ v \notin Watching => Cardinality(Watching') = Cardinality(Watching) + 1
        /\ v \in Watching => Watching' = Watching
    BY <1>4, <2>2, LiveAssumption, SomeCounted
  <2>4. CASE viewer[v].step = "global"
    <3>1. dashGlobal' = dashGlobal - 1 /\ dashGlobal > 0 /\ Cardinality(Watching') = Cardinality(Watching) + 1
      BY <1>4, <2>3, <2>4
    <3>. QED  BY <2>1, <2>3, <3>1, LiveAssumption
  <2>5. CASE viewer[v].step # "global"
    BY <1>4, <2>1, <2>3, <2>5
  <2>. QED  BY <2>4, <2>5
<1>6. \A u \in Viewers :
        /\ viewer'[u].step = "idle" <=> viewer[u].step = "idle"
        /\ viewer'[u].cam = viewer[u].cam /\ viewer'[u].old = viewer[u].old
        /\ viewer'[u].up # "none" => viewer'[u].step \in {"answer", "relay", "lost"}
  <2>1. ASSUME NEW u \in Viewers, u # v
        PROVE  viewer'[u] = viewer[u] /\ viewer[u].up # "none" => viewer[u].step \in {"answer", "relay", "lost"}
    BY <1>3, <2>1 DEF LiveViewers
  <2>. QED  BY <1>1, <1>3, <2>1
<1>. QED  BY <1>3, <1>5, <1>6, LiveKept

\* The viewers of a stream that ends are told.
LEMMA LiveTold ==
    ASSUME LiveViewers, NEW s \in Streams, UNCHANGED <<triple, dashGlobal>>,
           viewer' = [v \in Viewers |->
                        IF viewer[v].up = s THEN [viewer[v] EXCEPT !.up = "none"] ELSE viewer[v]]
    PROVE  LiveViewers'
<1>1. /\ viewer' \in [Viewers -> Live!ViewerStates]
      /\ \A v \in Viewers : /\ viewer'[v].step = viewer[v].step /\ viewer'[v].cam = viewer[v].cam
                            /\ viewer'[v].old = viewer[v].old
                            /\ viewer'[v].up \in {viewer[v].up, "none"}
  BY DEF LiveViewers, Live!ViewerStates, Live!NoStream
<1>2. Watching' = Watching
  BY <1>1 DEF Watching
<1>3. \A u \in Viewers : viewer'[u].up # "none" => viewer'[u].step \in {"answer", "relay", "lost"}
  BY <1>1 DEF LiveViewers
<1>4. dashGlobal' \in 0..DashGlobal /\ dashGlobal' + Cardinality(Watching') = DashGlobal
  BY <1>2 DEF LiveViewers
<1>. QED  BY <1>1, <1>3, <1>4, LiveKept

\* A stream moves: its slots of the camera and of the station go with it.
LiveMoves(s, new) ==
    /\ stream' = [stream EXCEPT ![s] = new]
    /\ new.step # "free" => new.cam \in Cams
    /\ stream[s].step # "free" /\ new.step # "free" => new.cam = stream[s].cam
    /\ new.step \notin {"free", "percam"} => stream[s].step # "free"
    /\ \/ /\ stream[s].step \notin {"free", "percam"} /\ new.step \in {"free", "percam"}
          /\ perCam' = [perCam EXCEPT ![stream[s].cam] = @ + 1]
       \/ /\ stream[s].step = "percam" /\ new.step = "global"
          /\ perCam' = [perCam EXCEPT ![stream[s].cam] = @ - 1]
       \/ /\ stream[s].step \in {"free", "percam"} <=> new.step \in {"free", "percam"}
          /\ perCam' = perCam
    /\ new.step = "global" => perCam[stream[s].cam] > 0 /\ stream[s].step = "percam"
    /\ global' = CASE stream[s].step \in {"spawn", "frames"} /\ new.step \in {"free", "percam"} -> global + 1
                   [] stream[s].step = "global" /\ new.step = "spawn" -> global - 1
                   [] OTHER -> global
    /\ new.step = "spawn" => stream[s].step = "global" /\ global > 0
    /\ new.step = "frames" => stream[s].step = "spawn"
    /\ ffmpeg' = IF new.step = "frames" THEN ffmpeg \cup {s} ELSE ffmpeg \ {s}

LEMMA LiveStreamMoves ==
    ASSUME LiveStations, NEW s \in Streams, NEW new \in Live!StreamStates, LiveMoves(s, new)
    PROVE  LiveStations'
<1>. DEFINE k == stream[s].cam
<1>1. /\ stream' \in [Streams -> Live!StreamStates] /\ stream'[s] = new
      /\ \A q \in Streams : q # s => stream'[q] = stream[q]
  BY DEF LiveStations, LiveMoves
<1>2. /\ stream[s].step \in {"free", "percam", "global", "spawn", "frames"}
      /\ new.step \in {"free", "percam", "global", "spawn", "frames"}
  BY DEF LiveStations, Live!StreamStates
<1>3. \A q \in Streams : stream'[q].step # "free" => stream'[q].cam \in Cams
  BY <1>1 DEF LiveStations, LiveMoves
<1>4. ffmpeg' = {q \in Streams : stream'[q].step = "frames"}
  BY <1>1 DEF LiveStations, LiveMoves
<1>5. global' \in 0..Global /\ global' + Cardinality(OnStation') = Global
  <2>1. /\ OnStation \in SUBSET Streams
        /\ OnStation' = IF new.step \in {"spawn", "frames"} THEN OnStation \cup {s} ELSE OnStation \ {s}
        /\ s \in OnStation <=> stream[s].step \in {"spawn", "frames"}
    BY <1>1 DEF OnStation
  <2>2. OnStation' \in SUBSET Streams
    BY <2>1
  <2>3. /\ Cardinality(OnStation) \in Nat /\ Cardinality(OnStation') \in Nat
        /\ s \notin OnStation => Cardinality(OnStation \cup {s}) = Cardinality(OnStation) + 1
        /\ s \in OnStation => Cardinality(OnStation \ {s}) = Cardinality(OnStation) - 1
    BY <2>1, <2>2, LiveAssumption, SomeCounted
  <2>4. global \in 0..Global /\ global + Cardinality(OnStation) = Global
    BY DEF LiveStations
  <2>5. CASE s \in OnStation /\ new.step \notin {"spawn", "frames"}
    <3>1. global' = global + 1 /\ Cardinality(OnStation') = Cardinality(OnStation) - 1
      BY <1>2, <2>1, <2>3, <2>5 DEF LiveMoves
    <3>. QED  BY <2>3, <2>4, <3>1, LiveAssumption
  <2>6. CASE s \notin OnStation /\ new.step \in {"spawn", "frames"}
    <3>1. global' = global - 1 /\ global > 0 /\ Cardinality(OnStation') = Cardinality(OnStation) + 1
      BY <1>2, <2>1, <2>3, <2>6 DEF LiveMoves
    <3>. QED  BY <2>3, <2>4, <3>1, LiveAssumption
  <2>7. CASE s \in OnStation <=> new.step \in {"spawn", "frames"}
    <3>1. OnStation' = OnStation
      BY <2>1, <2>7
    <3>2. global' = global
      BY <1>2, <2>1, <2>7 DEF LiveMoves
    <3>. QED  BY <2>4, <3>1, <3>2
  <2>. QED  BY <2>5, <2>6, <2>7
<1>6. ASSUME NEW c \in Cams
      PROVE  /\ OnCam[c] \in SUBSET Streams /\ OnCam'[c] \in SUBSET Streams
             /\ \A q \in Streams : q # s => (q \in OnCam'[c] <=> q \in OnCam[c])
             /\ s \in OnCam[c] <=> c = k /\ stream[s].step \notin {"free", "percam"}
             /\ s \in OnCam'[c] <=> c = k /\ new.step \notin {"free", "percam"}
  <2>1. \A q \in Streams : q # s => (q \in OnCam'[c] <=> q \in OnCam[c])
    BY <1>1 DEF OnCam
  <2>2. s \in OnCam[c] <=> c = k /\ stream[s].step \notin {"free", "percam"}
    BY <1>2 DEF OnCam
  <2>3. new.step \notin {"free", "percam"} => new.cam = k
    BY <1>2 DEF LiveMoves
  <2>4. s \in OnCam'[c] <=> c = k /\ new.step \notin {"free", "percam"}
    BY <1>1, <1>2, <2>3 DEF OnCam
  <2>. QED  BY <2>1, <2>2, <2>4 DEF OnCam
<1>7. /\ perCam \in [Cams -> 0..PerCam] /\ \A c \in Cams : perCam[c] + Cardinality(OnCam[c]) = PerCam
  BY DEF LiveStations
<1>8. k \in Cams \/ (stream[s].step = "free" /\ new.step \in {"free", "percam"})
  BY <1>2 DEF LiveStations, LiveMoves
<1>13. \/ /\ stream[s].step \notin {"free", "percam"} /\ new.step \in {"free", "percam"}
          /\ perCam' = [perCam EXCEPT ![k] = perCam[k] + 1]
       \/ /\ stream[s].step \in {"free", "percam"} /\ new.step \notin {"free", "percam"}
          /\ perCam' = [perCam EXCEPT ![k] = perCam[k] - 1] /\ perCam[k] > 0
       \/ /\ stream[s].step \in {"free", "percam"} <=> new.step \in {"free", "percam"}
          /\ perCam' = perCam
  BY DEF LiveMoves
<1>. HIDE DEF k
<1>9. ASSUME NEW c \in Cams, c # k
      PROVE  perCam'[c] = perCam[c] /\ Cardinality(OnCam'[c]) = Cardinality(OnCam[c])
  <2>1. OnCam'[c] = OnCam[c]
    <3>1. OnCam[c] \in SUBSET Streams /\ OnCam'[c] \in SUBSET Streams
      BY <1>6
    <3>2. \A q \in Streams : q \in OnCam'[c] <=> q \in OnCam[c]
      BY <1>6, <1>9
    <3>. QED  BY <3>1, <3>2
  <2>2. perCam'[c] = perCam[c]
    BY <1>7, <1>9, <1>13
  <2>. QED  BY <2>1, <2>2
<1>10. ASSUME k \in Cams PROVE perCam'[k] \in 0..PerCam /\ perCam'[k] + Cardinality(OnCam'[k]) = PerCam
  <2>1. /\ Cardinality(OnCam[k]) \in Nat /\ Cardinality(OnCam'[k]) \in Nat
        /\ s \notin OnCam[k] => Cardinality(OnCam[k] \cup {s}) = Cardinality(OnCam[k]) + 1
        /\ s \in OnCam[k] => Cardinality(OnCam[k] \ {s}) = Cardinality(OnCam[k]) - 1
    <3>1. OnCam[k] \in SUBSET Streams /\ OnCam'[k] \in SUBSET Streams
      BY <1>6, <1>10
    <3>. QED  BY <3>1, LiveAssumption, SomeCounted
  <2>2. perCam[k] \in 0..PerCam /\ perCam[k] + Cardinality(OnCam[k]) = PerCam
    BY <1>7, <1>10
  <2>3. CASE s \in OnCam[k] /\ s \notin OnCam'[k]
    <3>1. OnCam'[k] = OnCam[k] \ {s}
      BY <1>6, <1>10, <2>3
    <3>2. perCam'[k] = perCam[k] + 1
      BY <1>6, <1>7, <1>10, <1>13, <2>3
    <3>3. Cardinality(OnCam'[k]) = Cardinality(OnCam[k]) - 1
      BY <2>1, <2>3, <3>1
    <3>. QED  BY <2>1, <2>2, <3>2, <3>3, LiveAssumption
  <2>4. CASE s \notin OnCam[k] /\ s \in OnCam'[k]
    <3>1. OnCam'[k] = OnCam[k] \cup {s}
      BY <1>6, <1>10, <2>4
    <3>2. perCam'[k] = perCam[k] - 1 /\ perCam[k] > 0
      BY <1>6, <1>7, <1>10, <1>13, <2>4
    <3>3. Cardinality(OnCam'[k]) = Cardinality(OnCam[k]) + 1
      BY <2>1, <2>4, <3>1
    <3>. QED  BY <2>1, <2>2, <3>2, <3>3, LiveAssumption
  <2>5. CASE s \in OnCam[k] <=> s \in OnCam'[k]
    <3>1. OnCam'[k] = OnCam[k]
      <4>1. OnCam[k] \in SUBSET Streams /\ OnCam'[k] \in SUBSET Streams
        BY <1>6, <1>10
      <4>2. \A q \in Streams : q \in OnCam'[k] <=> q \in OnCam[k]
        BY <1>6, <1>10, <2>5
      <4>. QED  BY <4>1, <4>2
    <3>2. perCam'[k] = perCam[k]
      BY <1>6, <1>7, <1>10, <1>13, <2>5
    <3>. QED  BY <2>2, <3>1, <3>2
  <2>. QED  BY <2>3, <2>4, <2>5
<1>11. perCam' \in [Cams -> 0..PerCam]
  <2>1. DOMAIN perCam' = Cams /\ perCam' = [c \in Cams |-> perCam'[c]]
    BY <1>7, <1>13
  <2>2. \A c \in Cams : perCam'[c] \in 0..PerCam
    BY <1>7, <1>9, <1>10
  <2>. QED  BY <2>1, <2>2
<1>12. \A c \in Cams : perCam'[c] + Cardinality(OnCam'[c]) = PerCam
  BY <1>7, <1>9, <1>10
<1>. QED  BY <1>1, <1>3, <1>4, <1>5, <1>11, <1>12 DEF LiveStations

\* A stream that is refused ends, and one of its viewers with it.
LEMMA LiveRefused ==
    ASSUME LiveViewers, NEW s \in Streams,
           LET waiting == {v \in Viewers : viewer[v].up = s} IN
             IF waiting = {} THEN UNCHANGED <<viewer, triple, dashGlobal>>
             ELSE \E v \in waiting : Live!ViewerEnds(v)
    PROVE  LiveViewers'
<1>1. CASE UNCHANGED <<viewer, triple, dashGlobal>>
  BY <1>1 DEF LiveViewers, Watching, HoldsTriple, Live!Users
<1>2. ASSUME NEW v \in Viewers, viewer[v].up = s, Live!ViewerEnds(v) PROVE LiveViewers'
  <2>1. s # "none"
    BY LiveAssumption
  <2>2. viewer[v].step \in {"answer", "relay", "lost"}
    BY <1>2, <2>1 DEF LiveViewers
  <2>3. v \in Watching /\ viewer[v].step # "idle"
    BY <2>2 DEF Watching
  <2>. QED  BY <1>2, <2>3, LiveReleases DEF Live!ViewerEnds
<1>. QED  BY <1>1, <1>2

\* The request reaches the station.
LEMMA LiveConnects == ASSUME LiveInv, NEW v \in Viewers, NEW s \in Streams, Live!Connect(v, s) PROVE LiveInv'
<1>. LiveViewers /\ LiveStations /\ thrown \in 0..MaxLost
  BY DEF LiveInv
<1>. DEFINE new == [step |-> "percam", cam |-> viewer[v].cam]
<1>1. /\ viewer[v].step = "connect" /\ stream[s].step = "free"
      /\ stream' = [stream EXCEPT ![s] = new]
      /\ viewer' = [viewer EXCEPT ![v].step = "answer", ![v].up = s]
      /\ UNCHANGED <<triple, dashGlobal, perCam, global, ffmpeg, thrown>>
  BY DEF Live!Connect
<1>2. viewer[v].cam \in Cams
  BY <1>1 DEF LiveViewers
<1>3. new \in Live!StreamStates /\ new.step = "percam" /\ new.cam = viewer[v].cam
  BY <1>2 DEF Live!StreamStates
<1>. HIDE DEF new
<1>4. LiveMoves(s, new)
  <2>1. s \notin ffmpeg
    BY <1>1 DEF LiveStations
  <2>. QED  BY <1>1, <1>2, <1>3, <2>1 DEF LiveMoves
<1>5. LiveStations'
  BY <1>3, <1>4, LiveStreamMoves
<1>6. LiveViewers'
  BY <1>1, LiveGoesOn
<1>. QED  BY <1>1, <1>5, <1>6 DEF LiveInv

\* A response is thrown away before its first frame.
LEMMA LiveLost == ASSUME LiveInv, NEW v \in Viewers, Live!ResponseLost(v) PROVE LiveInv'
<1>. LiveViewers /\ LiveStations /\ thrown \in 0..MaxLost
  BY DEF LiveInv
<1>. DEFINE p == viewer[v].up
<1>0. viewer[v] \in Live!ViewerStates
  BY DEF LiveViewers
<1>1. /\ viewer[v].step = "relay" /\ thrown < MaxLost /\ thrown' = thrown + 1
      /\ viewer' = [viewer EXCEPT ![v].step = "lost"]
      /\ UNCHANGED <<stream, triple, dashGlobal, perCam, global, ffmpeg>>
  BY DEF Live!ResponseLost
<1>2. p \in Streams \cup {"none"} /\ viewer' = [viewer EXCEPT ![v].step = "lost", ![v].up = p]
  BY <1>0, <1>1 DEF Live!ViewerStates, Live!NoStream
<1>. HIDE DEF p
<1>3. LiveViewers'
  BY <1>1, <1>2, LiveGoesOn
<1>4. thrown' \in 0..MaxLost
  BY <1>1, LiveAssumption
<1>5. LiveStations'
  BY <1>1 DEF LiveStations, OnCam, OnStation
<1>. QED  BY <1>3, <1>4, <1>5 DEF LiveInv

\* The dashboard's steps.
LEMMA LiveViews == ASSUME LiveInv, NEW v \in Viewers, Live!Views(v) PROVE LiveInv'
<1>. LiveViewers /\ LiveStations /\ thrown \in 0..MaxLost
  BY DEF LiveInv
<1>0. viewer[v] \in Live!ViewerStates
  BY DEF LiveViewers
<1>1. CASE UNCHANGED <<stream, perCam, global, ffmpeg, thrown>>
  <2>1. LiveStations' /\ thrown' \in 0..MaxLost
    BY <1>1 DEF LiveStations, OnCam, OnStation
  <2>2. CASE \E c \in Cams : Live!Ask(v, c)
    BY <2>1, <2>2, LiveAsks DEF LiveInv
  <2>3. CASE Live!TakeGlobal(v)
    <3>1. /\ viewer[v].step = "global" /\ dashGlobal > 0 /\ dashGlobal' = dashGlobal - 1 /\ UNCHANGED triple
          /\ viewer' = [viewer EXCEPT ![v].step = "connect"]
      BY <2>3 DEF Live!TakeGlobal, Live!ViewerGoes
    <3>2. viewer[v].up = "none"
      BY <3>1 DEF LiveViewers
    <3>3. viewer' = [viewer EXCEPT ![v].step = "connect", ![v].up = "none"]
      BY <1>0, <3>1, <3>2 DEF Live!ViewerStates
    <3>. QED  BY <2>1, <3>1, <3>3, LiveGoesOn DEF LiveInv
  <2>4. CASE Live!Refuse(v)
    <3>1. v \notin Watching
      BY <2>4 DEF Live!Refuse, Watching
    <3>. QED  BY <2>1, <2>4, <3>1, LiveReleases DEF Live!Refuse, Live!RefusedRelease, LiveInv
  <2>5. CASE Live!Unreachable(v) \/ Live!RelayEnds(v)
    <3>1. v \in Watching /\ viewer[v].step # "idle" /\ Live!ViewerEnds(v)
      BY <2>5 DEF Live!Unreachable, Live!RelayEnds, Watching
    <3>. QED  BY <2>1, <3>1, LiveReleases DEF Live!ViewerEnds, LiveInv
  <2>6. CASE Live!Relay(v)
    <3>. DEFINE p == viewer[v].up
    <3>1. /\ viewer[v].step = "answer" /\ UNCHANGED <<triple, dashGlobal>>
          /\ viewer' = [viewer EXCEPT ![v].step = "relay"]
      BY <2>6 DEF Live!Relay, Live!ViewerGoes
    <3>2. p \in Streams \cup {"none"} /\ viewer' = [viewer EXCEPT ![v].step = "relay", ![v].up = p]
      BY <1>0, <3>1 DEF Live!ViewerStates, Live!NoStream
    <3>. HIDE DEF p
    <3>. QED  BY <2>1, <3>1, <3>2, LiveGoesOn DEF LiveInv
  <2>7. CASE (\E s \in Streams : Live!Connect(v, s)) \/ Live!ResponseLost(v)
    BY <2>7, LiveConnects, LiveLost
  <2>. QED  BY <2>2, <2>3, <2>4, <2>5, <2>6, <2>7 DEF Live!Views
<1>. QED  BY <1>1, LiveConnects, LiveLost DEF Live!Views, Live!Ask, Live!TakeGlobal, Live!Refuse, Live!Unreachable, Live!Relay, Live!RelayEnds

\* The station's steps.
LEMMA LiveServes == ASSUME LiveInv, NEW s \in Streams, Live!Serves(s) PROVE LiveInv'
<1>. LiveViewers /\ LiveStations /\ thrown \in 0..MaxLost
  BY DEF LiveInv
<1>0. /\ stream[s] \in Live!StreamStates
      /\ \A x \in Streams : x \in ffmpeg <=> stream[x].step = "frames"
  BY DEF LiveStations
<1>1. UNCHANGED thrown
  BY DEF Live!Serves, Live!TakePerCam, Live!TakeStation, Live!Spawn, Live!StreamEnds
<1>2. ASSUME NEW new \in Live!StreamStates, LiveMoves(s, new), LiveViewers' PROVE LiveInv'
  BY <1>1, <1>2, LiveStreamMoves DEF LiveInv
<1>3. ASSUME UNCHANGED <<viewer, triple, dashGlobal>> PROVE LiveViewers'
  BY <1>3 DEF LiveViewers, Watching, HoldsTriple, Live!Users
<1>4. /\ Live!NoRequest \in Live!StreamStates /\ Live!NoRequest.step = "free"
  BY DEF Live!NoRequest, Live!StreamStates, Live!NoStream
<1>5. ASSUME NEW x \in {"global", "spawn", "frames"}, Live!StreamGoes(s, x)
      PROVE  \E new \in Live!StreamStates :
               new.step = x /\ new.cam = stream[s].cam /\ stream' = [stream EXCEPT ![s] = new]
  <2>. DEFINE new == [stream[s] EXCEPT !.step = x]
  <2>1. new \in Live!StreamStates /\ new.step = x /\ new.cam = stream[s].cam
    BY <1>0 DEF Live!StreamStates
  <2>2. stream' = [stream EXCEPT ![s] = new]
    BY <1>5 DEF Live!StreamGoes
  <2>. HIDE DEF new
  <2>. QED  BY <2>1, <2>2
<1>6. stream[s].step # "free" => stream[s].cam \in Cams
  BY DEF LiveStations
<1>7. CASE Live!TakePerCam(s)
  <2>1. stream[s].step = "percam" /\ UNCHANGED <<global, ffmpeg>> /\ s \notin ffmpeg
    BY <1>0, <1>7 DEF Live!TakePerCam
  <2>2. CASE perCam[stream[s].cam] > 0
    <3>1. /\ perCam' = [perCam EXCEPT ![stream[s].cam] = @ - 1] /\ Live!StreamGoes(s, "global")
          /\ UNCHANGED <<viewer, triple, dashGlobal>>
      BY <1>7, <2>2 DEF Live!TakePerCam
    <3>2. PICK new \in Live!StreamStates :
             new.step = "global" /\ new.cam = stream[s].cam /\ stream' = [stream EXCEPT ![s] = new]
      BY <1>5, <3>1
    <3>3. LiveMoves(s, new)
      BY <1>6, <2>1, <2>2, <3>1, <3>2 DEF LiveMoves
    <3>. QED  BY <1>2, <1>3, <3>1, <3>3
  <2>3. CASE ~(perCam[stream[s].cam] > 0)
    <3>1. Live!RefusedBy(s) /\ UNCHANGED perCam
      BY <1>7, <2>3 DEF Live!TakePerCam
    <3>2. LiveViewers' /\ stream' = [stream EXCEPT ![s] = Live!NoRequest]
      BY <3>1, LiveRefused DEF Live!RefusedBy
    <3>3. LiveMoves(s, Live!NoRequest)
      BY <1>4, <2>1, <3>1, <3>2 DEF LiveMoves
    <3>. QED  BY <1>2, <1>4, <3>2, <3>3
  <2>. QED  BY <2>2, <2>3
<1>8. CASE Live!TakeStation(s)
  <2>1. stream[s].step = "global" /\ UNCHANGED ffmpeg /\ s \notin ffmpeg
    BY <1>0, <1>8 DEF Live!TakeStation
  <2>2. CASE global > 0
    <3>1. global' = global - 1 /\ Live!StreamGoes(s, "spawn") /\ UNCHANGED <<viewer, triple, dashGlobal, perCam>>
      BY <1>8, <2>2 DEF Live!TakeStation
    <3>2. PICK new \in Live!StreamStates :
             new.step = "spawn" /\ new.cam = stream[s].cam /\ stream' = [stream EXCEPT ![s] = new]
      BY <1>5, <3>1
    <3>3. LiveMoves(s, new)
      BY <1>6, <2>1, <2>2, <3>1, <3>2 DEF LiveMoves
    <3>. QED  BY <1>2, <1>3, <3>1, <3>3
  <2>3. CASE ~(global > 0)
    <3>1. Live!RefusedBy(s) /\ UNCHANGED global /\ perCam' = [perCam EXCEPT ![stream[s].cam] = @ + 1]
      BY <1>8, <2>3 DEF Live!TakeStation
    <3>2. LiveViewers' /\ stream' = [stream EXCEPT ![s] = Live!NoRequest]
      BY <3>1, LiveRefused DEF Live!RefusedBy
    <3>3. LiveMoves(s, Live!NoRequest)
      BY <1>4, <2>1, <3>1, <3>2 DEF LiveMoves
    <3>. QED  BY <1>2, <1>4, <3>2, <3>3
  <2>. QED  BY <2>2, <2>3
<1>9. CASE Live!Spawn(s)
  <2>1. stream[s].step = "spawn" /\ s \notin ffmpeg
    BY <1>0, <1>9 DEF Live!Spawn
  <2>2. CASE /\ ffmpeg' = ffmpeg \cup {s} /\ Live!StreamGoes(s, "frames")
             /\ UNCHANGED <<viewer, triple, dashGlobal, perCam, global>>
    <3>2. PICK new \in Live!StreamStates :
             new.step = "frames" /\ new.cam = stream[s].cam /\ stream' = [stream EXCEPT ![s] = new]
      BY <1>5, <2>2
    <3>3. LiveMoves(s, new)
      BY <1>6, <2>1, <2>2, <3>2 DEF LiveMoves
    <3>. QED  BY <1>2, <1>3, <2>2, <3>3
  <2>3. CASE Live!GiveBack(s) /\ Live!RefusedBy(s) /\ UNCHANGED ffmpeg
    <3>2. LiveViewers' /\ stream' = [stream EXCEPT ![s] = Live!NoRequest]
      BY <2>3, LiveRefused DEF Live!RefusedBy
    <3>3. LiveMoves(s, Live!NoRequest)
      BY <1>4, <2>1, <2>3, <3>2 DEF LiveMoves, Live!GiveBack
    <3>. QED  BY <1>2, <1>4, <3>2, <3>3
  <2>. QED  BY <1>9, <2>2, <2>3 DEF Live!Spawn
<1>10. CASE Live!StreamEnds(s)
  <2>1. /\ stream[s].step = "frames" /\ ffmpeg' = ffmpeg \ {s} /\ Live!GiveBack(s)
        /\ stream' = [stream EXCEPT ![s] = Live!NoRequest] /\ UNCHANGED <<triple, dashGlobal>>
        /\ viewer' = [v \in Viewers |->
                        IF viewer[v].up = s THEN [viewer[v] EXCEPT !.up = "none"] ELSE viewer[v]]
    BY <1>10 DEF Live!StreamEnds, Live!NoStream
  <2>2. LiveMoves(s, Live!NoRequest)
    BY <1>4, <2>1 DEF LiveMoves, Live!GiveBack
  <2>3. LiveViewers'
    BY <2>1, LiveTold
  <2>. QED  BY <1>2, <1>4, <2>2, <2>3
<1>. QED  BY <1>7, <1>8, <1>9, <1>10 DEF Live!Serves

LEMMA LiveInvStep == ASSUME LiveInv, Live!LiveNext PROVE LiveInv'
<1>1. CASE Live!TableCleared
  <2>1. LiveViewers' /\ UNCHANGED <<stream, perCam, global, ffmpeg, thrown>>
    BY <1>1, LiveCleared DEF LiveInv, Live!TableCleared
  <2>2. LiveStations' /\ thrown' \in 0..MaxLost
    BY <2>1 DEF LiveInv, LiveStations, OnCam, OnStation
  <2>. QED  BY <2>1, <2>2 DEF LiveInv
<1>. QED  BY <1>1, LiveViews, LiveServes DEF Live!LiveNext

LEMMA LiveInvSafe == ASSUME LiveInv PROVE Live!LiveTypeOK /\ Live!SlotsComeBack
<1>. LiveViewers /\ LiveStations /\ thrown \in 0..MaxLost
  BY DEF LiveInv
<1>0. Cardinality({}) = 0
  BY FS_EmptySet
<1>1. Live!LiveTypeOK
  BY DEF LiveViewers, LiveStations, Live!LiveTypeOK
<1>2. ASSUME \A v \in Viewers : viewer[v].step = "idle"
      PROVE  dashGlobal = DashGlobal /\ \A t \in Live!Users \X Cams : triple[t] = 1
  <2>1. Watching = {} /\ dashGlobal \in Nat /\ dashGlobal + Cardinality(Watching) = DashGlobal
    BY <1>2 DEF Watching, LiveViewers
  <2>2. dashGlobal = DashGlobal
    BY <1>0, <2>1
  <2>3. \A t : \A v \in Viewers : ~HoldsTriple(v, t)
    BY <1>2 DEF HoldsTriple
  <2>. QED  BY <2>2, <2>3 DEF LiveViewers
<1>3. ASSUME \A s \in Streams : stream[s].step = "free"
      PROVE  global = Global /\ ffmpeg = {} /\ \A c \in Cams : perCam[c] = PerCam
  <2>1. OnStation = {} /\ global \in Nat /\ global + Cardinality(OnStation) = Global
    BY <1>3 DEF OnStation, LiveStations
  <2>2. global = Global
    BY <1>0, <2>1
  <2>3. ffmpeg = {}
    BY <1>3 DEF LiveStations
  <2>4. ASSUME NEW c \in Cams PROVE perCam[c] = PerCam
    <3>1. OnCam[c] = {} /\ perCam[c] \in Nat /\ perCam[c] + Cardinality(OnCam[c]) = PerCam
      BY <1>3 DEF OnCam, LiveStations
    <3>. QED  BY <1>0, <3>1
  <2>. QED  BY <2>2, <2>3, <2>4
<1>. QED  BY <1>1, <1>2, <1>3 DEF Live!SlotsComeBack

LEMMA LiveInvStays == ASSUME LiveInv, UNCHANGED liveVars PROVE LiveInv'
BY DEF liveVars, LiveInv, LiveViewers, HoldsTriple, Watching, LiveStations, OnStation, OnCam

------------------------------------------------------------------------------
(* MediaJobs: slots and temporary files of the jobs.                        *)

\* The requests whose slot is not back yet.
SlotHolders == {r \in Requests : mediaRequest[r] = [kind |-> "stitch", step |-> "wait"]} \cup leaked

\* A temporary file belongs to a request that has not ended, or to a job that began after it;
\* a slot that is not there is somebody's.
MediaInv ==
    /\ Media!MediaTypeOK
    /\ \A r \in files : mediaRequest[r].step \in {"wait", "send"} \/ r \in late
    /\ \A i \in 1..Len(mediaQueue) : mediaRequest[mediaQueue[i]].step # "new"
    /\ \A r \in late \cup leaked : mediaRequest[r].step = "over"
    /\ slots + Cardinality(SlotHolders) = StitchSlots

LEMMA MediaCardinality == ASSUME NEW S PROVE Media!Cardinality(S) = Cardinality(S)
BY DEF Media!Cardinality, Cardinality

\* The holders of slots, and any requests, can be counted.
LEMMA MediaCounts ==
    ASSUME NEW S \in SUBSET Requests
    PROVE  /\ IsFiniteSet(S) /\ Cardinality(S) \in Nat
           /\ \A r \in Requests : r \notin S => Cardinality(S \cup {r}) = Cardinality(S) + 1
           /\ \A r \in S : Cardinality(S \ {r}) = Cardinality(S) - 1
<1>1. IsFiniteSet(S)
  BY MediaAssumption, FS_Subset
<1>. QED  BY <1>1, FS_CardinalityType, FS_AddElement, FS_RemoveElement

LEMMA MediaInvInit == ASSUME Media!MediaInit PROVE MediaInv
<1>1. /\ mediaRequest = [r \in Requests |-> [kind |-> "remux", step |-> "new"]]
      /\ mediaQueue = <<>> /\ running = {} /\ waited = {} /\ late = {} /\ leaked = {}
      /\ result = [r \in Requests |-> "none"] /\ slots = StitchSlots /\ files = {}
  BY DEF Media!MediaInit
<1>2. mediaRequest \in [Requests -> Media!RequestStates]
  BY <1>1 DEF Media!RequestStates, Media!Kinds
<1>3. Media!Cardinality(running) <= Workers
  BY <1>1, MediaAssumption, MediaCardinality, FS_EmptySet
<1>4. slots \in 0..StitchSlots
  BY <1>1, MediaAssumption
<1>5. Media!MediaTypeOK
  BY <1>1, <1>2, <1>3, <1>4 DEF Media!MediaTypeOK
<1>6. SlotHolders = {}
  BY <1>1 DEF SlotHolders
<1>7. slots + Cardinality(SlotHolders) = StitchSlots
  BY <1>1, <1>6, FS_EmptySet, MediaAssumption
<1>. QED  BY <1>1, <1>5, <1>7 DEF MediaInv

LEMMA MediaMoves ==
    ASSUME Media!MediaTypeOK, NEW r \in Requests, NEW new \in Media!RequestStates,
           mediaRequest' = [mediaRequest EXCEPT ![r] = new]
    PROVE  /\ mediaRequest' \in [Requests -> Media!RequestStates]
           /\ mediaRequest'[r] = new
           /\ \A q \in Requests : q # r => mediaRequest'[q] = mediaRequest[q]
BY DEF Media!MediaTypeOK

LEMMA MediaGoes ==
    ASSUME Media!MediaTypeOK, NEW r \in Requests, NEW s \in {"new", "wait", "send", "over"}, Media!Goes(r, s)
    PROVE  /\ mediaRequest' \in [Requests -> Media!RequestStates]
           /\ mediaRequest'[r].step = s /\ mediaRequest'[r].kind = mediaRequest[r].kind
           /\ \A q \in Requests : q # r => mediaRequest'[q] = mediaRequest[q]
BY DEF Media!MediaTypeOK, Media!Goes, Media!RequestStates

\* What is added to the queue, and what is left of it, are requests of the queue.
LEMMA MediaQueue ==
    ASSUME Media!MediaTypeOK, NEW r \in Requests
    PROVE  /\ Append(mediaQueue, r) \in Seq(Requests)
           /\ \A i \in 1..Len(Append(mediaQueue, r)) :
                \/ Append(mediaQueue, r)[i] = r
                \/ \E j \in 1..Len(mediaQueue) : Append(mediaQueue, r)[i] = mediaQueue[j]
           /\ mediaQueue # <<>> =>
                /\ Head(mediaQueue) \in Requests /\ Tail(mediaQueue) \in Seq(Requests)
                /\ \E j \in 1..Len(mediaQueue) : Head(mediaQueue) = mediaQueue[j]
                /\ \A i \in 1..Len(Tail(mediaQueue)) :
                     \E j \in 1..Len(mediaQueue) : Tail(mediaQueue)[i] = mediaQueue[j]
<1>. mediaQueue \in Seq(Requests)
  BY DEF Media!MediaTypeOK
<1>1. /\ Append(mediaQueue, r) \in Seq(Requests)
      /\ \A i \in 1..Len(Append(mediaQueue, r)) :
           \/ Append(mediaQueue, r)[i] = r
           \/ i \in 1..Len(mediaQueue) /\ Append(mediaQueue, r)[i] = mediaQueue[i]
  OBVIOUS
<1>2. ASSUME mediaQueue # <<>>
      PROVE  /\ Head(mediaQueue) \in Requests /\ Tail(mediaQueue) \in Seq(Requests)
             /\ 1 \in 1..Len(mediaQueue) /\ Head(mediaQueue) = mediaQueue[1]
             /\ \A i \in 1..Len(Tail(mediaQueue)) :
                  i + 1 \in 1..Len(mediaQueue) /\ Tail(mediaQueue)[i] = mediaQueue[i + 1]
  BY <1>2
<1>. QED  BY <1>1, <1>2

\* A request is made: a remux, or a stitch that takes a slot.
LEMMA MediaSubmits ==
    ASSUME MediaInv, NEW r \in Requests, NEW k \in {"remux", "stitch"}, Media!At(r, "new"), Media!Submit(r, k),
           UNCHANGED leaked, k = "remux" => UNCHANGED slots, k = "stitch" => slots > 0 /\ slots' = slots - 1
    PROVE  MediaInv'
<1>. Media!MediaTypeOK
  BY DEF MediaInv
<1>1. /\ mediaRequest[r].step = "new"
      /\ mediaRequest' = [mediaRequest EXCEPT ![r] = [kind |-> k, step |-> "wait"]]
      /\ files' = files \cup {r} /\ mediaQueue' = Append(mediaQueue, r)
      /\ waited' \in {waited, waited \cup {r}} /\ UNCHANGED <<running, result, late>>
  BY DEF Media!Submit, Media!At
<1>2. [kind |-> k, step |-> "wait"] \in Media!RequestStates
  BY DEF Media!RequestStates, Media!Kinds
<1>3. /\ mediaRequest' \in [Requests -> Media!RequestStates]
      /\ mediaRequest'[r] = [kind |-> k, step |-> "wait"]
      /\ \A q \in Requests : q # r => mediaRequest'[q] = mediaRequest[q]
  BY <1>1, <1>2, MediaMoves
<1>4. slots' \in 0..StitchSlots
  BY MediaAssumption DEF Media!MediaTypeOK
<1>5. mediaQueue' \in Seq(Requests)
  BY <1>1, MediaQueue
<1>6. Media!MediaTypeOK'
  BY <1>1, <1>3, <1>4, <1>5, MediaCardinality DEF Media!MediaTypeOK
<1>7. \A q \in files' : mediaRequest'[q].step \in {"wait", "send"} \/ q \in late'
  BY <1>1, <1>3 DEF MediaInv, Media!MediaTypeOK
<1>8. \A i \in 1..Len(mediaQueue') : mediaRequest'[mediaQueue'[i]].step # "new"
  <2>. SUFFICES ASSUME NEW i \in 1..Len(mediaQueue') PROVE mediaRequest'[mediaQueue'[i]].step # "new"
    OBVIOUS
  <2>1. CASE mediaQueue'[i] = r
    BY <1>3, <2>1
  <2>2. CASE mediaQueue'[i] # r
    <3>1. PICK j \in 1..Len(mediaQueue) : mediaQueue'[i] = mediaQueue[j]
      BY <1>1, <2>2, MediaQueue
    <3>2. mediaQueue[j] \in Requests /\ mediaRequest[mediaQueue[j]].step # "new"
      BY <3>1 DEF MediaInv, Media!MediaTypeOK
    <3>. QED  BY <1>3, <2>2, <3>1, <3>2
  <2>. QED  BY <2>1, <2>2
<1>9. \A q \in late' \cup leaked' : mediaRequest'[q].step = "over"
  BY <1>1, <1>3 DEF MediaInv, Media!MediaTypeOK
<1>10. slots' + Cardinality(SlotHolders') = StitchSlots
  <2>1. /\ SlotHolders \in SUBSET Requests /\ r \notin SlotHolders
        /\ SlotHolders' = IF k = "stitch" THEN SlotHolders \cup {r} ELSE SlotHolders
    BY <1>1, <1>3 DEF SlotHolders, MediaInv, Media!MediaTypeOK
  <2>2. /\ Cardinality(SlotHolders) \in Nat
        /\ k = "stitch" => Cardinality(SlotHolders') = Cardinality(SlotHolders) + 1
        /\ k # "stitch" => Cardinality(SlotHolders') = Cardinality(SlotHolders)
    BY <2>1, MediaCounts
  <2>3. slots \in Nat /\ slots + Cardinality(SlotHolders) = StitchSlots
    BY DEF MediaInv, Media!MediaTypeOK
  <2>. QED  BY <2>2, <2>3
<1>. QED  BY <1>6, <1>7, <1>8, <1>9, <1>10 DEF MediaInv

\* A stitch is refused, or has a slot that it does not give back.
LEMMA MediaRefuses ==
    ASSUME MediaInv, NEW r \in Requests, Media!At(r, "new"), Media!Goes(r, "over"),
           UNCHANGED <<mediaQueue, running, waited, result, files, late>>,
           \/ UNCHANGED <<slots, leaked>>
           \/ slots > 0 /\ slots' = slots - 1 /\ leaked' = leaked \cup {r}
    PROVE  MediaInv'
<1>. Media!MediaTypeOK
  BY DEF MediaInv
<1>1. mediaRequest[r].step = "new"
  BY DEF Media!At
<1>2. /\ mediaRequest' \in [Requests -> Media!RequestStates]
      /\ mediaRequest'[r].step = "over"
      /\ \A q \in Requests : q # r => mediaRequest'[q] = mediaRequest[q]
  BY MediaGoes
<1>3. slots' \in 0..StitchSlots /\ leaked' \subseteq Requests
  BY MediaAssumption DEF Media!MediaTypeOK
<1>4. Media!MediaTypeOK'
  BY <1>2, <1>3, MediaCardinality DEF Media!MediaTypeOK
<1>5. \A q \in files' : mediaRequest'[q].step \in {"wait", "send"} \/ q \in late'
  BY <1>1, <1>2 DEF MediaInv, Media!MediaTypeOK
<1>6. \A i \in 1..Len(mediaQueue') : mediaRequest'[mediaQueue'[i]].step # "new"
  <2>1. \A i \in 1..Len(mediaQueue) : mediaQueue[i] \in Requests
    BY DEF Media!MediaTypeOK
  <2>. QED  BY <1>2, <2>1 DEF MediaInv
<1>7. \A q \in late' \cup leaked' : mediaRequest'[q].step = "over"
  BY <1>1, <1>2 DEF MediaInv, Media!MediaTypeOK
<1>8. slots' + Cardinality(SlotHolders') = StitchSlots
  <2>1. /\ SlotHolders \in SUBSET Requests /\ r \notin SlotHolders
        /\ SlotHolders' = IF leaked' = leaked THEN SlotHolders ELSE SlotHolders \cup {r}
    BY <1>1, <1>2 DEF SlotHolders, MediaInv, Media!MediaTypeOK
  <2>2. r \notin leaked
    BY <1>1 DEF MediaInv
  <2>3. /\ Cardinality(SlotHolders) \in Nat
        /\ Cardinality(SlotHolders \cup {r}) = Cardinality(SlotHolders) + 1
    BY <2>1, MediaCounts
  <2>4. slots \in Nat /\ slots + Cardinality(SlotHolders) = StitchSlots
    BY DEF MediaInv, Media!MediaTypeOK
  <2>. QED  BY <2>1, <2>2, <2>3, <2>4
<1>. QED  BY <1>4, <1>5, <1>6, <1>7, <1>8 DEF MediaInv

\* A request that waited goes on and gives its slot back, without its file when it is over.
LEMMA MediaReturns ==
    ASSUME MediaInv, NEW r \in Requests, NEW s \in {"send", "over"}, Media!At(r, "wait"), Media!Goes(r, s),
           slots' = Media!Released(r), files' = (IF s = "over" THEN files \ {r} ELSE files),
           UNCHANGED <<mediaQueue, running, waited, result, late, leaked>>
    PROVE  MediaInv'
<1>. Media!MediaTypeOK
  BY DEF MediaInv
<1>1. mediaRequest[r].step = "wait"
  BY DEF Media!At
<1>2. /\ mediaRequest' \in [Requests -> Media!RequestStates]
      /\ mediaRequest'[r].step = s
      /\ \A q \in Requests : q # r => mediaRequest'[q] = mediaRequest[q]
  BY MediaGoes
<1>3. \A q \in files' : mediaRequest'[q].step \in {"wait", "send"} \/ q \in late'
  BY <1>1, <1>2 DEF MediaInv, Media!MediaTypeOK
<1>4. \A i \in 1..Len(mediaQueue') : mediaRequest'[mediaQueue'[i]].step # "new"
  <2>1. \A i \in 1..Len(mediaQueue) : mediaQueue[i] \in Requests
    BY DEF Media!MediaTypeOK
  <2>. QED  BY <1>2, <2>1 DEF MediaInv
<1>5. \A q \in late' \cup leaked' : mediaRequest'[q].step = "over"
  BY <1>1, <1>2 DEF MediaInv, Media!MediaTypeOK
<1>6. /\ SlotHolders \in SUBSET Requests
      /\ r \in SlotHolders <=> mediaRequest[r].kind = "stitch"
      /\ SlotHolders' = SlotHolders \ {r}
  <2>1. mediaRequest[r] \in Media!RequestStates /\ r \notin leaked
    BY <1>1 DEF MediaInv, Media!MediaTypeOK
  <2>2. mediaRequest[r] = [kind |-> "stitch", step |-> "wait"] <=> mediaRequest[r].kind = "stitch"
    BY <1>1, <2>1 DEF Media!RequestStates
  <2>3. mediaRequest'[r] # [kind |-> "stitch", step |-> "wait"]
    BY <1>2
  <2>. QED  BY <1>2, <2>1, <2>2, <2>3 DEF SlotHolders, Media!MediaTypeOK
<1>7. slots' + Cardinality(SlotHolders') = StitchSlots
  <2>1. /\ Cardinality(SlotHolders) \in Nat
        /\ r \in SlotHolders => Cardinality(SlotHolders') = Cardinality(SlotHolders) - 1
        /\ r \notin SlotHolders => SlotHolders' = SlotHolders
    BY <1>6, MediaCounts
  <2>2. slots \in Nat /\ slots + Cardinality(SlotHolders) = StitchSlots
    BY DEF MediaInv, Media!MediaTypeOK
  <2>3. CASE r \in SlotHolders
    <3>1. slots' = slots + 1 /\ Cardinality(SlotHolders') = Cardinality(SlotHolders) - 1
      BY <1>6, <2>1, <2>3 DEF Media!Released
    <3>. QED  BY <2>1, <2>2, <3>1
  <2>4. CASE r \notin SlotHolders
    <3>1. slots' = slots /\ Cardinality(SlotHolders') = Cardinality(SlotHolders)
      BY <1>6, <2>1, <2>4 DEF Media!Released
    <3>. QED  BY <2>2, <3>1
  <2>. QED  BY <2>3, <2>4
<1>8. slots' \in 0..StitchSlots
  <2>1. Cardinality(SlotHolders') \in Nat
    BY <1>6, MediaCounts
  <2>2. slots' \in Nat
    BY DEF Media!Released, Media!MediaTypeOK
  <2>. QED  BY <1>7, <2>1, <2>2, MediaAssumption
<1>9. Media!MediaTypeOK'
  BY <1>2, <1>8, MediaCardinality DEF Media!MediaTypeOK
<1>. QED  BY <1>3, <1>4, <1>5, <1>7, <1>9 DEF MediaInv

\* The answer has been sent.
LEMMA MediaSent == ASSUME MediaInv, NEW r \in Requests, Media!Sent(r) PROVE MediaInv'
<1>. Media!MediaTypeOK
  BY DEF MediaInv
<1>1. /\ mediaRequest[r].step = "send" /\ Media!Goes(r, "over") /\ files' = files \ {r}
      /\ UNCHANGED <<mediaQueue, running, waited, result, slots, late, leaked>>
  BY DEF Media!Sent, Media!At
<1>2. /\ mediaRequest' \in [Requests -> Media!RequestStates]
      /\ mediaRequest'[r].step = "over"
      /\ \A q \in Requests : q # r => mediaRequest'[q] = mediaRequest[q]
  BY <1>1, MediaGoes
<1>3. Media!MediaTypeOK'
  BY <1>1, <1>2, MediaCardinality DEF Media!MediaTypeOK
<1>4. \A q \in files' : mediaRequest'[q].step \in {"wait", "send"} \/ q \in late'
  BY <1>1, <1>2 DEF MediaInv, Media!MediaTypeOK
<1>5. \A i \in 1..Len(mediaQueue') : mediaRequest'[mediaQueue'[i]].step # "new"
  <2>1. \A i \in 1..Len(mediaQueue) : mediaQueue[i] \in Requests
    BY DEF Media!MediaTypeOK
  <2>. QED  BY <1>1, <1>2, <2>1 DEF MediaInv
<1>6. \A q \in late' \cup leaked' : mediaRequest'[q].step = "over"
  BY <1>1, <1>2 DEF MediaInv, Media!MediaTypeOK
<1>7. SlotHolders' = SlotHolders
  BY <1>1, <1>2 DEF SlotHolders
<1>. QED  BY <1>1, <1>3, <1>4, <1>5, <1>6, <1>7 DEF MediaInv

\* A job begins and one ends.
LEMMA MediaJobsRun ==
    ASSUME MediaInv, Media!Begin \/ \E r \in Requests : Media!Finish(r) PROVE MediaInv'
<1>. Media!MediaTypeOK
  BY DEF MediaInv
<1>1. UNCHANGED <<mediaRequest, waited, slots, leaked>>
  BY DEF Media!Begin, Media!Finish
<1>2. SlotHolders' = SlotHolders
  BY <1>1 DEF SlotHolders
<1>3. running \in SUBSET Requests /\ Cardinality(running) <= Workers
  BY MediaCardinality DEF Media!MediaTypeOK
<1>4. CASE Media!Begin
  <2>. DEFINE r == Head(mediaQueue)
  <2>1. /\ mediaQueue # <<>> /\ Cardinality(running) < Workers /\ running' = running \cup {r}
        /\ files' = files \cup {r} /\ mediaQueue' = Tail(mediaQueue) /\ UNCHANGED result
        /\ late' = IF mediaRequest[r].step = "over" THEN late \cup {r} ELSE late
    BY <1>4, MediaCardinality DEF Media!Begin, Media!GaveUp, Media!At
  <2>. HIDE DEF r
  <2>2. /\ r \in Requests /\ mediaQueue' \in Seq(Requests)
        /\ \E j \in 1..Len(mediaQueue) : r = mediaQueue[j]
        /\ \A i \in 1..Len(mediaQueue') : \E j \in 1..Len(mediaQueue) : mediaQueue'[i] = mediaQueue[j]
    <3>1. \E q \in Requests : TRUE
      BY <2>1 DEF Media!MediaTypeOK
    <3>. QED  BY <2>1, <3>1, MediaQueue DEF r
  <2>3. Cardinality(running') <= Workers
    <3>1. CASE r \in running
      <4>1. running' = running
        BY <2>1, <3>1
      <4>. QED  BY <1>3, <4>1
    <3>2. CASE r \notin running
      <4>1. Cardinality(running') = Cardinality(running) + 1 /\ Cardinality(running) \in Nat
        BY <1>3, <2>1, <2>2, <3>2, MediaCounts
      <4>. QED  BY <2>1, <4>1, MediaAssumption
    <3>. QED  BY <3>1, <3>2
  <2>4. Media!MediaTypeOK'
    BY <1>1, <2>1, <2>2, <2>3, MediaCardinality DEF Media!MediaTypeOK
  <2>5. mediaRequest[r].step # "new"
    BY <2>2 DEF MediaInv
  <2>6. mediaRequest[r].step \in {"wait", "send", "over"}
    BY <2>2, <2>5 DEF Media!MediaTypeOK, Media!RequestStates
  <2>7. \A q \in files' : mediaRequest'[q].step \in {"wait", "send"} \/ q \in late'
    BY <1>1, <2>1, <2>6 DEF MediaInv
  <2>8. \A i \in 1..Len(mediaQueue') : mediaRequest'[mediaQueue'[i]].step # "new"
    BY <1>1, <2>2 DEF MediaInv
  <2>9. \A q \in late' \cup leaked' : mediaRequest'[q].step = "over"
    BY <1>1, <2>1 DEF MediaInv
  <2>. QED  BY <1>1, <1>2, <2>4, <2>7, <2>8, <2>9 DEF MediaInv
<1>5. ASSUME NEW r \in Requests, Media!Finish(r) PROVE MediaInv'
  <2>1. PICK o \in Media!Outcomes :
          /\ r \in running /\ running' = running \ {r} /\ files' \in {files, files \ {r}}
          /\ result' = [result EXCEPT ![r] = o] /\ UNCHANGED <<mediaQueue, late>>
    BY <1>5 DEF Media!Finish
  <2>2. Cardinality(running') <= Workers
    <3>1. Cardinality(running') = Cardinality(running) - 1 /\ Cardinality(running) \in Nat
      BY <1>3, <2>1, MediaCounts
    <3>. QED  BY <1>3, <3>1, MediaAssumption
  <2>3. Media!MediaTypeOK'
    BY <1>1, <2>1, <2>2, MediaCardinality DEF Media!MediaTypeOK
  <2>. QED  BY <1>1, <1>2, <2>1, <2>3 DEF MediaInv
<1>. QED  BY <1>4, <1>5

LEMMA MediaInvStep == ASSUME MediaInv, Media!MediaNext PROVE MediaInv'
<1>1. ASSUME NEW r \in Requests, Media!Asks(r) PROVE MediaInv'
  <2>1. CASE Media!AskRemux(r)
    BY <2>1, MediaSubmits DEF Media!AskRemux
  <2>2. CASE Media!AskStitch(r)
    <3>1. CASE slots = 0
      BY <2>2, <3>1, MediaRefuses DEF Media!AskStitch
    <3>2. CASE slots # 0
      <4>1. slots > 0
        BY <3>2 DEF MediaInv, Media!MediaTypeOK
      <4>2. CASE Media!Submit(r, "stitch") /\ UNCHANGED leaked
        BY <2>2, <3>2, <4>1, <4>2, MediaSubmits DEF Media!AskStitch
      <4>3. CASE ~(Media!Submit(r, "stitch") /\ UNCHANGED leaked)
        BY <2>2, <3>2, <4>1, <4>3, MediaRefuses DEF Media!AskStitch
      <4>. QED  BY <4>2, <4>3
    <3>. QED  BY <3>1, <3>2
  <2>3. CASE Media!Answer(r)
    BY <2>3, MediaReturns DEF Media!Answer
  <2>4. CASE Media!Refuse(r) \/ Media!GiveUp(r)
    BY <2>4, MediaReturns DEF Media!Refuse, Media!GiveUp, Media!Unlinked
  <2>. QED  BY <1>1, <2>1, <2>2, <2>3, <2>4, MediaSent DEF Media!Asks
<1>. QED  BY <1>1, MediaJobsRun DEF Media!MediaNext

LEMMA MediaInvSafe == ASSUME MediaInv PROVE Media!TmpFilesGo
<1>1. SUFFICES ASSUME \A r \in Requests : mediaRequest[r].step \in {"new", "over"}
               PROVE  files \subseteq late /\ slots + Cardinality(leaked) = StitchSlots
  BY MediaCardinality DEF Media!TmpFilesGo
<1>2. SlotHolders = leaked /\ files \subseteq Requests
  BY <1>1 DEF SlotHolders, MediaInv, Media!MediaTypeOK
<1>. QED  BY <1>1, <1>2 DEF MediaInv

LEMMA MediaInvStays == ASSUME MediaInv, UNCHANGED mediaVars PROVE MediaInv'
BY DEF mediaVars, MediaInv, Media!MediaTypeOK, SlotHolders

------------------------------------------------------------------------------
(* BatchDownload: what is written is what is counted.                       *)

\* A chunk is admitted before it is written, and what has come whole is in the directory.
BatchInv ==
    /\ Batch!BatchTypeOK /\ used <= Total
    /\ IsFiniteSet(Batch!Blocks)
    /\ Cardinality(Batch!Blocks) + Cardinality({f \in Files : fetch[f] = "write"}) = used
    /\ \A f \in Files :
         /\ fetch[f] = "read" => wrote[f] = counted[f]
         /\ fetch[f] \in {"admit", "write"} => wrote[f] + 1 = counted[f]
         /\ fetch[f] = "fetched" => wrote[f] = Sizes[f]
    /\ \A f \in sent : fetch[f] = "fetched"
    /\ IF zip = "over" THEN zipDir = dropped ELSE zipDir /\ ~dropped
    /\ zip # "fetching" => \A f \in Files : fetch[f] \in {"fetched", "refused"}

LEMMA BatchCardinality == ASSUME NEW S PROVE Cardinality(S) = Batch!Cardinality(S)
BY DEF Batch!Cardinality, Cardinality

\* Some of the files, one more and one fewer.
LEMMA FilesCounted ==
    ASSUME NEW S \in SUBSET Files
    PROVE  /\ Cardinality(S) \in Nat
           /\ \A f \in Files : f \notin S => Cardinality(S \cup {f}) = Cardinality(S) + 1
           /\ \A f \in S : Cardinality(S \ {f}) = Cardinality(S) - 1
<1>1. IsFiniteSet(S)
  BY BatchAssumption, FS_Subset
<1>. QED  BY <1>1, FS_CardinalityType, FS_AddElement, FS_RemoveElement

LEMMA BatchInvInit == ASSUME Batch!BatchInit PROVE BatchInv
<1>1. /\ fetch = [f \in Files |-> "read"] /\ wrote = [f \in Files |-> 0] /\ counted = [f \in Files |-> 0]
      /\ used = 0 /\ zip = "fetching" /\ zipDir = TRUE /\ sent = {} /\ dropped = FALSE
  BY DEF Batch!BatchInit
<1>2. Batch!BatchTypeOK
  BY <1>1 DEF Batch!BatchTypeOK
<1>3. Batch!Blocks = {}
  BY <1>1 DEF Batch!Blocks
<1>4. {f \in Files : fetch[f] = "write"} = {}
  BY <1>1
<1>5. IsFiniteSet(Batch!Blocks) /\ Cardinality(Batch!Blocks) + Cardinality({f \in Files : fetch[f] = "write"}) = used
  BY <1>1, <1>3, <1>4, FS_EmptySet
<1>. QED  BY <1>1, <1>2, <1>5, BatchAssumption DEF BatchInv

\* A worker moves, the others stay.
LEMMA BatchGoes ==
    ASSUME Batch!BatchTypeOK, NEW f \in Files,
           NEW s \in {"read", "admit", "write", "fetched", "refused"}, Batch!Goes(f, s)
    PROVE  /\ fetch' \in [Files -> {"read", "admit", "write", "fetched", "refused"}]
           /\ fetch'[f] = s /\ \A g \in Files : g # f => fetch'[g] = fetch[g]
BY DEF Batch!BatchTypeOK, Batch!Goes

\* Steps that write no chunk.
LEMMA BatchFetches ==
    ASSUME BatchInv, NEW f \in Files, Batch!Read(f) \/ Batch!Admit(f) \/ Batch!Fetched(f)
    PROVE  BatchInv'
<1>. Batch!BatchTypeOK
  BY DEF BatchInv
<1>. DEFINE Writing == {g \in Files : fetch[g] = "write"}
<1>1. UNCHANGED <<wrote, zip, zipDir, sent, dropped>> /\ fetch[f] \in {"read", "admit"}
  BY DEF Batch!Read, Batch!Admit, Batch!Fetched
<1>2. PICK s \in {"admit", "write", "fetched", "refused"} :
        /\ Batch!Goes(f, s)
        /\ s = "admit" => fetch[f] = "read" /\ counted' = [counted EXCEPT ![f] = counted[f] + 1]
        /\ s = "write" => fetch[f] = "admit" /\ used + 1 <= Total /\ used' = used + 1
        /\ s # "write" => UNCHANGED used
        /\ s = "fetched" => fetch[f] = "read" /\ counted[f] = Sizes[f]
        /\ counted' \in {counted, [counted EXCEPT ![f] = counted[f] + 1]}
        /\ s # "admit" /\ s # "refused" => UNCHANGED counted
  BY DEF Batch!Read, Batch!Admit, Batch!Fetched, Batch!Fits
<1>3. /\ fetch' \in [Files -> {"read", "admit", "write", "fetched", "refused"}]
      /\ fetch'[f] = s /\ \A g \in Files : g # f => fetch'[g] = fetch[g]
  BY <1>2, BatchGoes
<1>4. /\ counted' \in [Files -> Nat] /\ \A g \in Files : g # f => counted'[g] = counted[g]
      /\ s = "admit" => counted'[f] = counted[f] + 1
      /\ s = "write" => counted'[f] = counted[f]
  BY <1>2 DEF Batch!BatchTypeOK
<1>5. used' \in Nat /\ used' <= Total
  BY <1>2, BatchAssumption DEF BatchInv, Batch!BatchTypeOK
<1>6. Batch!BatchTypeOK'
  BY <1>1, <1>3, <1>4, <1>5 DEF Batch!BatchTypeOK
<1>7. Batch!Blocks' = Batch!Blocks
  BY <1>1 DEF Batch!Blocks
<1>8. Cardinality(Batch!Blocks') + Cardinality(Writing') = used'
  <2>1. /\ Writing \in SUBSET Files /\ f \notin Writing
        /\ Writing' = IF s = "write" THEN Writing \cup {f} ELSE Writing
    BY <1>1, <1>3
  <2>2. Cardinality(Batch!Blocks) \in Nat /\ Cardinality(Batch!Blocks) + Cardinality(Writing) = used
    BY FS_CardinalityType DEF BatchInv
  <2>3. /\ Cardinality(Writing) \in Nat
        /\ Cardinality(Writing') = IF s = "write" THEN Cardinality(Writing) + 1 ELSE Cardinality(Writing)
    BY <2>1, FilesCounted
  <2>. HIDE DEF Writing
  <2>. QED  BY <1>2, <1>7, <2>2, <2>3
<1>9. \A g \in Files :
         /\ fetch'[g] = "read" => wrote'[g] = counted'[g]
         /\ fetch'[g] \in {"admit", "write"} => wrote'[g] + 1 = counted'[g]
         /\ fetch'[g] = "fetched" => wrote'[g] = Sizes[g]
  BY <1>1, <1>2, <1>3, <1>4 DEF BatchInv
<1>10. /\ \A g \in sent' : fetch'[g] = "fetched"
       /\ zip' # "fetching" => \A g \in Files : fetch'[g] \in {"fetched", "refused"}
  <2>1. zip = "fetching"
    BY <1>1 DEF BatchInv
  <2>2. \A g \in sent : g # f
    BY <1>1 DEF BatchInv
  <2>. QED  BY <1>1, <1>3, <2>1, <2>2 DEF BatchInv, Batch!BatchTypeOK
<1>. QED  BY <1>1, <1>5, <1>6, <1>7, <1>8, <1>9, <1>10 DEF BatchInv

\* A chunk is written.
LEMMA BatchWrites == ASSUME BatchInv, NEW f \in Files, Batch!Write(f) PROVE BatchInv'
<1>. Batch!BatchTypeOK
  BY DEF BatchInv
<1>. DEFINE Writing == {g \in Files : fetch[g] = "write"}
            block == <<f, wrote[f] + 1>>
<1>1. /\ fetch[f] = "write" /\ wrote' = [wrote EXCEPT ![f] = wrote[f] + 1] /\ Batch!Goes(f, "read")
      /\ UNCHANGED <<counted, used, zip, zipDir, sent, dropped>>
  BY DEF Batch!Write
<1>2. /\ fetch' \in [Files -> {"read", "admit", "write", "fetched", "refused"}]
      /\ fetch'[f] = "read" /\ \A g \in Files : g # f => fetch'[g] = fetch[g]
  BY <1>1, BatchGoes
<1>3. /\ wrote' \in [Files -> Nat] /\ wrote'[f] = wrote[f] + 1 /\ wrote[f] \in Nat
      /\ \A g \in Files : g # f => wrote'[g] = wrote[g]
  BY <1>1 DEF Batch!BatchTypeOK
<1>4. Batch!BatchTypeOK'
  BY <1>1, <1>2, <1>3 DEF Batch!BatchTypeOK
<1>5. Batch!Blocks' = Batch!Blocks \cup {block} /\ block \notin Batch!Blocks
  <2>1. 1..(wrote[f] + 1) = (1..wrote[f]) \cup {wrote[f] + 1}
    BY <1>3
  <2>2. {f} \X (1..(wrote[f] + 1)) = ({f} \X (1..wrote[f])) \cup {block}
    BY <2>1
  <2>3. \A x : x \in Batch!Blocks' <=> \E g \in Files : x \in {g} \X (1..wrote'[g])
    BY DEF Batch!Blocks
  <2>4. \A x : x \in Batch!Blocks <=> \E g \in Files : x \in {g} \X (1..wrote[g])
    BY DEF Batch!Blocks
  <2>5. \A g \in Files : g # f => {g} \X (1..wrote'[g]) = {g} \X (1..wrote[g])
    BY <1>3
  <2>6. {f} \X (1..wrote'[f]) = ({f} \X (1..wrote[f])) \cup {block}
    BY <1>3, <2>2
  <2>7. block \notin Batch!Blocks
    <3>1. ASSUME NEW g \in Files, block \in {g} \X (1..wrote[g]) PROVE FALSE
      <4>1. g = f /\ wrote[f] + 1 \in 1..wrote[f]
        BY <3>1
      <4>. QED  BY <1>3, <4>1
    <3>. QED  BY <2>4, <3>1
  <2>8. \A x : x \in Batch!Blocks' <=> x \in Batch!Blocks \/ x = block
    <3>. HIDE DEF block
    <3>1. ASSUME NEW x, x \in Batch!Blocks' PROVE x \in Batch!Blocks \/ x = block
      <4>1. PICK g \in Files : x \in {g} \X (1..wrote'[g])
        BY <2>3, <3>1
      <4>2. CASE g = f
        BY <2>4, <2>6, <4>1, <4>2
      <4>3. CASE g # f
        BY <2>4, <2>5, <4>1, <4>3
      <4>. QED  BY <4>2, <4>3
    <3>2. ASSUME NEW x, x \in Batch!Blocks PROVE x \in Batch!Blocks'
      <4>1. PICK g \in Files : x \in {g} \X (1..wrote[g])
        BY <2>4, <3>2
      <4>2. x \in {g} \X (1..wrote'[g])
        BY <2>5, <2>6, <4>1
      <4>. QED  BY <2>3, <4>2
    <3>3. block \in Batch!Blocks'
      BY <2>3, <2>6
    <3>. QED  BY <3>1, <3>2, <3>3
  <2>. HIDE DEF block
  <2>. QED  BY <2>7, <2>8
<1>. HIDE DEF block
<1>6. /\ IsFiniteSet(Batch!Blocks') /\ Cardinality(Batch!Blocks') = Cardinality(Batch!Blocks) + 1
      /\ Cardinality(Batch!Blocks) \in Nat
  <2>1. IsFiniteSet(Batch!Blocks)
    BY DEF BatchInv
  <2>. QED  BY <1>5, <2>1, FS_AddElement, FS_CardinalityType
<1>7. Cardinality(Batch!Blocks') + Cardinality(Writing') = used'
  <2>1. Writing \in SUBSET Files /\ f \in Writing /\ Writing' = Writing \ {f}
    BY <1>1, <1>2
  <2>2. Cardinality(Batch!Blocks) + Cardinality(Writing) = used
    BY DEF BatchInv
  <2>3. Cardinality(Writing) \in Nat /\ Cardinality(Writing') = Cardinality(Writing) - 1
    BY <2>1, FilesCounted
  <2>. HIDE DEF Writing
  <2>. QED  BY <1>1, <1>6, <2>2, <2>3
<1>8. \A g \in Files :
         /\ fetch'[g] = "read" => wrote'[g] = counted'[g]
         /\ fetch'[g] \in {"admit", "write"} => wrote'[g] + 1 = counted'[g]
         /\ fetch'[g] = "fetched" => wrote'[g] = Sizes[g]
  BY <1>1, <1>2, <1>3 DEF BatchInv
<1>9. /\ \A g \in sent' : fetch'[g] = "fetched"
      /\ zip' # "fetching" => \A g \in Files : fetch'[g] \in {"fetched", "refused"}
  <2>1. zip = "fetching"
    BY <1>1 DEF BatchInv
  <2>2. \A g \in sent : g # f
    BY <1>1 DEF BatchInv
  <2>. QED  BY <1>1, <1>2, <2>1, <2>2 DEF BatchInv, Batch!BatchTypeOK
<1>. QED  BY <1>1, <1>4, <1>6, <1>7, <1>8, <1>9 DEF BatchInv

\* The response: the ZIP is sent, ends or is dropped.
LEMMA BatchZips ==
    ASSUME BatchInv, Batch!Respond \/ Batch!Zip \/ Batch!ZipEnds \/ Batch!Dropped PROVE BatchInv'
<1>. Batch!BatchTypeOK
  BY DEF BatchInv
<1>1. UNCHANGED <<fetch, wrote, counted, used>>
  BY DEF Batch!Respond, Batch!Zip, Batch!ZipEnds, Batch!Dropped
<1>2. Batch!Blocks' = Batch!Blocks
  BY <1>1 DEF Batch!Blocks
<1>3. /\ zip' \in {"stream", "zipping", "over"} /\ zipDir' \in BOOLEAN /\ dropped' \in BOOLEAN
      /\ sent' \subseteq Files /\ \A f \in sent' : fetch[f] = "fetched"
  BY DEF Batch!Respond, Batch!Zip, Batch!ZipEnds, Batch!Dropped, Batch!Entries, BatchInv, Batch!BatchTypeOK
<1>4. Batch!BatchTypeOK'
  BY <1>1, <1>3 DEF Batch!BatchTypeOK
<1>5. IF zip' = "over" THEN zipDir' = dropped' ELSE zipDir' /\ ~dropped'
  <2>1. zip # "over" /\ zipDir = TRUE /\ dropped = FALSE
    <3>1. zip # "over"
      BY DEF Batch!Respond, Batch!Zip, Batch!ZipEnds, Batch!Dropped
    <3>. QED  BY <3>1 DEF BatchInv, Batch!BatchTypeOK
  <2>2. \/ zip' # "over" /\ UNCHANGED <<zipDir, dropped>>
        \/ zip' = "over" /\ zipDir' = FALSE /\ UNCHANGED dropped
        \/ zip' = "over" /\ UNCHANGED zipDir /\ dropped' = TRUE
    BY DEF Batch!Respond, Batch!Zip, Batch!ZipEnds, Batch!Dropped
  <2>. QED  BY <2>1, <2>2
<1>6. \A f \in Files : fetch'[f] \in {"fetched", "refused"}
  BY <1>1 DEF Batch!Respond, Batch!Zip, Batch!ZipEnds, Batch!Dropped, BatchInv
<1>. QED  BY <1>1, <1>2, <1>3, <1>4, <1>5, <1>6 DEF BatchInv

LEMMA BatchInvStep == ASSUME BatchInv, Batch!BatchNext PROVE BatchInv'
BY BatchFetches, BatchWrites, BatchZips DEF Batch!BatchNext

LEMMA BatchInvSafe == ASSUME BatchInv PROVE Batch!BatchIsBounded
<1>1. Cardinality(Batch!Blocks) <= Total
  <2>1. /\ Cardinality(Batch!Blocks) \in Nat /\ used <= Total /\ used \in Nat
        /\ Cardinality(Batch!Blocks) + Cardinality({f \in Files : fetch[f] = "write"}) = used
    BY FS_CardinalityType DEF BatchInv, Batch!BatchTypeOK
  <2>2. Cardinality({f \in Files : fetch[f] = "write"}) \in Nat
    BY FilesCounted
  <2>. QED  BY <2>1, <2>2, BatchAssumption
<1>2. (\A f \in sent : wrote[f] = Sizes[f]) /\ (zip = "over" => zipDir = dropped)
  BY DEF BatchInv, Batch!BatchTypeOK
<1>. QED  BY <1>1, <1>2, BatchCardinality DEF Batch!BatchIsBounded

LEMMA BatchInvStays == ASSUME BatchInv, UNCHANGED batchVars PROVE BatchInv'
BY DEF batchVars, BatchInv, Batch!BatchTypeOK, Batch!Blocks

------------------------------------------------------------------------------
(* RemuxCache: the room that each request has counted for its file.         *)

\* Counted[r]: the files of full size, its own included, that r has taken into account and
\* that are still to be promoted.  Their room is free when r has evicted its victims, and of
\* two requests one has counted what the other has.
RemuxRoom(Counted) ==
    \A r \in Requests : remuxRequest[r].step \in {"evict", "promote"} =>
      /\ r \in Counted[r] /\ Counted[r] \subseteq Remux!HalfDone
      /\ Cardinality(remuxes \ remuxRequest[r].victims) + Cardinality(Counted[r]) <= MaxBytes
      /\ \A q \in Requests : remuxRequest[q].step \in {"evict", "promote"} /\ q \notin Counted[r] =>
           Counted[r] \subseteq Counted[q]

RemuxInv ==
    /\ Remux!RemuxTypeOK
    /\ Cardinality(Remux!Holding) <= RemuxSlots
    /\ \A r \in Requests : /\ remuxRequest[r].step # "idle" => remuxRequest[r].clip \in Clips
                           /\ remuxRequest[r].step # "evict" => remuxRequest[r].victims = {}
    /\ RemuxSlots <= MaxBytes =>
         /\ Cardinality(remuxes) <= MaxBytes
         /\ \E Counted \in [Requests -> SUBSET Requests] : RemuxRoom(Counted)

LEMMA RemuxCardinality == ASSUME NEW S PROVE Remux!Cardinality(S) = Cardinality(S)
BY DEF Remux!Cardinality, Cardinality

\* Subsets of the clips and of the requests, compared.
LEMMA RemuxCounted ==
    ASSUME NEW S, S \in SUBSET Clips \/ S \in SUBSET Requests
    PROVE  /\ IsFiniteSet(S) /\ Cardinality(S) \in Nat
           /\ \A T \in SUBSET S : /\ Cardinality(T) \in Nat /\ Cardinality(T) <= Cardinality(S)
                                  /\ Cardinality(S \ T) = Cardinality(S) - Cardinality(T)
           /\ \A x \in S : Cardinality(S \ {x}) = Cardinality(S) - 1
           /\ \A x : Cardinality(S \cup {x}) <= Cardinality(S) + 1
<1>1. IsFiniteSet(S)
  BY RemuxAssumption, FS_Subset
<1>2. Cardinality(S) \in Nat
  BY <1>1, FS_CardinalityType
<1>3. ASSUME NEW T \in SUBSET S
      PROVE  /\ Cardinality(T) \in Nat /\ Cardinality(T) <= Cardinality(S)
             /\ Cardinality(S \ T) = Cardinality(S) - Cardinality(T)
  <2>1. IsFiniteSet(T) /\ Cardinality(T) <= Cardinality(S) /\ S \cap T = T
    BY <1>1, FS_Subset
  <2>2. Cardinality(S \ T) = Cardinality(S) - Cardinality(S \cap T)
    BY <1>1, FS_Difference
  <2>. QED  BY <2>1, <2>2, FS_CardinalityType
<1>4. \A x \in S : Cardinality(S \ {x}) = Cardinality(S) - 1
  BY <1>1, FS_RemoveElement
<1>5. ASSUME NEW x PROVE Cardinality(S \cup {x}) <= Cardinality(S) + 1
  <2>1. CASE x \in S
    <3>1. S \cup {x} = S
      BY <2>1
    <3>. QED  BY <1>2, <3>1
  <2>2. CASE x \notin S
    BY <1>1, <1>2, <2>2, FS_AddElement
  <2>. QED  BY <2>1, <2>2
<1>. QED  BY <1>1, <1>2, <1>3, <1>4, <1>5

LEMMA RemuxInvInit == ASSUME Remux!RemuxInit PROVE RemuxInv
<1>1. /\ remuxes = {} /\ older = {} /\ stale = {}
      /\ remuxRequest = [r \in Requests |-> [step |-> "idle", clip |-> "none", victims |-> {}]]
  BY DEF Remux!RemuxInit, Remux!Idle
<1>2. remuxRequest \in [Requests -> Remux!RequestStates]
  BY <1>1 DEF Remux!RequestStates
<1>3. Remux!RemuxTypeOK
  BY <1>1, <1>2 DEF Remux!RemuxTypeOK
<1>4. Remux!Holding = {}
  BY <1>1 DEF Remux!Holding, Remux!At
<1>5. Cardinality(Remux!Holding) <= RemuxSlots /\ Cardinality(remuxes) <= MaxBytes
  BY <1>1, <1>4, FS_EmptySet, RemuxAssumption
<1>6. RemuxRoom([r \in Requests |-> {}])
  BY <1>1 DEF RemuxRoom
<1>. QED  BY <1>1, <1>3, <1>5, <1>6 DEF RemuxInv

LEMMA RemuxMoves ==
    ASSUME Remux!RemuxTypeOK, NEW r \in Requests, NEW new \in Remux!RequestStates,
           remuxRequest' = [remuxRequest EXCEPT ![r] = new]
    PROVE  /\ remuxRequest' \in [Requests -> Remux!RequestStates]
           /\ remuxRequest'[r] = new
           /\ \A q \in Requests : q # r => remuxRequest'[q] = remuxRequest[q]
BY DEF Remux!RemuxTypeOK

\* The file used becomes the one used last.
LEMMA RemuxUsed ==
    ASSUME Remux!RemuxTypeOK, NEW c \in Clips, Remux!Used(c)
    PROVE  /\ remuxes' = remuxes \cup {c} /\ remuxes' \subseteq Clips
           /\ older' \subseteq remuxes' \X remuxes'
           /\ \A a, b \in remuxes' : a # b => (<<a, b>> \in older' <=> <<b, a>> \notin older')
<1>1. /\ remuxes' = remuxes \cup {c}
      /\ older' = {p \in older : p[1] # c} \cup ((remuxes \ {c}) \X {c})
  BY DEF Remux!Used
<1>2. \A a, b : <<a, b>> \in older' <=> (<<a, b>> \in older /\ a # c) \/ (a \in remuxes \ {c} /\ b = c)
  BY <1>1
<1>3. /\ remuxes \subseteq Clips /\ older \subseteq remuxes \X remuxes
      /\ \A a, b \in remuxes : a # b => (<<a, b>> \in older <=> <<b, a>> \notin older)
  BY DEF Remux!RemuxTypeOK
<1>4. ASSUME NEW a \in remuxes', NEW b \in remuxes', a # b PROVE <<a, b>> \in older' <=> <<b, a>> \notin older'
  <2>1. CASE a = c
    BY <1>1, <1>2, <1>4, <2>1
  <2>2. CASE b = c
    BY <1>1, <1>2, <1>4, <2>2
  <2>3. CASE a # c /\ b # c
    BY <1>1, <1>2, <1>3, <1>4, <2>3
  <2>. QED  BY <2>1, <2>2, <2>3
<1>5. older' \subseteq remuxes' \X remuxes'
  BY <1>1, <1>3
<1>. QED  BY <1>1, <1>3, <1>4, <1>5

\* A request that has no file yet moves, and takes a slot only when one is free.
LEMMA RemuxWaits ==
    ASSUME RemuxInv, NEW r \in Requests, NEW new \in Remux!RequestStates,
           remuxRequest' = [remuxRequest EXCEPT ![r] = new],
           remuxRequest[r].step \notin {"list", "evict", "promote"}, new.step \notin {"evict", "promote"},
           new.victims = {}, new.step # "idle" => new.clip \in Clips,
           new.step \in {"slot", "remux", "list"} =>
             remuxRequest[r].step \in {"slot", "remux"} \/ Cardinality(Remux!Holding) < RemuxSlots,
           remuxes' = remuxes, stale' \subseteq Clips, older' \subseteq remuxes' \X remuxes',
           \A a, b \in remuxes' : a # b => (<<a, b>> \in older' <=> <<b, a>> \notin older')
    PROVE  RemuxInv'
<1>. Remux!RemuxTypeOK
  BY DEF RemuxInv
<1>1. /\ remuxRequest' \in [Requests -> Remux!RequestStates]
      /\ remuxRequest'[r] = new
      /\ \A q \in Requests : q # r => remuxRequest'[q] = remuxRequest[q]
  BY RemuxMoves
<1>2. Remux!RemuxTypeOK'
  BY <1>1 DEF Remux!RemuxTypeOK
<1>3. Cardinality(Remux!Holding') <= RemuxSlots
  <2>1. Remux!Holding \in SUBSET Requests /\ Cardinality(Remux!Holding) <= RemuxSlots
    BY DEF RemuxInv, Remux!Holding
  <2>2. CASE Remux!Holding' \subseteq Remux!Holding
    <3>1. Cardinality(Remux!Holding') <= Cardinality(Remux!Holding)
      BY <2>1, <2>2, RemuxCounted
    <3>2. Cardinality(Remux!Holding') \in Nat /\ Cardinality(Remux!Holding) \in Nat
      BY <2>1, <2>2, RemuxCounted
    <3>. QED  BY <2>1, <3>1, <3>2, RemuxAssumption
  <2>3. CASE ~(Remux!Holding' \subseteq Remux!Holding)
    <3>1. r \notin Remux!Holding /\ r \in Remux!Holding'
      BY <1>1, <2>3 DEF Remux!Holding, Remux!At
    <3>2. Remux!Holding' = Remux!Holding \cup {r} /\ Cardinality(Remux!Holding) < RemuxSlots
      BY <1>1, <3>1 DEF Remux!Holding, Remux!At, Remux!RequestStates
    <3>3. Cardinality(Remux!Holding') <= Cardinality(Remux!Holding) + 1 /\ Cardinality(Remux!Holding) \in Nat
      BY <2>1, <3>2, RemuxCounted
    <3>4. Cardinality(Remux!Holding') \in Nat
      <4>1. Remux!Holding' \in SUBSET Requests
        BY <2>1, <3>2
      <4>. QED  BY <4>1, RemuxCounted
    <3>. QED  BY <3>2, <3>3, <3>4, RemuxAssumption
  <2>. QED  BY <2>2, <2>3
<1>4. \A q \in Requests : /\ remuxRequest'[q].step # "idle" => remuxRequest'[q].clip \in Clips
                          /\ remuxRequest'[q].step # "evict" => remuxRequest'[q].victims = {}
  BY <1>1 DEF RemuxInv
<1>5. ASSUME RemuxSlots <= MaxBytes
      PROVE  Cardinality(remuxes') <= MaxBytes /\ \E F \in [Requests -> SUBSET Requests] : RemuxRoom(F)'
  <2>1. PICK F \in [Requests -> SUBSET Requests] : RemuxRoom(F)
    BY <1>5 DEF RemuxInv
  <2>2. Remux!HalfDone \subseteq Remux!HalfDone'
    BY <1>1 DEF Remux!HalfDone, Remux!At
  <2>3. \A q \in Requests : remuxRequest'[q].step \in {"evict", "promote"} =>
            q # r /\ remuxRequest[q].step \in {"evict", "promote"} /\ remuxRequest'[q] = remuxRequest[q]
    BY <1>1
  <2>4. RemuxRoom(F)'
    BY <2>1, <2>2, <2>3 DEF RemuxRoom
  <2>. QED  BY <1>5, <2>1, <2>4 DEF RemuxInv
<1>. QED  BY <1>2, <1>3, <1>4, <1>5 DEF RemuxInv

\* The steps of a request until its file is whole, and a source that changes.
LEMMA RemuxRuns ==
    ASSUME RemuxInv, NEW r \in Requests,
           \/ \E c \in Clips : Remux!Ask(r, c)
           \/ Remux!Acquire(r) \/ Remux!Busy(r) \/ Remux!LookAgain(r) \/ Remux!Remux(r)
    PROVE  RemuxInv'
<1>. Remux!RemuxTypeOK
  BY DEF RemuxInv
<1>0. /\ remuxRequest[r] \in Remux!RequestStates /\ Remux!Idle \in Remux!RequestStates
      /\ Remux!Idle.step = "idle" /\ Remux!Idle.victims = {}
      /\ older \subseteq remuxes \X remuxes /\ stale \subseteq Clips
      /\ \A a, b \in remuxes : a # b => (<<a, b>> \in older <=> <<b, a>> \notin older)
      /\ remuxRequest[r].step # "idle" => remuxRequest[r].clip \in Clips
      /\ remuxRequest[r].step # "evict" => remuxRequest[r].victims = {}
  BY DEF RemuxInv, Remux!RemuxTypeOK, Remux!Idle, Remux!RequestStates
<1>1. UNCHANGED stale
  BY DEF Remux!Ask, Remux!Acquire, Remux!Busy, Remux!LookAgain, Remux!Remux
<1>2. ASSUME NEW c \in Remux!Fresh, Remux!Used(c)
      PROVE  /\ remuxes' = remuxes /\ older' \subseteq remuxes' \X remuxes'
             /\ \A a, b \in remuxes' : a # b => (<<a, b>> \in older' <=> <<b, a>> \notin older')
  <2>1. c \in Clips /\ c \in remuxes
    BY DEF Remux!Fresh, Remux!RemuxTypeOK
  <2>. QED  BY <1>2, <2>1, RemuxUsed
<1>3. ASSUME UNCHANGED <<remuxes, older>>
      PROVE  /\ remuxes' = remuxes /\ older' \subseteq remuxes' \X remuxes'
             /\ \A a, b \in remuxes' : a # b => (<<a, b>> \in older' <=> <<b, a>> \notin older')
  BY <1>0, <1>3
<1>4. ASSUME NEW c \in Clips, Remux!Ask(r, c) PROVE RemuxInv'
  <2>1. remuxRequest[r].step = "idle"
    BY <1>4 DEF Remux!Ask, Remux!At
  <2>2. CASE c \in Remux!Fresh
    <3>1. Remux!Used(c) /\ UNCHANGED remuxRequest
      BY <1>4, <2>2 DEF Remux!Ask
    <3>. DEFINE new == remuxRequest[r]
    <3>2. remuxRequest' = [remuxRequest EXCEPT ![r] = new]
      BY <3>1 DEF Remux!RemuxTypeOK
    <3>3. new \in Remux!RequestStates /\ new.step = "idle" /\ new.victims = {}
      BY <1>0, <2>1
    <3>. HIDE DEF new
    <3>. QED  BY <1>0, <1>1, <1>2, <2>1, <2>2, <3>1, <3>2, <3>3, RemuxWaits
  <2>3. CASE c \notin Remux!Fresh
    <3>. DEFINE new == [Remux!Idle EXCEPT !.step = "wait", !.clip = c]
    <3>1. remuxRequest' = [remuxRequest EXCEPT ![r] = new] /\ UNCHANGED <<remuxes, older>>
      BY <1>4, <2>3 DEF Remux!Ask
    <3>2. new \in Remux!RequestStates /\ new.step = "wait" /\ new.clip = c /\ new.victims = {}
      BY DEF Remux!Idle, Remux!RequestStates
    <3>. HIDE DEF new
    <3>. QED  BY <1>0, <1>1, <1>3, <2>1, <3>1, <3>2, RemuxWaits
  <2>. QED  BY <2>2, <2>3
<1>5. ASSUME NEW s \in {"slot", "remux", "list"}, Remux!Goto(r, s), UNCHANGED <<remuxes, older>>,
             remuxRequest[r].step \in {"wait", "slot", "remux"},
             remuxRequest[r].step # "wait" \/ Cardinality(Remux!Holding) < RemuxSlots
      PROVE  RemuxInv'
  <2>. DEFINE new == [remuxRequest[r] EXCEPT !.step = s]
  <2>1. /\ new \in Remux!RequestStates /\ new.step = s /\ new.clip = remuxRequest[r].clip
        /\ new.victims = remuxRequest[r].victims
    BY <1>0 DEF Remux!RequestStates
  <2>2. remuxRequest' = [remuxRequest EXCEPT ![r] = new]
    BY <1>5 DEF Remux!Goto
  <2>. HIDE DEF new
  <2>. QED  BY <1>0, <1>1, <1>3, <1>5, <2>1, <2>2, RemuxWaits
<1>6. ASSUME Remux!Ends(r), remuxRequest[r].step \in {"wait", "slot", "remux"},
             UNCHANGED <<remuxes, older>> \/ \E c \in Remux!Fresh : Remux!Used(c)
      PROVE  RemuxInv'
  <2>1. remuxRequest' = [remuxRequest EXCEPT ![r] = Remux!Idle]
    BY <1>6 DEF Remux!Ends
  <2>2. /\ remuxes' = remuxes /\ older' \subseteq remuxes' \X remuxes'
        /\ \A a, b \in remuxes' : a # b => (<<a, b>> \in older' <=> <<b, a>> \notin older')
    BY <1>2, <1>3, <1>6
  <2>. QED  BY <1>0, <1>1, <1>6, <2>1, <2>2, RemuxWaits
<1>7. CASE Remux!Acquire(r) \/ Remux!Busy(r)
  BY <1>5, <1>6, <1>7, RemuxCardinality DEF Remux!Acquire, Remux!Busy, Remux!At
<1>8. CASE Remux!LookAgain(r)
  BY <1>5, <1>6, <1>8 DEF Remux!LookAgain, Remux!At
<1>9. CASE Remux!Remux(r)
  BY <1>5, <1>6, <1>9 DEF Remux!Remux, Remux!At
<1>. QED  BY <1>4, <1>7, <1>8, <1>9

LEMMA RemuxSource == ASSUME RemuxInv, NEW c \in Clips, Remux!SourceChanges(c) PROVE RemuxInv'
<1>1. UNCHANGED <<remuxes, older, remuxRequest>> /\ stale' = stale \cup {c}
  BY DEF Remux!SourceChanges
<1>2. Remux!RemuxTypeOK'
  BY <1>1 DEF RemuxInv, Remux!RemuxTypeOK
<1>3. Remux!Holding' = Remux!Holding /\ Remux!HalfDone' = Remux!HalfDone
  BY <1>1 DEF Remux!Holding, Remux!HalfDone, Remux!At
<1>4. ASSUME NEW F, RemuxRoom(F) PROVE RemuxRoom(F)'
  BY <1>1, <1>3, <1>4 DEF RemuxRoom
<1>5. RemuxSlots <= MaxBytes => \E F \in [Requests -> SUBSET Requests] : RemuxRoom(F)'
  BY <1>4 DEF RemuxInv
<1>. QED  BY <1>1, <1>2, <1>3, <1>5 DEF RemuxInv

\* What a request that has its file may do: list its victims, evict them, promote its own.
\* Its slot stays until it ends.
LEMMA RemuxSlotsHeld ==
    ASSUME RemuxInv, NEW r \in Requests, NEW new \in Remux!RequestStates,
           remuxRequest' = [remuxRequest EXCEPT ![r] = new],
           remuxRequest[r].step \in {"list", "evict", "promote"}
    PROVE  Cardinality(Remux!Holding') <= RemuxSlots
<1>1. /\ remuxRequest'[r] = new
      /\ \A q \in Requests : q # r => remuxRequest'[q] = remuxRequest[q]
  BY RemuxMoves DEF RemuxInv
<1>2. /\ Remux!Holding \in SUBSET Requests /\ Cardinality(Remux!Holding) <= RemuxSlots
      /\ Remux!Holding' \in SUBSET Remux!Holding
  BY <1>1 DEF RemuxInv, Remux!Holding, Remux!At
<1>3. /\ Cardinality(Remux!Holding') <= Cardinality(Remux!Holding)
      /\ Cardinality(Remux!Holding') \in Nat /\ Cardinality(Remux!Holding) \in Nat
  BY <1>2, RemuxCounted
<1>. QED  BY <1>2, <1>3, RemuxAssumption

LEMMA RemuxLists == ASSUME RemuxInv, NEW r \in Requests, Remux!ListVictims(r) PROVE RemuxInv'
<1>. Remux!RemuxTypeOK
  BY DEF RemuxInv
<1>1. PICK oldest \in SUBSET remuxes :
        /\ Cardinality(oldest) = Remux!Excess
        /\ remuxRequest' = [remuxRequest EXCEPT ![r].step = "evict", ![r].victims = oldest]
  BY RemuxCardinality DEF Remux!ListVictims
<1>. DEFINE new == [remuxRequest[r] EXCEPT !.step = "evict", !.victims = oldest]
<1>2. remuxRequest[r].step = "list" /\ UNCHANGED <<remuxes, older, stale>>
  BY DEF Remux!ListVictims, Remux!At
<1>3. /\ new \in Remux!RequestStates /\ new.step = "evict" /\ new.victims = oldest
      /\ new.clip = remuxRequest[r].clip
  <2>1. oldest \in SUBSET Clips /\ remuxRequest[r] \in Remux!RequestStates
    BY DEF Remux!RemuxTypeOK
  <2>. QED  BY <2>1 DEF Remux!RequestStates
<1>4. remuxRequest' = [remuxRequest EXCEPT ![r] = new]
  BY <1>1
<1>. HIDE DEF new
<1>5. /\ remuxRequest' \in [Requests -> Remux!RequestStates]
      /\ remuxRequest'[r] = new
      /\ \A q \in Requests : q # r => remuxRequest'[q] = remuxRequest[q]
  BY <1>3, <1>4, RemuxMoves
<1>6. Remux!RemuxTypeOK'
  BY <1>2, <1>5 DEF Remux!RemuxTypeOK
<1>7. Cardinality(Remux!Holding') <= RemuxSlots
  BY <1>2, <1>3, <1>4, RemuxSlotsHeld
<1>8. \A q \in Requests : /\ remuxRequest'[q].step # "idle" => remuxRequest'[q].clip \in Clips
                          /\ remuxRequest'[q].step # "evict" => remuxRequest'[q].victims = {}
  BY <1>2, <1>3, <1>5 DEF RemuxInv
<1>9. Remux!HalfDone' = Remux!HalfDone /\ r \in Remux!HalfDone
  BY <1>2, <1>3, <1>5 DEF Remux!HalfDone, Remux!At
<1>10. ASSUME RemuxSlots <= MaxBytes
       PROVE  Cardinality(remuxes') <= MaxBytes /\ \E F \in [Requests -> SUBSET Requests] : RemuxRoom(F)'
  <2>1. PICK F \in [Requests -> SUBSET Requests] : RemuxRoom(F)
    BY <1>10 DEF RemuxInv
  <2>2. PICK G \in [Requests -> SUBSET Requests] :
          G[r] = Remux!HalfDone /\ \A q \in Requests : q # r => G[q] = F[q]
    <3>1. Remux!HalfDone \in SUBSET Requests
      BY DEF Remux!HalfDone
    <3>2. [F EXCEPT ![r] = Remux!HalfDone] \in [Requests -> SUBSET Requests]
      BY <3>1
    <3>. QED  BY <3>2
  <2>3. Cardinality(remuxes \ oldest) + Cardinality(Remux!HalfDone) <= MaxBytes
    <3>1. Remux!HalfDone \in SUBSET Remux!Holding /\ Remux!Holding \in SUBSET Requests /\ Remux!HalfDone \in SUBSET Requests
      BY DEF Remux!HalfDone, Remux!Holding, Remux!At
    <3>2. /\ Cardinality(Remux!HalfDone) <= Cardinality(Remux!Holding) /\ Cardinality(Remux!HalfDone) \in Nat
          /\ Cardinality(Remux!Holding) \in Nat /\ Cardinality(Remux!Holding) <= RemuxSlots
      BY <3>1, RemuxCounted DEF RemuxInv
    <3>3. Cardinality(Remux!HalfDone) <= MaxBytes
      BY <1>10, <3>2, RemuxAssumption
    <3>4. remuxes \in SUBSET Clips
      BY DEF Remux!RemuxTypeOK
    <3>5. /\ Cardinality(remuxes) \in Nat /\ Cardinality(oldest) \in Nat
          /\ Cardinality(remuxes \ oldest) = Cardinality(remuxes) - Cardinality(oldest)
      BY <3>4, RemuxCounted
    <3>. DEFINE e == Remux!TotalBytes - (MaxBytes - 1)
    <3>6. /\ Remux!Cardinality(remuxes) = Cardinality(remuxes)
          /\ Remux!Cardinality(Remux!HalfDone) = Cardinality(Remux!HalfDone)
      BY RemuxCardinality
    <3>7. Remux!TotalBytes = Cardinality(remuxes) + Cardinality(Remux!HalfDone)
      BY <3>6 DEF Remux!TotalBytes
    <3>8. Remux!Excess = IF e < 0 THEN 0
                         ELSE IF e > Remux!Cardinality(remuxes) THEN Remux!Cardinality(remuxes) ELSE e
      BY DEF Remux!Excess
    <3>9. Cardinality(oldest) = Remux!Excess
      BY <1>1
    <3>. QED  BY <3>2, <3>3, <3>5, <3>6, <3>7, <3>8, <3>9, RemuxAssumption
  <2>4. RemuxRoom(G)'
    <3>. SUFFICES ASSUME NEW p \in Requests, remuxRequest'[p].step \in {"evict", "promote"}
                  PROVE  /\ p \in G[p] /\ G[p] \subseteq Remux!HalfDone'
                         /\ Cardinality(remuxes' \ remuxRequest'[p].victims) + Cardinality(G[p]) <= MaxBytes
                         /\ \A q \in Requests : remuxRequest'[q].step \in {"evict", "promote"} /\ q \notin G[p] =>
                              G[p] \subseteq G[q]
      BY DEF RemuxRoom
    <3>0. \A q \in Requests : remuxRequest'[q].step \in {"evict", "promote"} => q \in Remux!HalfDone
      BY <1>2, <1>5 DEF Remux!HalfDone, Remux!At
    <3>1. CASE p = r
      BY <1>2, <1>3, <1>5, <1>9, <2>2, <2>3, <3>0, <3>1
    <3>2. CASE p # r
      <4>1. remuxRequest'[p] = remuxRequest[p] /\ G[p] = F[p]
        BY <1>5, <2>2, <3>2
      <4>2. /\ p \in F[p] /\ F[p] \subseteq Remux!HalfDone
            /\ Cardinality(remuxes \ remuxRequest[p].victims) + Cardinality(F[p]) <= MaxBytes
            /\ \A q \in Requests : remuxRequest[q].step \in {"evict", "promote"} /\ q \notin F[p] =>
                 F[p] \subseteq F[q]
        BY <2>1, <4>1 DEF RemuxRoom
      <4>3. ASSUME NEW q \in Requests, remuxRequest'[q].step \in {"evict", "promote"}, q \notin G[p]
            PROVE  G[p] \subseteq G[q]
        BY <1>5, <2>2, <4>1, <4>2, <4>3
      <4>. QED  BY <1>2, <1>9, <4>1, <4>2, <4>3
    <3>. QED  BY <3>1, <3>2
  <2>. QED  BY <1>2, <1>10, <2>2, <2>4 DEF RemuxInv
<1>. QED  BY <1>6, <1>7, <1>8, <1>10 DEF RemuxInv

LEMMA RemuxEvicts == ASSUME RemuxInv, NEW r \in Requests, Remux!Evict(r) PROVE RemuxInv'
<1>. Remux!RemuxTypeOK
  BY DEF RemuxInv
<1>. DEFINE gone == remuxRequest[r].victims
            new == [remuxRequest[r] EXCEPT !.step = "promote", !.victims = {}]
<1>1. /\ remuxRequest[r].step = "evict" /\ remuxes' = remuxes \ gone /\ stale' = stale \ gone
      /\ older' = {p \in older : p[1] \notin gone /\ p[2] \notin gone}
      /\ remuxRequest' = [remuxRequest EXCEPT ![r] = new]
  BY DEF Remux!Evict, Remux!At
<1>2. /\ new \in Remux!RequestStates /\ new.step = "promote" /\ new.victims = {}
      /\ new.clip = remuxRequest[r].clip
  BY DEF Remux!RemuxTypeOK, Remux!RequestStates
<1>. HIDE DEF new
<1>3. /\ remuxRequest' \in [Requests -> Remux!RequestStates]
      /\ remuxRequest'[r] = new
      /\ \A q \in Requests : q # r => remuxRequest'[q] = remuxRequest[q]
  BY <1>1, <1>2, RemuxMoves
<1>. HIDE DEF gone
<1>4. Remux!RemuxTypeOK'
  <2>1. \A a, b : <<a, b>> \in older' <=> <<a, b>> \in older /\ a \notin gone /\ b \notin gone
    BY <1>1
  <2>2. older' \subseteq remuxes' \X remuxes'
    BY <1>1 DEF Remux!RemuxTypeOK
  <2>3. \A a, b \in remuxes' : a # b => (<<a, b>> \in older' <=> <<b, a>> \notin older')
    BY <1>1, <2>1 DEF Remux!RemuxTypeOK
  <2>. QED  BY <1>1, <1>3, <2>2, <2>3 DEF Remux!RemuxTypeOK
<1>5. Cardinality(Remux!Holding') <= RemuxSlots
  BY <1>1, <1>2, RemuxSlotsHeld
<1>6. \A q \in Requests : /\ remuxRequest'[q].step # "idle" => remuxRequest'[q].clip \in Clips
                          /\ remuxRequest'[q].step # "evict" => remuxRequest'[q].victims = {}
  BY <1>1, <1>2, <1>3 DEF RemuxInv
<1>7. Remux!HalfDone' = Remux!HalfDone
  BY <1>1, <1>2, <1>3 DEF Remux!HalfDone, Remux!At
<1>8. \A S : remuxes' \ S \in SUBSET (remuxes \ S)
  BY <1>1
<1>9. \A S : /\ Cardinality(remuxes' \ S) <= Cardinality(remuxes \ S)
             /\ Cardinality(remuxes' \ S) \in Nat /\ Cardinality(remuxes \ S) \in Nat
  <2>1. \A S : remuxes \ S \in SUBSET Clips
    BY DEF Remux!RemuxTypeOK
  <2>. QED  BY <1>8, <2>1, RemuxCounted
<1>10. ASSUME RemuxSlots <= MaxBytes
       PROVE  Cardinality(remuxes') <= MaxBytes /\ \E F \in [Requests -> SUBSET Requests] : RemuxRoom(F)'
  <2>1. PICK F \in [Requests -> SUBSET Requests] : RemuxRoom(F)
    BY <1>10 DEF RemuxInv
  <2>2. Cardinality(remuxes') <= MaxBytes
    <3>1. remuxes' \ {} = remuxes' /\ remuxes \ {} = remuxes
      OBVIOUS
    <3>2. Cardinality(remuxes) <= MaxBytes
      BY <1>10 DEF RemuxInv
    <3>3. /\ Cardinality(remuxes') <= Cardinality(remuxes) /\ Cardinality(remuxes') \in Nat
          /\ Cardinality(remuxes) \in Nat
      BY <1>9, <3>1
    <3>. QED  BY <3>2, <3>3, RemuxAssumption
  <2>3. RemuxRoom(F)'
    <3>. SUFFICES ASSUME NEW p \in Requests, remuxRequest'[p].step \in {"evict", "promote"}
                  PROVE  /\ p \in F[p] /\ F[p] \subseteq Remux!HalfDone'
                         /\ Cardinality(remuxes' \ remuxRequest'[p].victims) + Cardinality(F[p]) <= MaxBytes
                         /\ \A q \in Requests : remuxRequest'[q].step \in {"evict", "promote"} /\ q \notin F[p] =>
                              F[p] \subseteq F[q]
      BY DEF RemuxRoom
    <3>1. \A q \in Requests : remuxRequest'[q].step \in {"evict", "promote"} =>
              remuxRequest[q].step \in {"evict", "promote"}
      BY <1>1, <1>3
    <3>2. /\ p \in F[p] /\ F[p] \subseteq Remux!HalfDone
          /\ Cardinality(remuxes \ remuxRequest[p].victims) + Cardinality(F[p]) <= MaxBytes
          /\ \A q \in Requests : remuxRequest[q].step \in {"evict", "promote"} /\ q \notin F[p] =>
               F[p] \subseteq F[q]
      BY <2>1, <3>1 DEF RemuxRoom
    <3>3. /\ Cardinality(remuxes' \ remuxRequest'[p].victims) <= Cardinality(remuxes \ remuxRequest[p].victims)
          /\ Cardinality(remuxes' \ remuxRequest'[p].victims) \in Nat
          /\ Cardinality(remuxes \ remuxRequest[p].victims) \in Nat
      <4>1. CASE p = r
        <5>1. remuxRequest'[p].victims = {} /\ remuxes' \ {} = remuxes \ remuxRequest[p].victims
          BY <1>1, <1>2, <1>3, <4>1 DEF gone
        <5>. QED  BY <1>9, <5>1
      <4>2. CASE p # r
        BY <1>3, <1>9, <4>2
      <4>. QED  BY <4>1, <4>2
    <3>4. Cardinality(F[p]) \in Nat
      BY RemuxCounted
    <3>5. Cardinality(remuxes' \ remuxRequest'[p].victims) + Cardinality(F[p]) <= MaxBytes
      BY <3>2, <3>3, <3>4, RemuxAssumption
    <3>. QED  BY <1>7, <3>1, <3>2, <3>5
  <2>. QED  BY <2>1, <2>2, <2>3
<1>. QED  BY <1>4, <1>5, <1>6, <1>10 DEF RemuxInv

LEMMA RemuxPromotes == ASSUME RemuxInv, NEW r \in Requests, Remux!Promote(r) PROVE RemuxInv'
<1>. Remux!RemuxTypeOK
  BY DEF RemuxInv
<1>. DEFINE c == remuxRequest[r].clip
<1>1. /\ remuxRequest[r].step = "promote" /\ Remux!Used(c) /\ stale' = stale \ {c}
      /\ remuxRequest' = [remuxRequest EXCEPT ![r] = Remux!Idle]
  BY DEF Remux!Promote, Remux!At, Remux!Ends
<1>2. c \in Clips /\ remuxRequest[r].victims = {}
  BY <1>1 DEF RemuxInv
<1>3. Remux!Idle \in Remux!RequestStates /\ Remux!Idle.step = "idle" /\ Remux!Idle.victims = {}
  BY DEF Remux!Idle, Remux!RequestStates
<1>. HIDE DEF c
<1>4. /\ remuxRequest' \in [Requests -> Remux!RequestStates]
      /\ remuxRequest'[r] = Remux!Idle
      /\ \A q \in Requests : q # r => remuxRequest'[q] = remuxRequest[q]
  BY <1>1, <1>3, RemuxMoves
<1>5. /\ remuxes' = remuxes \cup {c} /\ remuxes' \subseteq Clips
      /\ older' \subseteq remuxes' \X remuxes'
      /\ \A a, b \in remuxes' : a # b => (<<a, b>> \in older' <=> <<b, a>> \notin older')
  BY <1>1, <1>2, RemuxUsed
<1>6. Remux!RemuxTypeOK'
  BY <1>1, <1>4, <1>5 DEF Remux!RemuxTypeOK
<1>7. Cardinality(Remux!Holding') <= RemuxSlots
  BY <1>1, <1>3, RemuxSlotsHeld
<1>8. \A q \in Requests : /\ remuxRequest'[q].step # "idle" => remuxRequest'[q].clip \in Clips
                          /\ remuxRequest'[q].step # "evict" => remuxRequest'[q].victims = {}
  BY <1>3, <1>4 DEF RemuxInv
<1>9. Remux!HalfDone' = Remux!HalfDone \ {r}
  BY <1>1, <1>3, <1>4 DEF Remux!HalfDone, Remux!At
<1>10. ASSUME NEW S PROVE  /\ Cardinality(remuxes' \ S) <= Cardinality(remuxes \ S) + 1
                           /\ Cardinality(remuxes' \ S) \in Nat /\ Cardinality(remuxes \ S) \in Nat
  <2>1. /\ remuxes \ S \in SUBSET Clips /\ remuxes' \ S \in SUBSET Clips
        /\ (remuxes \ S) \cup {c} \in SUBSET Clips
        /\ remuxes' \ S \in SUBSET ((remuxes \ S) \cup {c})
    BY <1>2, <1>5
  <2>2. /\ Cardinality(remuxes' \ S) <= Cardinality((remuxes \ S) \cup {c})
        /\ Cardinality(remuxes' \ S) \in Nat
    BY <2>1, RemuxCounted
  <2>3. /\ Cardinality((remuxes \ S) \cup {c}) <= Cardinality(remuxes \ S) + 1
        /\ Cardinality(remuxes \ S) \in Nat
    BY <2>1, RemuxCounted
  <2>4. Cardinality((remuxes \ S) \cup {c}) \in Nat
    BY <2>1, RemuxCounted
  <2>. QED  BY <2>2, <2>3, <2>4
<1>11. ASSUME RemuxSlots <= MaxBytes
       PROVE  Cardinality(remuxes') <= MaxBytes /\ \E G \in [Requests -> SUBSET Requests] : RemuxRoom(G)'
  <2>1. PICK F \in [Requests -> SUBSET Requests] : RemuxRoom(F)
    BY <1>11 DEF RemuxInv
  <2>2. PICK G \in [Requests -> SUBSET Requests] : \A q \in Requests : G[q] = F[q] \ {r}
    <3>1. [q \in Requests |-> F[q] \ {r}] \in [Requests -> SUBSET Requests]
      OBVIOUS
    <3>. QED  BY <3>1
  <2>3. /\ r \in F[r] /\ Cardinality(remuxes) + Cardinality(F[r]) <= MaxBytes
        /\ \A q \in Requests : remuxRequest[q].step \in {"evict", "promote"} /\ q \notin F[r] => F[r] \subseteq F[q]
    <3>1. remuxes \ remuxRequest[r].victims = remuxes
      BY <1>2
    <3>. QED  BY <1>1, <2>1, <3>1 DEF RemuxRoom
  <2>4. \A q \in Requests : /\ Cardinality(F[q]) \in Nat /\ Cardinality(F[q] \ {r}) \in Nat
                            /\ Cardinality(F[q] \ {r}) <= Cardinality(F[q])
                            /\ r \in F[q] => Cardinality(F[q] \ {r}) = Cardinality(F[q]) - 1
    BY RemuxCounted
  <2>5. Cardinality(remuxes') <= MaxBytes
    <3>1. remuxes' \ {} = remuxes' /\ remuxes \ {} = remuxes
      OBVIOUS
    <3>2. /\ Cardinality(remuxes') <= Cardinality(remuxes) + 1 /\ Cardinality(remuxes') \in Nat
          /\ Cardinality(remuxes) \in Nat
      BY <1>10, <3>1
    <3>3. Cardinality(F[r]) - 1 \in Nat /\ Cardinality(F[r]) \in Nat
      BY <2>3, <2>4
    <3>. QED  BY <2>3, <3>2, <3>3, RemuxAssumption
  <2>6. RemuxRoom(G)'
    <3>. SUFFICES ASSUME NEW p \in Requests, remuxRequest'[p].step \in {"evict", "promote"}
                  PROVE  /\ p \in G[p] /\ G[p] \subseteq Remux!HalfDone'
                         /\ Cardinality(remuxes' \ remuxRequest'[p].victims) + Cardinality(G[p]) <= MaxBytes
                         /\ \A q \in Requests : remuxRequest'[q].step \in {"evict", "promote"} /\ q \notin G[p] =>
                              G[p] \subseteq G[q]
      BY DEF RemuxRoom
    <3>1. \A q \in Requests : remuxRequest'[q].step \in {"evict", "promote"} =>
              q # r /\ remuxRequest'[q] = remuxRequest[q]
      BY <1>3, <1>4
    <3>2. p # r /\ remuxRequest'[p] = remuxRequest[p] /\ remuxRequest[p].step \in {"evict", "promote"}
      BY <3>1
    <3>3. /\ p \in F[p] /\ F[p] \subseteq Remux!HalfDone
          /\ Cardinality(remuxes \ remuxRequest[p].victims) + Cardinality(F[p]) <= MaxBytes
          /\ \A q \in Requests : remuxRequest[q].step \in {"evict", "promote"} /\ q \notin F[p] =>
               F[p] \subseteq F[q]
      BY <2>1, <3>2 DEF RemuxRoom
    <3>4. G[p] = F[p] \ {r} /\ p \in G[p] /\ G[p] \subseteq Remux!HalfDone'
      BY <1>9, <2>2, <3>2, <3>3
    <3>5. ASSUME NEW q \in Requests, remuxRequest'[q].step \in {"evict", "promote"}, q \notin G[p]
          PROVE  G[p] \subseteq G[q]
      BY <2>2, <3>1, <3>3, <3>4, <3>5
    <3>6. Cardinality(remuxes' \ remuxRequest'[p].victims) + Cardinality(G[p]) <= MaxBytes
      <4>1. /\ Cardinality(remuxes' \ remuxRequest[p].victims) <= Cardinality(remuxes \ remuxRequest[p].victims) + 1
            /\ Cardinality(remuxes' \ remuxRequest[p].victims) \in Nat
            /\ Cardinality(remuxes \ remuxRequest[p].victims) \in Nat
        BY <1>10
      <4>2. CASE r \in F[p]
        <5>1. Cardinality(G[p]) = Cardinality(F[p]) - 1 /\ Cardinality(F[p]) \in Nat
          BY <2>4, <3>4, <4>2
        <5>. QED  BY <3>2, <3>3, <4>1, <5>1, RemuxAssumption
      <4>3. CASE r \notin F[p]
        <5>1. G[p] \in SUBSET (F[r] \ {r})
          BY <1>1, <3>3, <3>4, <4>3
        <5>2. F[r] \ {r} \in SUBSET Requests
          OBVIOUS
        <5>3. Cardinality(G[p]) <= Cardinality(F[r] \ {r}) /\ Cardinality(G[p]) \in Nat
          BY <5>1, <5>2, RemuxCounted
        <5>4. Cardinality(F[r] \ {r}) = Cardinality(F[r]) - 1 /\ Cardinality(F[r]) \in Nat
          BY <2>3, <2>4
        <5>5. remuxes' \ remuxRequest[p].victims \in SUBSET remuxes' /\ remuxes' \in SUBSET Clips
          BY <1>5
        <5>6. Cardinality(remuxes' \ remuxRequest[p].victims) <= Cardinality(remuxes')
          BY <5>5, RemuxCounted
        <5>7. remuxes' \ {} = remuxes' /\ remuxes \ {} = remuxes
          OBVIOUS
        <5>8. /\ Cardinality(remuxes') <= Cardinality(remuxes) + 1
              /\ Cardinality(remuxes') \in Nat /\ Cardinality(remuxes) \in Nat
          BY <1>10, <5>7
        <5>. QED  BY <2>3, <3>2, <4>1, <5>3, <5>4, <5>6, <5>8, RemuxAssumption
      <4>. QED  BY <4>2, <4>3
    <3>. QED  BY <3>4, <3>5, <3>6
  <2>. QED  BY <2>2, <2>5, <2>6
<1>. QED  BY <1>6, <1>7, <1>8, <1>11 DEF RemuxInv

LEMMA RemuxInvStep == ASSUME RemuxInv, Remux!RemuxNext PROVE RemuxInv'
<1>1. CASE \E c \in Clips : Remux!SourceChanges(c)
  BY <1>1, RemuxSource
<1>2. CASE \E r \in Requests : Remux!Serve(r)
  <2>1. PICK r \in Requests : Remux!Serve(r)
    BY <1>2
  <2>2. CASE \/ \E c \in Clips : Remux!Ask(r, c)
             \/ Remux!Acquire(r) \/ Remux!Busy(r) \/ Remux!LookAgain(r) \/ Remux!Remux(r)
    BY <2>2, RemuxRuns
  <2>3. CASE Remux!ListVictims(r)
    BY <2>3, RemuxLists
  <2>4. CASE Remux!Evict(r)
    BY <2>4, RemuxEvicts
  <2>5. CASE Remux!Promote(r)
    BY <2>5, RemuxPromotes
  <2>. QED  BY <2>1, <2>2, <2>3, <2>4, <2>5 DEF Remux!Serve
<1>. QED  BY <1>1, <1>2 DEF Remux!RemuxNext

LEMMA RemuxInvSafe == RemuxInv => Remux!RemuxTypeOK /\ Remux!WithinBudget
BY RemuxCardinality DEF RemuxInv, Remux!WithinBudget

LEMMA RemuxInvStays == ASSUME RemuxInv, UNCHANGED remuxesVars PROVE RemuxInv'
BY DEF remuxesVars, RemuxInv, Remux!RemuxTypeOK, Remux!Holding, Remux!At, RemuxRoom, Remux!HalfDone

==============================================================================
