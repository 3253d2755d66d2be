---------------------------- MODULE StoresProofs ----------------------------
(***************************************************************************)
(* What is proved of Stores for all constants: first of the guard of the   *)
(* pushed seqs, of the thumbnail cache, of the compilations and of the     *)
(* Detections page, then, from the invariants of every part, of the whole. *)
(***************************************************************************)
EXTENDS UpkeepProofs, MediaProofs

------------------------------------------------------------------------------
(* RedisSeqBump: the optimistic WATCH loop is an atomic check-and-bump, for *)
(* any handlers (in however many workers), any stations on the one hash and *)
(* any seqs.  Between HGET and EXEC a handler whose hash nobody touched     *)
(* knows its field, and every accepted seq lies at or below the stored one. *)

AnsweredIsDone == \A p \in Handlers : pc[p] = "done" <=> answer[p] # "none"

AcceptedIsStored ==
    \A p \in Handlers : answer[p] = "accepted" => SeqOf(p) <= hash[StationOf(p)]

GuardInv ==
    /\ TypeOK
    /\ AnsweredIsDone
    /\ CheckedValueIsCurrent
    /\ AcceptedIsStored
    /\ OneRacerWins

\* A stored value, or the 0 of a missing field, is a natural number.
LEMMA SeqsAreNat == \A n \in Seqs \cup {0} : n \in Nat
  BY SeqsAssumption

\* A call has a station and a natural seq.
LEMMA CallFields ==
    ASSUME TypeOK, NEW p \in Handlers
    PROVE  /\ StationOf(p) \in Stations
           /\ SeqOf(p) \in Seqs
           /\ SeqOf(p) \in Nat
           /\ hash[StationOf(p)] \in Nat
<1>1. StationOf(p) \in Stations /\ SeqOf(p) \in Seqs
  BY DEF TypeOK, StationOf, SeqOf
<1>2. hash[StationOf(p)] \in Seqs \cup {0}
  BY <1>1 DEF TypeOK
<1> QED BY <1>1, <1>2, SeqsAreNat

\* What a write that is allowed to go through does to the invariant's parts.
LEMMA WriteKeeps ==
    ASSUME GuardInv, NEW p \in Handlers, pc[p] = "exec", p \notin touched,
           Write(p), UNCHANGED <<call, cur>>, NEW a \in {"accepted", "error"},
           Return(p, a)
    PROVE  GuardInv'
<1>1. SeqOf(p) > hash[StationOf(p)] /\ SeqOf(p) \in Seqs
  BY CallFields DEF GuardInv, CheckedValueIsCurrent
<1>2. \A q \in Handlers : hash[StationOf(q)] <= hash'[StationOf(q)] /\ StationOf(q)' = StationOf(q)
                           /\ SeqOf(q)' = SeqOf(q)
  BY <1>1, CallFields DEF GuardInv, TypeOK, Write, StationOf, SeqOf
<1>3. hash'[StationOf(p)] = SeqOf(p)
  BY CallFields DEF GuardInv, TypeOK, Write
<1>4. TypeOK'
  BY <1>1 DEF GuardInv, TypeOK, Write, Return, Commands, Results
<1>5. AnsweredIsDone'
  BY DEF GuardInv, TypeOK, AnsweredIsDone, Return
<1>6. CheckedValueIsCurrent'
  BY DEF GuardInv, TypeOK, CheckedValueIsCurrent, Write, Return
<1>7. AcceptedIsStored'
  <2> SUFFICES ASSUME NEW q \in Handlers, answer'[q] = "accepted"
               PROVE  SeqOf(q) <= hash'[StationOf(q)]
    BY <1>2 DEF AcceptedIsStored
  <2>1. CASE q = p
    BY <2>1, <1>3, CallFields DEF GuardInv
  <2>2. CASE q # p
    <3>1. answer[q] = "accepted"
      BY <2>2 DEF GuardInv, TypeOK, Return
    <3>2. SeqOf(q) <= hash[StationOf(q)]
      BY <3>1 DEF GuardInv, AcceptedIsStored
    <3>3. hash'[StationOf(q)] \in Nat
      <4>1. StationOf(q) \in Stations
        BY CallFields DEF GuardInv
      <4>2. hash'[StationOf(q)] \in Seqs \cup {0}
        BY <1>4, <4>1 DEF TypeOK
      <4> QED BY <4>2, SeqsAreNat
    <3> QED BY <3>2, <3>3, <1>2, CallFields DEF GuardInv
  <2> QED BY <2>1, <2>2
<1>8. OneRacerWins'
  <2> SUFFICES ASSUME NEW q \in Handlers, NEW o \in Handlers,
                      answer'[q] = "accepted", answer'[o] = "accepted",
                      StationOf(q) = StationOf(o), SeqOf(q) = SeqOf(o)
               PROVE  q = o
    BY <1>2 DEF OneRacerWins
  <2>1. \A r \in Handlers : r # p /\ answer'[r] = "accepted" /\ StationOf(r) = StationOf(p)
           => SeqOf(r) # SeqOf(p)
    <3> SUFFICES ASSUME NEW r \in Handlers, r # p, answer'[r] = "accepted",
                        StationOf(r) = StationOf(p)
                 PROVE  SeqOf(r) # SeqOf(p)
      OBVIOUS
    <3>1. SeqOf(r) <= hash[StationOf(p)]
      BY DEF GuardInv, TypeOK, AcceptedIsStored, Return
    <3> QED BY <3>1, <1>1, CallFields DEF GuardInv
  <2>2. q # p /\ o # p => answer[q] = "accepted" /\ answer[o] = "accepted"
    BY DEF GuardInv, TypeOK, Return
  <2> QED BY <2>1, <2>2 DEF GuardInv, OneRacerWins
<1> QED BY <1>4, <1>5, <1>6, <1>7, <1>8 DEF GuardInv

\* A step that leaves the hash alone and makes no handler accepted.
LEMMA QuietKeeps ==
    ASSUME GuardInv, NEW p \in Handlers, UNCHANGED <<call, hash>>,
           TypeOK', AnsweredIsDone', CheckedValueIsCurrent',
           \A q \in Handlers : answer'[q] = "accepted" => answer[q] = "accepted"
    PROVE  GuardInv'
<1>1. AcceptedIsStored'
  BY DEF GuardInv, AcceptedIsStored, StationOf, SeqOf
<1>2. OneRacerWins'
  BY DEF GuardInv, OneRacerWins, StationOf, SeqOf
<1> QED BY <1>1, <1>2 DEF GuardInv

LEMMA GuardInvInit == Init => GuardInv
<1> SUFFICES ASSUME Init PROVE GuardInv
  OBVIOUS
<1>1. TypeOK
  BY DEF Init, TypeOK, Commands, Results
<1> QED BY <1>1 DEF Init, GuardInv, AnsweredIsDone, CheckedValueIsCurrent,
                    AcceptedIsStored, OneRacerWins

LEMMA GuardInvStep == GuardInv /\ [Next]_vars => GuardInv'
<1> SUFFICES ASSUME GuardInv, [Next]_vars PROVE GuardInv'
  OBVIOUS
<1>1. CASE UNCHANGED vars
  BY <1>1 DEF vars, GuardInv, TypeOK, AnsweredIsDone, CheckedValueIsCurrent,
              AcceptedIsStored, OneRacerWins, StationOf, SeqOf
<1>2. ASSUME NEW p \in Handlers, Watch(p) PROVE GuardInv'
  <2>1. TypeOK' /\ AnsweredIsDone' /\ CheckedValueIsCurrent'
    BY <1>2 DEF Watch, Goto, GuardInv, TypeOK, AnsweredIsDone, CheckedValueIsCurrent,
                Commands, StationOf, SeqOf
  <2> QED BY <1>2, <2>1, QuietKeeps DEF Watch, Goto
<1>3. ASSUME NEW p \in Handlers, Read(p) PROVE GuardInv'
  <2>1. hash[StationOf(p)] \in Seqs \cup {0} /\ SeqOf(p) \in Nat /\ hash[StationOf(p)] \in Nat
    BY CallFields DEF GuardInv, TypeOK
  <2>2. CASE SeqOf(p) <= hash[StationOf(p)]
    <3>1. Return(p, "replay")
      BY <1>3, <2>2 DEF Read
    <3>2. TypeOK' /\ AnsweredIsDone'
      BY <1>3, <2>1, <3>1 DEF Read, Return, GuardInv, TypeOK, AnsweredIsDone,
                              Commands, Results
    <3>3. CheckedValueIsCurrent'
      BY <1>3, <3>1 DEF Read, Return, GuardInv, TypeOK, CheckedValueIsCurrent,
                        StationOf, SeqOf
    <3>4. \A q \in Handlers : answer'[q] = "accepted" => answer[q] = "accepted"
      BY <3>1 DEF Return, GuardInv, TypeOK
    <3> QED BY <1>3, <3>2, <3>3, <3>4, QuietKeeps DEF Read
  <2>3. CASE ~(SeqOf(p) <= hash[StationOf(p)])
    <3>1. Goto(p, "exec")
      BY <1>3, <2>3 DEF Read
    <3>2. TypeOK' /\ AnsweredIsDone'
      BY <1>3, <2>1, <3>1 DEF Read, Goto, GuardInv, TypeOK, AnsweredIsDone, Commands
    <3>3. CheckedValueIsCurrent'
      BY <1>3, <2>1, <2>3, <3>1 DEF Read, Goto, GuardInv, TypeOK,
                                    CheckedValueIsCurrent, StationOf, SeqOf
    <3> QED BY <1>3, <3>1, <3>2, <3>3, QuietKeeps DEF Read, Goto
  <2> QED BY <2>2, <2>3
<1>4. ASSUME NEW p \in Handlers, Exec(p) PROVE GuardInv'
  BY <1>4, WriteKeeps DEF Exec
<1>5. ASSUME NEW p \in Handlers, Retry(p) PROVE GuardInv'
  <2>1. TypeOK' /\ AnsweredIsDone' /\ CheckedValueIsCurrent'
    BY <1>5 DEF Retry, Goto, GuardInv, TypeOK, AnsweredIsDone, CheckedValueIsCurrent,
                Commands, StationOf, SeqOf
  <2> QED BY <1>5, <2>1, QuietKeeps DEF Retry, Goto
<1>6. ASSUME NEW p \in Handlers, NEW executed \in BOOLEAN, Error(p, executed)
      PROVE  GuardInv'
  <2>1. CASE executed
    BY <1>6, <2>1, WriteKeeps DEF Error
  <2>2. CASE ~executed
    <3>1. UNCHANGED <<call, hash, cur, touched>> /\ Return(p, "error")
      BY <1>6, <2>2 DEF Error
    <3>2. TypeOK' /\ AnsweredIsDone' /\ CheckedValueIsCurrent'
      BY <3>1 DEF Return, GuardInv, TypeOK, AnsweredIsDone, CheckedValueIsCurrent,
                  Commands, Results, StationOf, SeqOf
    <3>3. \A q \in Handlers : answer'[q] = "accepted" => answer[q] = "accepted"
      BY <3>1 DEF Return, GuardInv, TypeOK
    <3> QED BY <3>1, <3>2, <3>3, QuietKeeps
  <2> QED BY <2>1, <2>2
<1> QED BY <1>1, <1>2, <1>3, <1>4, <1>5, <1>6 DEF Next, SeqBump

------------------------------------------------------------------------------

\* The inductive invariant of the loop.
THEOREM GuardInvariant == Spec => []GuardInv
  BY GuardInvInit, GuardInvStep, PTL DEF Spec

\* At most one handler stores a body of a given seq of a station.
THEOREM OneRacerWinsAlways == Spec => []OneRacerWins
<1>1. GuardInv => OneRacerWins
  BY DEF GuardInv
<1> QED BY <1>1, GuardInvariant, PTL

\* Nobody moves the field between the check and the bump.
THEOREM CheckedValueStays == Spec => []CheckedValueIsCurrent
<1>1. GuardInv => CheckedValueIsCurrent
  BY DEF GuardInv
<1> QED BY <1>1, GuardInvariant, PTL

\* An initial state of the loop is one of the atomic guard.
LEMMA GuardStarts == Init => Guard!GuardInit
  BY SeqsAssumption DEF Init, Guard!GuardInit

\* A write that goes through is a bump of the atomic guard.
LEMMA WriteIsBump ==
    ASSUME GuardInv, NEW p \in Handlers, pc[p] = "exec", p \notin touched, Write(p)
    PROVE  Guard!Advances(p) /\ Guard!Bump(p) /\ answer[p] = "none"
  BY CallFields DEF GuardInv, CheckedValueIsCurrent, AnsweredIsDone, Write, StationOf, SeqOf,
                    Guard!Advances, Guard!Bump

\* Every step of the loop is a step of the atomic guard or invisible to it.
LEMMA GuardSteps == GuardInv /\ [Next]_vars => [Guard!GuardNext]_(Guard!guardVars)
<1> SUFFICES ASSUME GuardInv, [Next]_vars
             PROVE  [Guard!GuardNext]_(Guard!guardVars)
  OBVIOUS
<1>1. CASE UNCHANGED vars
  BY <1>1 DEF vars, Guard!guardVars
<1>2. ASSUME NEW p \in Handlers, Watch(p) \/ Retry(p)
      PROVE  UNCHANGED Guard!guardVars
  BY <1>2 DEF Watch, Retry, Goto, Guard!guardVars
<1>3. ASSUME NEW p \in Handlers, Read(p)
      PROVE  Guard!No(p) \/ UNCHANGED Guard!guardVars
  <2>1. CASE SeqOf(p) <= hash[StationOf(p)]
    <3>1. answer[p] = "none" /\ Return(p, "replay") /\ UNCHANGED <<call, hash>>
      BY <1>3, <2>1 DEF Read, GuardInv, AnsweredIsDone
    <3>2. ~Guard!Advances(p)
      BY <2>1, CallFields DEF GuardInv, Guard!Advances, StationOf, SeqOf
    <3> QED BY <3>1, <3>2 DEF Return, Guard!No, Guard!Reply
  <2>2. CASE ~(SeqOf(p) <= hash[StationOf(p)])
    BY <1>3, <2>2 DEF Read, Goto, Guard!guardVars
  <2> QED BY <2>1, <2>2
<1>4. ASSUME NEW p \in Handlers, Exec(p) PROVE Guard!Yes(p)
  BY <1>4, WriteIsBump DEF Exec, Return, Guard!Yes, Guard!Reply
<1>5. ASSUME NEW p \in Handlers, NEW executed \in BOOLEAN, Error(p, executed)
      PROVE  Guard!Fail(p)
  <2>1. answer[p] = "none"
    BY <1>5 DEF Error, GuardInv, AnsweredIsDone
  <2>2. CASE executed
    BY <1>5, <2>1, <2>2, WriteIsBump DEF Error, Return, Guard!Fail, Guard!Reply
  <2>3. CASE ~executed
    BY <1>5, <2>1, <2>3 DEF Error, Return, Guard!Fail, Guard!Reply
  <2> QED BY <2>2, <2>3
<1> QED BY <1>1, <1>2, <1>3, <1>4, <1>5 DEF Next, SeqBump, Guard!GuardNext

\* The optimistic loop implements the atomic check-and-bump of the handlers.
THEOREM LoopImplementsGuard == Spec => ImplementsGuard
  BY GuardStarts, GuardSteps, GuardInvariant, PTL
     DEF Spec, ImplementsGuard, Guard!GuardSpec

------------------------------------------------------------------------------
(* Both hold for every history of polls, requests, prunes and restarts: a   *)
(* directory that is about to be removed is in the cold tier if its copy    *)
(* took place, and what is in neither tier is known to be lost.             *)

CopiedIsPromoted == pruning = "copied" => cold # "none"

ThumbInv == ThumbTypeOK /\ PrefetchedIsCached /\ CopiedIsPromoted

LEMMA ThumbInvInit == ThumbInit => ThumbInv
BY DEF ThumbInit, ThumbInv, ThumbTypeOK, PrefetchedIsCached, CopiedIsPromoted, Kept,
       Slots, Images, Passes, JobStates

LEMMA ThumbTypeStep == ThumbTypeOK /\ [ThumbNext]_thumbVars => ThumbTypeOK'
<1> SUFFICES ASSUME ThumbTypeOK, [ThumbNext]_thumbVars PROVE ThumbTypeOK'
  OBVIOUS
<1> USE DEF ThumbTypeOK, Slots, Images, Passes, JobStates
<1>1. CASE UNCHANGED thumbVars
  BY <1>1 DEF thumbVars
<1>2. CASE \/ \E up \in BOOLEAN : Connection(up)
           \/ night # "old" /\ NightGoesOn
           \/ StackUploaded
  BY <1>2 DEF Connection, NightGoesOn, StackUploaded
<1>3. CASE PollChunks
  BY <1>3 DEF PollChunks, Wanted, Done
<1>4. CASE SkipCached
  BY <1>4 DEF SkipCached
<1>5. ASSUME NEW p \in Passes, Job(p)
      PROVE  ThumbTypeOK'
  <2>1. CASE Fetch(p)
    BY <2>1 DEF Fetch, OfStation
  <2>2. CASE StoreFetched(p)
    BY <2>2 DEF StoreFetched
  <2>3. CASE GetsNothing(p)
    BY <2>3 DEF GetsNothing, ReleasedKey
  <2> QED BY <1>5, <2>1, <2>2, <2>3 DEF Job
<1>6. CASE ServeCold \/ AskStation \/ StoreAsked \/ ServeBox
  BY <1>6 DEF ServeCold, AskStation, StoreAsked, ServeBox, OfStation
<1>7. CASE PrefetchArchive
  <2>1. UNCHANGED <<online, night, cold, box, key, seenDone, job, asking, pruning, prunedAway>>
    BY <1>7 DEF PrefetchArchive
  <2>2. bulk' \in BOOLEAN
    BY <1>7, Zenon DEF PrefetchArchive
  <2>3. hot' = hot \/ hot' = box
    BY <1>7, Zenon DEF PrefetchArchive
  <2> QED BY <2>1, <2>2, <2>3
<1>8. CASE PruneCopies
  BY <1>8 DEF PruneCopies, Promoted
<1>9. CASE PruneRemoves
  <2>1. prunedAway' \in BOOLEAN
    BY <1>9, Zenon DEF PruneRemoves
  <2> QED BY <1>9, <2>1 DEF PruneRemoves
<1>10. CASE DashboardRestarts
  <2>1. prunedAway' = FALSE /\ pruning' = "no" /\ bulk' = FALSE /\ seenDone' = FALSE
    BY <1>10 DEF DashboardRestarts
  <2> QED BY <1>10, <2>1 DEF DashboardRestarts
<1> QED BY <1>1, <1>2, <1>3, <1>4, <1>5, <1>6, <1>7, <1>8, <1>9, <1>10 DEF ThumbNext

\* A step removes nothing that is not kept elsewhere, unless it ends a prune whose copy
\* has missed it; and what the copy promotes is there.
LEMMA KeptStep ==
    ASSUME ThumbInv, [ThumbNext]_thumbVars
    PROVE  /\ Kept /\ ~Kept' => pruning = "missed" /\ prunedAway'
           /\ CopiedIsPromoted'
<1> USE DEF ThumbInv, ThumbTypeOK, Kept, CopiedIsPromoted
<1>1. CASE UNCHANGED thumbVars
  BY <1>1 DEF thumbVars
<1>2. CASE \/ \E up \in BOOLEAN : Connection(up)
           \/ night # "old" /\ NightGoesOn
           \/ StackUploaded \/ PollChunks \/ SkipCached
  BY <1>2 DEF Connection, NightGoesOn, StackUploaded, PollChunks, SkipCached
<1>3. ASSUME NEW p \in Passes, Job(p)
      PROVE  (Kept' /\ CopiedIsPromoted') \/ UNCHANGED <<hot, cold, pruning, prunedAway>>
  BY <1>3 DEF Job, Fetch, StoreFetched, GetsNothing, Images
<1>4. CASE ServeCold \/ AskStation \/ StoreAsked \/ ServeBox
  BY <1>4 DEF ServeCold, AskStation, StoreAsked, ServeBox
<1>5. CASE PrefetchArchive
  BY <1>5 DEF PrefetchArchive
<1>6. CASE PruneCopies
  BY <1>6 DEF PruneCopies, Promoted
<1>7. CASE PruneRemoves
  BY <1>7 DEF PruneRemoves
<1>8. CASE DashboardRestarts
  BY <1>8 DEF DashboardRestarts
<1> QED BY <1>1, <1>2, <1>3, <1>4, <1>5, <1>6, <1>7, <1>8 DEF ThumbNext

\* A key is set with a job queued, and goes when its job comes to nothing.
LEMMA PrefetchedStep ==
    ASSUME ThumbInv, Kept => Kept' \/ prunedAway', [ThumbNext]_thumbVars
    PROVE  PrefetchedIsCached'
<1> USE DEF ThumbInv, ThumbTypeOK, PrefetchedIsCached, Passes
<1>1. CASE UNCHANGED <<key, job>> /\ (prunedAway => prunedAway')
  BY <1>1
<1>2. CASE PollChunks
  BY <1>2 DEF PollChunks, Wanted
<1>3. CASE SkipCached
  BY <1>3 DEF SkipCached, Kept
<1>4. ASSUME NEW p \in Passes, Job(p)
      PROVE  PrefetchedIsCached'
  <2>1. CASE Fetch(p)
    BY <2>1 DEF Fetch, OfStation
  <2>2. CASE StoreFetched(p)
    BY <2>2 DEF StoreFetched, Kept, Images
  <2>3. CASE GetsNothing(p)
    BY <2>3 DEF GetsNothing, ReleasedKey
  <2> QED BY <1>4, <2>1, <2>2, <2>3 DEF Job
<1>5. CASE DashboardRestarts
  BY <1>5 DEF DashboardRestarts
<1>6. CASE \/ UNCHANGED thumbVars
           \/ \E up \in BOOLEAN : Connection(up)
           \/ night # "old" /\ NightGoesOn
           \/ StackUploaded \/ ServeCold \/ AskStation \/ StoreAsked \/ ServeBox
           \/ PrefetchArchive \/ PruneCopies \/ PruneRemoves
  BY <1>1, <1>6 DEF thumbVars, Connection, NightGoesOn, StackUploaded, ServeCold, AskStation,
     StoreAsked, ServeBox, PrefetchArchive, PruneCopies, PruneRemoves
<1> QED BY <1>2, <1>3, <1>4, <1>5, <1>6 DEF ThumbNext

LEMMA ThumbInvStep == ASSUME ThumbInv, [ThumbNext]_thumbVars PROVE ThumbInv'
BY KeptStep, PrefetchedStep, ThumbTypeStep DEF ThumbInv

\* A night never counts as prefetched while nothing is kept of it and no job is at it,
\* unless a prune has taken what its copy had missed (_prefetch_night).
THEOREM PrefetchedNightsAreCached == ThumbSpec => []PrefetchedIsCached
<1>1. ThumbInv => PrefetchedIsCached
  BY DEF ThumbInv
<1> QED BY ThumbInvInit, ThumbInvStep, <1>1, PTL DEF ThumbSpec

\* Of all that happens to a thumbnail only a prune whose copy has missed it takes the last
\* copy away: late jobs, requests, restarts and prunes that copy do not (_prune_thumb_cache).
THEOREM LostOnlyUncopied == ThumbSpec => CachedStaysCached
<1>1. ThumbInv /\ [ThumbNext]_thumbVars => [Kept /\ ~Kept' => pruning = "missed"]_thumbVars
  BY KeptStep
<1> QED BY ThumbInvInit, ThumbInvStep, <1>1, PTL DEF ThumbSpec, CachedStaysCached

------------------------------------------------------------------------------
(* It holds for any number of manifests, requests and build threads.  What  *)
(* it needs besides types: no route stores a status of a build.             *)

Ops == {"none", "create", "patch", "delete", "build"}
Steps == Admitted \cup {"idle", "queued"}

NewIsCalm == \A r \in Requests : request[r].new.status \notin {"building", "uploading"}

BuildInv ==
    /\ manifest \in [Manifests -> Records]
    /\ request \in [Requests -> [op: Ops, id: Manifests, new: Records]]
    /\ builder \in [Builders -> [step: Steps, id: Manifests]]
    /\ NewIsCalm
    /\ BusyIsBuilt

LEMMA BuildInvInit == ASSUME CompilationInit PROVE BuildInv
<1>1. AnyId \in Manifests
  BY ManifestsAssumption DEF AnyId
<1>2. Absent \in Records
  BY DEF Absent, Records, Statuses
<1>3. BusyIsBuilt
  BY <1>2 DEF CompilationInit, BusyIsBuilt, Busy, Absent
<1>4. NewIsCalm
  BY <1>1, <1>2 DEF CompilationInit, NewIsCalm, NoRequest, Absent
<1> QED BY <1>1, <1>2, <1>3, <1>4 DEF CompilationInit, BuildInv, NoRequest, NoBuild, Ops, Steps

\* A request that reads a manifest takes note of what it will store.
LEMMA ReadsInv ==
    ASSUME BuildInv, NEW r \in Requests, NEW c \in Manifests, Reads(r, c)
    PROVE  BuildInv'
<1>1. PICK op \in {"create", "patch", "delete", "build"}, new \in Records :
        /\ new.status \notin {"building", "uploading"}
        /\ request' = [request EXCEPT ![r] = [op |-> op, id |-> c, new |-> new]]
        /\ UNCHANGED <<manifest, builder, orphans>>
  <2>1. Absent \in Records
    BY DEF Absent, Records, Statuses
  <2>2. CASE CreateRead(r, c)
    <3>1. PICK timed \in BOOLEAN :
            Asks(r, "create", c, [status |-> IF timed THEN "scheduled" ELSE "draft", sched |-> timed])
      BY <2>2 DEF CreateRead
    <3> DEFINE new == [status |-> IF timed THEN "scheduled" ELSE "draft", sched |-> timed]
    <3>2. new \in Records /\ new.status \notin {"building", "uploading"}
      BY DEF Records, Statuses
    <3> HIDE DEF new
    <3>3. Asks(r, "create", c, new)
      BY <3>1 DEF new
    <3> QED BY <3>2, <3>3 DEF Asks
  <2>3. CASE PatchRead(r, c)
    <3>1. PICK timed \in BOOLEAN, status \in {"scheduled", "draft", "absent"} :
            Asks(r, "patch", c, [status |-> status, sched |-> timed])
      <4>1. PICK timed \in BOOLEAN :
              Asks(r, "patch", c,
                   [status |-> CASE timed -> "scheduled"
                                 [] ~timed /\ manifest[c].status \in {"scheduled", "error"} -> "draft"
                                 [] OTHER -> "absent",
                    sched |-> timed])
        BY <2>3 DEF PatchRead
      <4>2. CASE timed
        BY <4>1, <4>2, Zenon
      <4>3. CASE ~timed /\ manifest[c].status \in {"scheduled", "error"}
        BY <4>1, <4>3, Zenon
      <4>4. CASE ~timed /\ manifest[c].status \notin {"scheduled", "error"}
        BY <4>1, <4>4, Zenon
      <4> QED BY <4>2, <4>3, <4>4
    <3> DEFINE new == [status |-> status, sched |-> timed]
    <3>2. new \in Records /\ new.status \notin {"building", "uploading"}
      BY DEF Records, Statuses
    <3> HIDE DEF new
    <3>3. Asks(r, "patch", c, new)
      BY <3>1 DEF new
    <3> QED BY <3>2, <3>3 DEF Asks
  <2>4. CASE DeleteRead(r, c)
    BY <2>1, <2>4 DEF DeleteRead, Asks, Absent
  <2>5. CASE BuildRead(r, c) \/ TickRead(r, c)
    BY <2>1, <2>5 DEF BuildRead, TickRead, Asks, Absent
  <2> QED BY <2>2, <2>3, <2>4, <2>5 DEF Reads
<1>2. request' \in [Requests -> [op: Ops, id: Manifests, new: Records]] /\ NewIsCalm'
  BY <1>1 DEF BuildInv, NewIsCalm, Ops
<1>3. BusyIsBuilt'
  BY <1>1 DEF BuildInv, BusyIsBuilt, Busy
<1> QED BY <1>1, <1>2, <1>3 DEF BuildInv

\* A status that is written: an absent manifest stays absent, the others get it.
LEMMA StatusOf ==
    ASSUME NEW was \in Records, NEW status \in Statuses
    PROVE  /\ Status(was, status) \in Records
           /\ Status(was, status).status \in {"absent", status}
BY DEF Status, Records, Statuses

\* What is not a build's status makes nothing busy that was not.
LEMMA CalmWrite ==
    ASSUME BuildInv, NEW c \in Manifests, NEW new \in Records,
           new.status \in {"building", "uploading"} => new.status = manifest[c].status,
           manifest' = [manifest EXCEPT ![c] = new]
    PROVE  manifest' \in [Manifests -> Records] /\ \A d \in Manifests : Busy(d)' => Busy(d)
BY DEF BuildInv, Busy

LEMMA StoresInv ==
    ASSUME BuildInv, NEW r \in Requests, Stores(r)
    PROVE  BuildInv'
<1> DEFINE c == request[r].id
           new == request[r].new
<1>1. c \in Manifests /\ new \in Records /\ new.status \notin {"building", "uploading"}
  BY DEF BuildInv, NewIsCalm
<1>2. NoRequest \in [op: Ops, id: Manifests, new: Records]
      /\ NoRequest.new.status \notin {"building", "uploading"}
  <2>1. AnyId \in Manifests
    BY <1>1 DEF AnyId
  <2>2. Absent \in Records /\ Absent.status = "absent"
    BY DEF Absent, Records, Statuses
  <2> QED BY <2>1, <2>2 DEF NoRequest, Ops
<1>3. request' = [request EXCEPT ![r] = NoRequest]
  BY DEF Stores, CreateStore, PatchStore, DeleteStore, BuildStore, Answered
<1>4. request' \in [Requests -> [op: Ops, id: Manifests, new: Records]] /\ NewIsCalm'
  BY <1>2, <1>3 DEF BuildInv, NewIsCalm
<1>5. CASE CreateStore(r) \/ PatchStore(r) \/ DeleteStore(r)
  <2>1. PICK m \in Records :
          /\ m.status \in {"building", "uploading"} => m.status = manifest[c].status
          /\ manifest' = [manifest EXCEPT ![c] = m]
    <3>1. CASE CreateStore(r)
      BY <1>1, <3>1 DEF CreateStore
    <3>2. CASE PatchStore(r)
      <4>1. manifest[c] \in Records
        BY <1>1 DEF BuildInv
      <4>2. manifest' = [manifest EXCEPT ![c] = Merged(manifest[c], new)]
        BY <1>1, <3>2 DEF PatchStore, BuildInv
      <4>3. /\ Merged(manifest[c], new) \in Records
            /\ Merged(manifest[c], new).status \in {manifest[c].status, new.status}
        BY <1>1, <4>1 DEF Merged, Records
      <4> QED BY <1>1, <4>2, <4>3
    <3>3. CASE DeleteStore(r)
      BY <3>3 DEF DeleteStore, Absent, Records, Statuses
    <3> QED BY <1>5, <3>1, <3>2, <3>3
  <2>2. manifest' \in [Manifests -> Records] /\ \A d \in Manifests : Busy(d)' => Busy(d)
    BY <1>1, <2>1, CalmWrite
  <2>3. builder' = builder /\ orphans' = orphans
    BY <1>5 DEF CreateStore, PatchStore, DeleteStore
  <2>4. BusyIsBuilt'
    BY <2>2, <2>3 DEF BuildInv, BusyIsBuilt
  <2> QED BY <1>4, <2>2, <2>3, <2>4 DEF BuildInv
<1>6. CASE BuildStore(r)
  <2>1. PICK b \in Builders :
          /\ builder[b].step = "idle"
          /\ builder' = [builder EXCEPT ![b] = [step |-> "queued", id |-> c]]
    BY <1>6 DEF BuildStore
  <2>2. manifest' = [manifest EXCEPT ![c] = Status(manifest[c], "building")]
        /\ orphans' = orphans \ {c}
    BY <1>1, <1>6 DEF BuildStore, BuildInv
  <2>3. Status(manifest[c], "building") \in Records
    BY <1>1, StatusOf DEF BuildInv, Statuses
  <2>4. BusyIsBuilt'
    <3> SUFFICES ASSUME NEW d \in Manifests, Busy(d)', d \notin orphans'
                 PROVE  \E e \in Builders : builder'[e].step # "idle" /\ builder'[e].id = d
      BY DEF BusyIsBuilt
    <3>1. CASE d = c
      BY <2>1, <3>1 DEF BuildInv
    <3>2. CASE d # c
      <4>1. PICK e \in Builders : builder[e].step # "idle" /\ builder[e].id = d
        BY <2>2, <3>2 DEF BuildInv, BusyIsBuilt, Busy
      <4> QED BY <2>1, <4>1 DEF BuildInv
    <3> QED BY <3>1, <3>2
  <2>5. manifest' \in [Manifests -> Records]
    BY <1>1, <2>2, <2>3 DEF BuildInv
  <2>6. builder' \in [Builders -> [step: Steps, id: Manifests]]
    BY <1>1, <2>1 DEF BuildInv, Steps
  <2> QED BY <1>4, <2>4, <2>5, <2>6 DEF BuildInv
<1> QED BY <1>5, <1>6 DEF Stores

\* A build thread goes on, or leaves its manifest in a status of rest.
LEMMA BuildsInv ==
    ASSUME BuildInv, NEW b \in Builders, Builds(b)
    PROVE  BuildInv'
<1> DEFINE c == builder[b].id
<1>1. c \in Manifests /\ manifest[c] \in Records
  BY DEF BuildInv
<1>2. request' = request /\ orphans' = orphans
  BY DEF Builds, Admit, SlotTimeout, Start, Fetched, Joined, Uploaded, BuildFails
<1>3. request' \in [Requests -> [op: Ops, id: Manifests, new: Records]] /\ NewIsCalm'
  BY <1>2 DEF BuildInv, NewIsCalm
<1>4. ASSUME NEW status \in Statuses, Sets(c, status)
      PROVE  /\ manifest' \in [Manifests -> Records]
             /\ \A d \in Manifests \ {c} : manifest'[d] = manifest[d]
             /\ manifest'[c].status \in {"absent", status}
  BY <1>1, <1>4, StatusOf DEF Sets, BuildInv
<1>5. ASSUME NEW stage \in Steps \ {"idle"}, GoesTo(b, stage), builder[b].step # "idle",
             \/ manifest' = manifest
             \/ \E status \in Statuses : Sets(c, status)
      PROVE  BuildInv'
  <2>1. /\ builder' \in [Builders -> [step: Steps, id: Manifests]]
        /\ builder'[b].step # "idle"
        /\ \A e \in Builders : builder'[e].id = builder[e].id
        /\ \A e \in Builders \ {b} : builder'[e] = builder[e]
    BY <1>5 DEF GoesTo, BuildInv
  <2>2. /\ manifest' \in [Manifests -> Records]
        /\ \A d \in Manifests \ {c} : manifest'[d] = manifest[d]
    BY <1>4, <1>5 DEF BuildInv
  <2>3. BusyIsBuilt'
    <3> SUFFICES ASSUME NEW d \in Manifests, Busy(d)', d \notin orphans'
                 PROVE  \E e \in Builders : builder'[e].step # "idle" /\ builder'[e].id = d
      BY DEF BusyIsBuilt
    <3>1. CASE d = c
      BY <2>1, <3>1
    <3>2. CASE d # c
      <4>1. PICK e \in Builders : builder[e].step # "idle" /\ builder[e].id = d
        BY <1>2, <2>2, <3>2 DEF BuildInv, BusyIsBuilt, Busy
      <4> QED BY <2>1, <4>1
    <3> QED BY <3>1, <3>2
  <2> QED BY <1>3, <2>1, <2>2, <2>3 DEF BuildInv
<1>6. ASSUME Ends(b),
             \/ manifest' = manifest /\ ~Exists(c)
             \/ \E status \in {"done", "error"} : Sets(c, status)
      PROVE  BuildInv'
  <2>1. NoBuild \in [step: Steps, id: Manifests]
    BY <1>1 DEF NoBuild, AnyId, Steps
  <2>2. /\ builder' \in [Builders -> [step: Steps, id: Manifests]]
        /\ \A e \in Builders \ {b} : builder'[e] = builder[e]
    BY <1>6, <2>1 DEF Ends, BuildInv
  <2>3. /\ manifest' \in [Manifests -> Records]
        /\ \A d \in Manifests \ {c} : manifest'[d] = manifest[d]
        /\ manifest'[c].status \notin {"building", "uploading"}
    BY <1>1, <1>4, <1>6 DEF BuildInv, Exists, Statuses
  <2>4. BusyIsBuilt'
    <3> SUFFICES ASSUME NEW d \in Manifests, Busy(d)', d \notin orphans'
                 PROVE  \E e \in Builders : builder'[e].step # "idle" /\ builder'[e].id = d
      BY DEF BusyIsBuilt
    <3>1. d # c
      BY <2>3 DEF Busy
    <3>2. PICK e \in Builders : builder[e].step # "idle" /\ builder[e].id = d
      BY <1>2, <2>3, <3>1 DEF BuildInv, BusyIsBuilt, Busy
    <3> QED BY <2>2, <3>1, <3>2
  <2> QED BY <1>3, <2>2, <2>3, <2>4 DEF BuildInv
<1> HIDE DEF c
<1>7. CASE Admit(b) \/ Fetched(b)
  <2>1. \E stage \in Steps \ {"idle"} : GoesTo(b, stage) /\ builder[b].step # "idle"
    BY <1>7 DEF Admit, Fetched, Steps, Admitted
  <2> QED BY <1>5, <1>7, <2>1 DEF Admit, Fetched
<1>8. CASE SlotTimeout(b) \/ Uploaded(b) \/ BuildFails(b)
  <2>1. Ends(b) /\ \E status \in {"done", "error"} : Sets(c, status)
    BY <1>8 DEF SlotTimeout, Uploaded, BuildFails, CrashNoticed, c
  <2> QED BY <1>6, <2>1
<1>9. CASE Start(b)
  <2>1. CASE GoesTo(b, "fetching") /\ Sets(c, "building")
    <3>1. builder[b].step # "idle"
      BY <1>9 DEF Start
    <3> QED BY <1>5, <2>1, <3>1 DEF Steps, Admitted, Statuses
  <2>2. CASE Ends(b) /\ (Sets(c, "error") \/ (manifest' = manifest /\ ~Exists(c)))
    BY <1>6, <2>2
  <2> QED BY <1>9, <2>1, <2>2 DEF Start, c
<1>10. CASE Joined(b)
  <2>1. CASE GoesTo(b, "uploading") /\ Sets(c, "uploading")
    <3>1. builder[b].step # "idle"
      BY <1>10 DEF Joined
    <3> QED BY <1>5, <2>1, <3>1 DEF Steps, Admitted, Statuses
  <2>2. CASE Ends(b) /\ Sets(c, "done")
    BY <1>6, <2>2
  <2> QED BY <1>10, <2>1, <2>2 DEF Joined, c
<1> QED BY <1>7, <1>8, <1>9, <1>10 DEF Builds

\* A restart ends every thread, and what was busy is known to be left over.
LEMMA RestartInv == ASSUME BuildInv, RestartCompilations PROVE BuildInv'
<1>1. AnyId \in Manifests
  BY ManifestsAssumption DEF AnyId
<1>2. Absent \in Records /\ Absent.status = "absent"
  BY DEF Absent, Records, Statuses
<1>3. manifest' = manifest /\ orphans' = {c \in Manifests : Busy(c)}
  BY DEF RestartCompilations
<1>4. BusyIsBuilt'
  BY <1>3 DEF BusyIsBuilt, Busy
<1>5. request' \in [Requests -> [op: Ops, id: Manifests, new: Records]] /\ NewIsCalm'
  BY <1>1, <1>2 DEF RestartCompilations, NoRequest, NewIsCalm, Ops
<1>6. builder' \in [Builders -> [step: Steps, id: Manifests]]
  BY <1>1 DEF RestartCompilations, NoBuild, Steps
<1> QED BY <1>3, <1>4, <1>5, <1>6 DEF BuildInv

LEMMA BuildInvStep ==
    ASSUME BuildInv, [CompilationNext]_compilationVars
    PROVE  BuildInv'
<1>1. CASE UNCHANGED compilationVars
  BY <1>1 DEF compilationVars, BuildInv, NewIsCalm, BusyIsBuilt, Busy
<1>2. CASE CompilationNext
  <2>1. CASE \E r \in Requests : Stores(r) \/ \E c \in Manifests : Reads(r, c)
    BY <2>1, StoresInv, ReadsInv
  <2>2. CASE \E b \in Builders : Builds(b)
    BY <2>2, BuildsInv
  <2>3. CASE RestartCompilations
    BY <2>3, RestartInv
  <2> QED BY <1>2, <2>1, <2>2, <2>3 DEF CompilationNext
<1> QED BY <1>1, <1>2

\* No compilation hangs on building or uploading without a thread at it, but for those a
\* restart of the dashboard has left over (_run_compilation_build).
THEOREM NoBuildHangs == CompilationSpec => []BusyIsBuilt
<1>1. BuildInv => BusyIsBuilt
  BY DEF BuildInv
<1> QED BY BuildInvInit, BuildInvStep, <1>1, PTL DEF CompilationSpec

\* The types of the rest.
LEMMA CompilationTypesInit == CompilationInit => CompilationTypeOK
<1>1. AnyId \in Manifests
  BY ManifestsAssumption DEF AnyId
<1>2. Absent \in Records
  BY DEF Absent, Records, Statuses
<1> QED BY <1>1, <1>2, ManifestsAssumption DEF CompilationInit, CompilationTypeOK, NoRequest, NoBuild

LEMMA CompilationTypesStep ==
    ASSUME BuildInv, CompilationTypeOK, [CompilationNext]_compilationVars
    PROVE  CompilationTypeOK'
<1>1. BuildInv'
  BY BuildInvStep
<1>2. workdir' \in SUBSET Manifests /\ orphans' \in SUBSET Manifests /\ restarts' \in 0..MaxRestarts
  <2>1. CASE UNCHANGED compilationVars
    BY <2>1 DEF compilationVars, CompilationTypeOK
  <2>2. CASE \E r \in Requests : Stores(r) \/ \E c \in Manifests : Reads(r, c)
    BY <2>2 DEF CompilationTypeOK, Stores, CreateStore, PatchStore, DeleteStore, BuildStore, Reads,
       CreateRead, PatchRead, DeleteRead, BuildRead, TickRead, Asks
  <2>3. ASSUME NEW b \in Builders, Builds(b)
        PROVE  workdir' \in SUBSET Manifests /\ orphans' \in SUBSET Manifests /\ restarts' \in 0..MaxRestarts
    <3>1. builder[b].id \in Manifests
      BY DEF CompilationTypeOK
    <3> QED BY <2>3, <3>1 DEF CompilationTypeOK, Builds, Admit, SlotTimeout, Start, Fetched, Joined,
            Uploaded, BuildFails
  <2>4. CASE RestartCompilations
    BY <2>4, ManifestsAssumption DEF CompilationTypeOK, RestartCompilations
  <2> QED BY <2>1, <2>2, <2>3, <2>4 DEF CompilationNext
<1> QED BY <1>1, <1>2 DEF BuildInv, CompilationTypeOK, Ops, Steps

------------------------------------------------------------------------------
(* DetectionGrid: the night is in the order of time, so what a head takes   *)
(* with it lies within the window, and two heads share nothing.             *)

\* The night is in the order of time.
GridInv ==
    /\ Grid!GridTypeOK
    /\ \A i, j \in 1..Len(detected) : i <= j => detected[i].time <= detected[j].time

LEMMA GridInvInit == ASSUME Grid!GridInit PROVE GridInv
BY GridAssumption DEF Grid!GridInit, Grid!GridTypeOK, GridInv

LEMMA GridInvStep == ASSUME GridInv, Grid!GridNext PROVE GridInv'
<1>1. PICK c \in GridCams, t \in 0..(Day - 1), o \in 0..1 : Grid!Report(c, t, o)
  BY DEF Grid!GridNext
<1>. DEFINE new == [cam |-> c, time |-> t, offset |-> o]
            Rows0 == [cam : GridCams, time : 0..(Day - 1), offset : 0..1]
<1>2. /\ Len(detected) < MaxDetections /\ detected' = Append(detected, new)
      /\ detected # <<>> => detected[Len(detected)].time <= t
  BY <1>1 DEF Grid!Report
<1>3. new \in Rows0 /\ new.time = t /\ detected \in Seq(Rows0) /\ t \in Nat
  BY GridAssumption DEF GridInv, Grid!GridTypeOK
<1>. HIDE DEF new
<1>. HIDE DEF Rows0
<1>4. \A i \in 1..Len(detected) : detected[i].time \in 0..(Day - 1)
  <2>1. \A i \in 1..Len(detected) : detected[i] \in Rows0
    BY <1>3
  <2>. QED  BY <2>1 DEF Rows0
<1>5. /\ detected' \in Seq(Rows0) /\ Len(detected') = Len(detected) + 1 /\ Len(detected) \in Nat
      /\ detected'[Len(detected) + 1] = new
      /\ \A i \in 1..Len(detected) : detected'[i] = detected[i]
  BY <1>2, <1>3
<1>6. Grid!GridTypeOK'
  BY <1>2, <1>5, GridAssumption DEF Grid!GridTypeOK, Rows0
<1>7. \A i \in 1..Len(detected) : detected[i].time <= t
  <2>. SUFFICES ASSUME NEW i \in 1..Len(detected) PROVE detected[i].time <= t
    OBVIOUS
  <2>1. detected # <<>> /\ Len(detected) \in 1..Len(detected)
    BY <1>5
  <2>2. detected[i].time <= detected[Len(detected)].time
    BY <1>5, <2>1 DEF GridInv
  <2>. QED  BY <1>2, <1>3, <1>4, <2>1, <2>2, GridAssumption
<1>8. ASSUME NEW i \in 1..Len(detected'), NEW j \in 1..Len(detected'), i <= j
      PROVE  detected'[i].time <= detected'[j].time
  <2>1. CASE j <= Len(detected)
    BY <1>5, <1>8, <2>1 DEF GridInv
  <2>2. CASE j = Len(detected) + 1 /\ i <= Len(detected)
    BY <1>3, <1>5, <1>7, <2>2
  <2>3. CASE i = Len(detected) + 1 /\ j = i
    BY <1>3, <1>5, <2>3
  <2>. QED  BY <1>5, <1>8, <2>1, <2>2, <2>3
<1>. QED  BY <1>6, <1>8 DEF GridInv

\* The rows of the night.
LEMMA GridRows ==
    ASSUME GridInv
    PROVE  /\ Len(detected) \in Nat
           /\ \A i \in 1..Len(detected) :
                detected[i].cam \in GridCams /\ detected[i].time \in 0..(Day - 1) /\ detected[i].offset \in 0..1
<1>. DEFINE Row == [cam : GridCams, time : 0..(Day - 1), offset : 0..1]
<1>1. detected \in Seq(Row)
  BY DEF GridInv, Grid!GridTypeOK
<1>. HIDE DEF Row
<1>2. Len(detected) \in Nat /\ \A i \in 1..Len(detected) : detected[i] \in Row
  BY <1>1
<1>. QED  BY <1>2 DEF Row

\* What the first n detections have taken, by what those before took.
LEMMA TakenUnfolds ==
    ASSUME GridInv
    PROVE  /\ Grid!Taken[0] = {}
           /\ \A n \in 1..Len(detected) :
                Grid!Taken[n] = Grid!Taken[n - 1] \cup
                  (IF n \in Grid!Taken[n - 1] THEN {} ELSE Grid!Group(n, Grid!Taken[n - 1]))
<1>. DEFINE L == Len(detected)
            St(n, before) == before \cup (IF n \in before THEN {} ELSE Grid!Group(n, before))
            F(g, m) == g = [n \in 0..m |-> IF n = 0 THEN {} ELSE St(n, g[n - 1])]
            Bad == {m \in 0..L : ~\E g : F(g, m)}
<1>. DEFINE f == CHOOSE g : F(g, L)
<1>0. L \in Nat
  BY GridRows
<1>1. Grid!Taken = f
  BY DEF Grid!Taken
<1>. HIDE DEF St
<1>2. \E g : F(g, 0)
  <2>1. F([n \in 0..0 |-> {}], 0)
    OBVIOUS
  <2>. QED  BY <2>1
<1>3. ASSUME NEW m \in 1..L, NEW g, F(g, m - 1) PROVE \E h : F(h, m)
  <2>. DEFINE h == [n \in 0..m |-> IF n < m THEN g[n] ELSE St(m, g[m - 1])]
  <2>1. ASSUME NEW n \in 0..m PROVE h[n] = IF n = 0 THEN {} ELSE St(n, h[n - 1])
    <3>1. CASE n = 0
      BY <1>3, <3>1
    <3>2. CASE n # 0 /\ n < m
      <4>1. n \in 0..(m - 1) /\ n - 1 \in 0..m /\ n - 1 < m
        BY <1>0, <3>2
      <4>2. g[n] = St(n, g[n - 1]) /\ h[n] = g[n] /\ h[n - 1] = g[n - 1]
        BY <1>3, <3>2, <4>1
      <4>. QED  BY <3>2, <4>2
    <3>3. CASE n = m
      <4>1. m - 1 \in 0..m /\ m - 1 < m /\ m # 0 /\ ~(m < m)
        BY <1>0
      <4>2. h[m] = St(m, g[m - 1]) /\ h[m - 1] = g[m - 1]
        BY <4>1
      <4>. QED  BY <3>3, <4>1, <4>2
    <3>. QED  BY <1>0, <3>1, <3>2, <3>3
  <2>2. h = [n \in 0..m |-> IF n = 0 THEN {} ELSE St(n, h[n - 1])]
    <3>1. h = [n \in 0..m |-> h[n]]
      OBVIOUS
    <3>. HIDE DEF h
    <3>. QED  BY <2>1, <3>1
  <2>. QED  BY <2>2
<1>. HIDE DEF F
<1>4. Bad = {}
  <2>. SUFFICES ASSUME Bad # {} PROVE FALSE
    OBVIOUS
  <2>1. Bad \in SUBSET Nat
    BY <1>0
  <2>2. PICK m \in Bad : \A e \in Bad : m <= e
    BY <2>1, LeastOf
  <2>3. m \in 1..L /\ m - 1 \in 0..L /\ ~(m <= m - 1)
    BY <1>0, <1>2, <2>2
  <2>4. \E g : F(g, m - 1)
    BY <2>2, <2>3
  <2>. QED  BY <1>3, <2>2, <2>3, <2>4
<1>5. F(f, L)
  <2>1. \E g : F(g, L)
    BY <1>0, <1>4
  <2>. QED  BY <2>1
<1>. HIDE DEF f
<1>6. /\ f[0] = {}
      /\ \A n \in 1..L : f[n] = St(n, f[n - 1])
  <2>1. f = [n \in 0..L |-> IF n = 0 THEN {} ELSE St(n, f[n - 1])]
    BY <1>5 DEF F
  <2>2. ASSUME NEW n \in 0..L PROVE f[n] = IF n = 0 THEN {} ELSE St(n, f[n - 1])
    BY <2>1
  <2>3. 0 \in 0..L /\ \A n \in 1..L : n \in 0..L /\ n # 0
    BY <1>0
  <2>. QED  BY <2>2, <2>3
<1>. QED  BY <1>1, <1>6 DEF St

\* What is taken stays taken, and each detection is by its turn.
LEMMA TakenGrows ==
    ASSUME GridInv
    PROVE  /\ \A m, n \in 0..Len(detected) : m <= n => Grid!Taken[m] \subseteq Grid!Taken[n]
           /\ \A n \in 1..Len(detected) : n \in Grid!Taken[n]
<1>. DEFINE L == Len(detected)
            T(n) == Grid!Taken[n]
            Bad == {n \in 0..L : \E m \in 0..n : ~(T(m) \subseteq T(n))}
<1>0. L \in Nat
  BY GridRows
<1>1. \A n \in 1..L : T(n - 1) \subseteq T(n) /\ n \in T(n)
  BY TakenUnfolds DEF Grid!Group
<1>. HIDE DEF T
<1>2. Bad = {}
  <2>. SUFFICES ASSUME Bad # {} PROVE FALSE
    OBVIOUS
  <2>1. Bad \in SUBSET Nat
    BY <1>0
  <2>2. PICK n \in Bad : \A e \in Bad : n <= e
    BY <2>1, LeastOf
  <2>3. PICK m \in 0..n : ~(T(m) \subseteq T(n))
    BY <2>2
  <2>4. n \in 1..L /\ m \in 0..(n - 1) /\ n - 1 \in 0..L /\ ~(n <= n - 1)
    BY <1>0, <2>2, <2>3
  <2>5. T(m) \subseteq T(n - 1)
    BY <2>2, <2>4
  <2>. QED  BY <1>1, <2>3, <2>4, <2>5
<1>3. \A m, n \in 0..L : m <= n => m \in 0..n
  BY <1>0
<1>. QED  BY <1>1, <1>2, <1>3 DEF T

\* A detection that is taken is of the group of a head before it.
LEMMA TakenByHead ==
    ASSUME GridInv, NEW n \in 0..Len(detected), NEW x \in Grid!Taken[n]
    PROVE  \E k \in 1..n : k \in Grid!Heads /\ x \in Grid!Group(k, Grid!Taken[k - 1])
<1>. DEFINE L == Len(detected)
            T(m) == Grid!Taken[m]
            Of(m, y) == \E k \in 1..m : k \in Grid!Heads /\ y \in Grid!Group(k, T(k - 1))
            Bad == {m \in 0..L : \E y \in T(m) : ~Of(m, y)}
<1>0. L \in Nat
  BY GridRows
<1>1. Bad = {}
  <2>. SUFFICES ASSUME Bad # {} PROVE FALSE
    OBVIOUS
  <2>1. Bad \in SUBSET Nat
    BY <1>0
  <2>2. PICK m \in Bad : \A e \in Bad : m <= e
    BY <2>1, LeastOf
  <2>3. PICK y \in T(m) : ~Of(m, y)
    BY <2>2
  <2>4. m \in 1..L /\ m - 1 \in 0..L /\ ~(m <= m - 1) /\ m \in 1..m
    BY <1>0, <2>2, <2>3, TakenUnfolds
  <2>5. y \notin T(m - 1)
    <3>1. \A z \in T(m - 1) : Of(m - 1, z)
      BY <2>2, <2>4
    <3>2. \A k \in 1..(m - 1) : k \in 1..m
      BY <2>4
    <3>. QED  BY <2>3, <3>1, <3>2
  <2>6. m \notin T(m - 1) /\ y \in Grid!Group(m, T(m - 1))
    BY <2>3, <2>4, <2>5, TakenUnfolds
  <2>7. m \in Grid!Heads
    BY <2>4, <2>6 DEF Grid!Heads
  <2>. QED  BY <2>3, <2>4, <2>6, <2>7
<1>. QED  BY <1>1

\* A group is within the window of its head.
LEMMA GroupIsNear ==
    ASSUME GridInv, NEW k \in 1..Len(detected), NEW before, NEW v \in Grid!Group(k, before)
    PROVE  /\ v \in 1..Len(detected) /\ k <= v
           /\ detected[k].time <= detected[v].time
           /\ detected[v].time - detected[k].time <= GridWindow
<1>1. v = k \/ (v \in (k + 1)..Len(detected) /\ detected[v].time - detected[k].time <= GridWindow)
  BY DEF Grid!Group, Grid!Near
<1>2. Len(detected) \in Nat /\ detected[k].time \in Int
  BY GridRows
<1>3. v \in 1..Len(detected) /\ k <= v
  BY <1>1, <1>2
<1>. QED  BY <1>1, <1>2, <1>3, GridAssumption DEF GridInv

\* Two groups have nothing in common.
LEMMA HeadsApart ==
    ASSUME GridInv, NEW h \in Grid!Heads, NEW k \in Grid!Heads, h < k
    PROVE  /\ Grid!Group(h, Grid!Taken[h - 1]) \cap Grid!Group(k, Grid!Taken[k - 1]) = {}
           /\ k \notin Grid!Group(h, Grid!Taken[h - 1])
           /\ k \notin Grid!Taken[h - 1]
<1>1. h \in 1..Len(detected) /\ k \in 1..Len(detected) /\ h \notin Grid!Taken[h - 1]
      /\ k \notin Grid!Taken[k - 1]
  BY DEF Grid!Heads
<1>2. h - 1 \in 0..Len(detected) /\ h \in 0..Len(detected) /\ k - 1 \in 0..Len(detected)
      /\ h <= k - 1 /\ h - 1 <= k - 1
  BY <1>1, GridRows
<1>3. Grid!Group(h, Grid!Taken[h - 1]) \subseteq Grid!Taken[h]
  BY <1>1, TakenUnfolds
<1>4. Grid!Taken[h] \subseteq Grid!Taken[k - 1] /\ Grid!Taken[h - 1] \subseteq Grid!Taken[k - 1]
  BY <1>2, TakenGrows
<1>5. Grid!Group(k, Grid!Taken[k - 1]) \cap Grid!Taken[k - 1] = {}
  BY <1>1 DEF Grid!Group
<1>. QED  BY <1>1, <1>3, <1>4, <1>5

\* The witnesses of a head are of its group, one of every camera in it.
LEMMA OneWitnessOfCamera ==
    ASSUME GridInv, NEW h \in Grid!Heads
    PROVE  /\ Grid!Witnesses(h) \subseteq Grid!Group(h, Grid!Taken[h - 1])
           /\ Grid!Witnesses(h) \subseteq 1..Len(detected)
           /\ \A v, w \in Grid!Witnesses(h) : detected[v].cam = detected[w].cam => v = w
           /\ \A x \in Grid!Group(h, Grid!Taken[h - 1]) :
                \E w \in Grid!Witnesses(h) : detected[w].cam = detected[x].cam
<1>. DEFINE group == Grid!Group(h, Grid!Taken[h - 1])
            Better(k, j) == \/ detected[k].offset > detected[j].offset
                            \/ detected[k].offset = detected[j].offset /\ k < j
<1>1. Grid!Witnesses(h) =
        {j \in group : ~\E k \in group : detected[k].cam = detected[j].cam /\ Better(k, j)}
  BY DEF Grid!Witnesses
<1>2. \A x \in group : x \in 1..Len(detected) /\ detected[x].offset \in 0..1 /\ x \in Nat
  <2>1. h \in 1..Len(detected)
    BY DEF Grid!Heads
  <2>. QED  BY <2>1, GroupIsNear, GridRows
<1>3. ASSUME NEW x \in group
      PROVE  \E w \in group : /\ detected[w].cam = detected[x].cam
                             /\ ~\E k \in group : detected[k].cam = detected[w].cam /\ Better(k, w)
  <2>. DEFINE Mine(o) == {k \in group : detected[k].cam = detected[x].cam /\ detected[k].offset = o}
  <2>1. ASSUME NEW o \in 0..1, Mine(o) # {}, o = 1 \/ Mine(1) = {}
        PROVE  \E w \in Mine(o) : ~\E k \in group : detected[k].cam = detected[w].cam /\ Better(k, w)
    <3>1. Mine(o) \in SUBSET Nat
      BY <1>2
    <3>2. PICK w \in Mine(o) : \A e \in Mine(o) : w <= e
      BY <2>1, <3>1, LeastOf
    <3>3. ASSUME NEW k \in group, detected[k].cam = detected[w].cam, Better(k, w) PROVE FALSE
      <4>1. detected[k].offset \in 0..1 /\ k \in Nat /\ w \in Nat /\ detected[w].offset = o
            /\ detected[k].cam = detected[x].cam
        BY <1>2, <3>2, <3>3
      <4>2. CASE detected[k].offset = o
        BY <3>2, <3>3, <4>1, <4>2
      <4>3. CASE detected[k].offset # o
        BY <2>1, <3>3, <4>1, <4>3
      <4>. QED  BY <4>2, <4>3
    <3>. QED  BY <3>2, <3>3
  <2>2. CASE Mine(1) # {}
    BY <2>1, <2>2
  <2>3. CASE Mine(1) = {}
    <3>1. x \in Mine(0)
      BY <1>2, <2>3
    <3>. QED  BY <2>1, <2>3, <3>1
  <2>. QED  BY <2>2, <2>3
<1>4. ASSUME NEW v \in Grid!Witnesses(h), NEW w \in Grid!Witnesses(h), detected[v].cam = detected[w].cam
      PROVE  v = w
  <2>1. v \in group /\ w \in group /\ ~Better(v, w) /\ ~Better(w, v)
    BY <1>1, <1>4
  <2>. QED  BY <1>2, <2>1
<1>. HIDE DEF Better, group
<1>5. Grid!Witnesses(h) \subseteq group
  BY <1>1
<1>6. \A x \in group : \E w \in Grid!Witnesses(h) : detected[w].cam = detected[x].cam
  BY <1>1, <1>3
<1>. QED  BY <1>2, <1>4, <1>5, <1>6 DEF group

LEMMA GridCardinality == ASSUME NEW S PROVE Grid!Cardinality(S) = Cardinality(S)
BY DEF Grid!Cardinality, Cardinality

LEMMA PairHasTwo == ASSUME NEW a, NEW b, a # b PROVE Cardinality({a, b}) = 2
<1>1. IsFiniteSet({a}) /\ Cardinality({a}) = 1 /\ b \notin {a}
  BY FS_Singleton
<1>2. Cardinality({a} \cup {b}) = 1 + 1
  BY ONLY <1>1, FS_AddElement
<1>3. {a, b} = {a} \cup {b}
  OBVIOUS
<1>. QED  BY <1>2, <1>3

\* Stations of a set of detections.
LEMMA TwoStations ==
    ASSUME GridInv, NEW ws \in SUBSET (1..Len(detected))
    PROVE  /\ IsFiniteSet(Grid!StationsOf(ws))
           /\ \A v, w \in ws :
                GridStationOf(detected[v].cam) # GridStationOf(detected[w].cam)
                => Cardinality(Grid!StationsOf(ws)) >= 2
<1>1. IsFiniteSet(ws)
  <2>1. IsFiniteSet(1..Len(detected))
    BY GridRows, FS_Interval
  <2>. QED  BY <2>1, FS_Subset
<1>2. IsFiniteSet(Grid!StationsOf(ws))
  <2>. DEFINE f == [w \in ws |-> GridStationOf(detected[w].cam)]
  <2>1. Grid!StationsOf(ws) = {f[w] : w \in ws}
    BY DEF Grid!StationsOf
  <2>2. f \in Surjection(ws, Grid!StationsOf(ws))
    BY <2>1 DEF Surjection
  <2>. QED  BY <1>1, <2>2, FS_Surjection
<1>3. ASSUME NEW v \in ws, NEW w \in ws,
             GridStationOf(detected[v].cam) # GridStationOf(detected[w].cam)
      PROVE  Cardinality(Grid!StationsOf(ws)) >= 2
  <2>. DEFINE a == GridStationOf(detected[v].cam)
              b == GridStationOf(detected[w].cam)
  <2>1. {a, b} \subseteq Grid!StationsOf(ws)
    BY DEF Grid!StationsOf
  <2>2. Cardinality({a, b}) = 2
    BY <1>3, PairHasTwo
  <2>3. Cardinality({a, b}) <= Cardinality(Grid!StationsOf(ws))
    BY <1>2, <2>1, FS_Subset
  <2>4. Cardinality(Grid!StationsOf(ws)) \in Nat
    BY <1>2, FS_CardinalityType
  <2>. QED  BY <2>2, <2>3, <2>4
<1>. QED  BY <1>2, <1>3

\* An event has a witness.
LEMMA EventsHaveWitnesses ==
    ASSUME NEW ws \in Grid!Events PROVE ws # {}
<1>1. Cardinality(Grid!StationsOf(ws)) >= 2
  BY GridCardinality DEF Grid!Events
<1>2. ASSUME ws = {} PROVE FALSE
  <2>1. Grid!StationsOf(ws) = {}
    BY <1>2 DEF Grid!StationsOf
  <2>. QED  BY <1>1, <2>1, FS_EmptySet
<1>. QED  BY <1>2

\* Nor have two events.
LEMMA EventsAreApart ==
    ASSUME GridInv, NEW h \in Grid!Heads, NEW k \in Grid!Heads, h # k,
           Grid!Witnesses(h) \in Grid!Events
    PROVE  Grid!Witnesses(h) \cap Grid!Witnesses(k) = {} /\ Grid!Witnesses(h) # Grid!Witnesses(k)
<1>1. Grid!Witnesses(h) # {}
  BY EventsHaveWitnesses
<1>2. h \in Int /\ k \in Int
  BY DEF Grid!Heads
<1>3. Grid!Group(h, Grid!Taken[h - 1]) \cap Grid!Group(k, Grid!Taken[k - 1]) = {}
  <2>1. CASE h < k
    BY <2>1, HeadsApart
  <2>2. CASE k < h
    BY <2>2, HeadsApart
  <2>. QED  BY <1>2, <2>1, <2>2
<1>. QED  BY <1>1, <1>3, OneWitnessOfCamera

\* A detection that nothing comes shortly before leads a group, and what comes shortly after
\* is of it.
LEMMA FirstLeads ==
    ASSUME GridInv, NEW i \in 1..Len(detected), NEW j \in 1..Len(detected), i < j,
           Grid!Near(i, j), \A k \in 1..(i - 1) : ~Grid!Near(k, i)
    PROVE  i \in Grid!Heads /\ j \in Grid!Group(i, Grid!Taken[i - 1])
<1>1. ASSUME NEW x \in {i, j}, x \in Grid!Taken[i - 1] PROVE FALSE
  <2>1. i - 1 \in 0..Len(detected) /\ Len(detected) \in Nat
    BY GridRows
  <2>2. PICK k \in 1..(i - 1) : x \in Grid!Group(k, Grid!Taken[k - 1])
    BY <1>1, <2>1, TakenByHead
  <2>3. k \in 1..Len(detected) /\ k < i /\ x \in 1..Len(detected) /\ i <= x
    BY <2>1, <2>2
  <2>4. detected[x].time - detected[k].time <= GridWindow
    BY <2>2, <2>3, GroupIsNear
  <2>5. detected[i].time <= detected[x].time
    BY <2>3 DEF GridInv
  <2>6. detected[i].time \in Int /\ detected[x].time \in Int /\ detected[k].time \in Int
    BY <2>3, GridRows
  <2>. QED  BY <2>2, <2>4, <2>5, <2>6, GridAssumption DEF Grid!Near
<1>2. j \in (i + 1)..Len(detected)
  BY GridRows
<1>. QED  BY <1>1, <1>2 DEF Grid!Heads, Grid!Group

LEMMA GridEventsAreTrue == ASSUME GridInv PROVE Grid!EventsAreTrue
<1>1. ASSUME NEW ws \in Grid!Events
      PROVE  /\ Grid!Cardinality({GridStationOf(detected[w].cam) : w \in ws}) >= 2
             /\ \A v, w \in ws : (detected[v].cam = detected[w].cam => v = w) /\ Grid!Near(v, w)
             /\ \A us \in Grid!Events : us = ws \/ us \cap ws = {}
  <2>1. PICK h \in Grid!Heads : ws = Grid!Witnesses(h)
    BY DEF Grid!Events
  <2>2. Grid!Cardinality(Grid!StationsOf(ws)) >= 2
    BY DEF Grid!Events
  <2>3. ASSUME NEW v \in ws, NEW w \in ws
        PROVE  (detected[v].cam = detected[w].cam => v = w) /\ Grid!Near(v, w)
    <3>1. detected[v].cam = detected[w].cam => v = w
      BY <2>1, OneWitnessOfCamera
    <3>2. v \in Grid!Group(h, Grid!Taken[h - 1]) /\ w \in Grid!Group(h, Grid!Taken[h - 1])
      BY <2>1, OneWitnessOfCamera
    <3>3. h \in 1..Len(detected)
      BY DEF Grid!Heads
    <3>4. /\ v \in 1..Len(detected) /\ w \in 1..Len(detected)
          /\ detected[h].time <= detected[v].time
          /\ detected[w].time - detected[h].time <= GridWindow
      BY <3>2, <3>3, GroupIsNear
    <3>5. detected[h].time \in Int /\ detected[v].time \in Int /\ detected[w].time \in Int
      BY <3>3, <3>4, GridRows
    <3>6. detected[w].time - detected[v].time <= GridWindow
      BY <3>4, <3>5, GridAssumption
    <3>. QED  BY <3>1, <3>6 DEF Grid!Near
  <2>4. ASSUME NEW us \in Grid!Events PROVE us = ws \/ us \cap ws = {}
    <3>1. PICK k \in Grid!Heads : us = Grid!Witnesses(k)
      BY DEF Grid!Events
    <3>. QED  BY <2>1, <3>1, EventsAreApart
  <2>. QED  BY <2>2, <2>3, <2>4 DEF Grid!StationsOf
<1>2. ASSUME NEW i \in 1..Len(detected), NEW j \in 1..Len(detected), i < j, Grid!Near(i, j),
             GridStationOf(detected[i].cam) # GridStationOf(detected[j].cam),
             \A k \in 1..(i - 1) : ~Grid!Near(k, i)
      PROVE  \E ws \in Grid!Events :
               {detected[i].cam, detected[j].cam} \subseteq {detected[w].cam : w \in ws}
  <2>1. i \in Grid!Heads /\ j \in Grid!Group(i, Grid!Taken[i - 1])
    BY <1>2, FirstLeads
  <2>2. i \in Grid!Group(i, Grid!Taken[i - 1])
    BY DEF Grid!Group
  <2>3. PICK v \in Grid!Witnesses(i) : detected[v].cam = detected[i].cam
    BY <2>1, <2>2, OneWitnessOfCamera
  <2>4. PICK w \in Grid!Witnesses(i) : detected[w].cam = detected[j].cam
    BY <2>1, OneWitnessOfCamera
  <2>5. Grid!Witnesses(i) \in SUBSET (1..Len(detected))
    BY <2>1, OneWitnessOfCamera
  <2>6. Grid!Cardinality(Grid!StationsOf(Grid!Witnesses(i))) >= 2
    <3>1. GridStationOf(detected[v].cam) # GridStationOf(detected[w].cam)
      BY <1>2, <2>3, <2>4
    <3>. QED  BY <2>5, <3>1, TwoStations, GridCardinality
  <2>7. Grid!Witnesses(i) \in Grid!Events
    BY <2>1, <2>6 DEF Grid!Events
  <2>. QED  BY <2>3, <2>4, <2>7
<1>3. ASSUME NEW pub, NEW ws \in Grid!PublicEvents(pub)
      PROVE  Grid!Cardinality({GridStationOf(detected[w].cam) : w \in ws} \cap pub) >= 2
  <2>1. Grid!Cardinality(Grid!StationsOf(ws)) >= 2
    BY DEF Grid!PublicEvents
  <2>2. PICK e \in Grid!Events : ws = Grid!PublicPart(e, pub)
    BY DEF Grid!PublicEvents
  <2>3. Grid!StationsOf(ws) = {GridStationOf(detected[w].cam) : w \in ws} \cap pub
    BY <2>2 DEF Grid!StationsOf, Grid!PublicPart
  <2>. QED  BY <2>1, <2>3
<1>4. \A i, j \in 1..Len(detected) :
        /\ i < j /\ Grid!Near(i, j) /\ GridStationOf(detected[i].cam) # GridStationOf(detected[j].cam)
        /\ \A k \in 1..(i - 1) : ~Grid!Near(k, i)
        => \E ws \in Grid!Events :
             {detected[i].cam, detected[j].cam} \subseteq {detected[w].cam : w \in ws}
  BY <1>2
<1>5. \A pub \in SUBSET {GridStationOf(c) : c \in GridCams} : \A ws \in Grid!PublicEvents(pub) :
        Grid!Cardinality({GridStationOf(detected[w].cam) : w \in ws} \cap pub) >= 2
  BY <1>3
<1>. QED  BY <1>1, <1>4, <1>5, Zenon DEF Grid!EventsAreTrue

\* Two heads are never of one time.
LEMMA HeadsDiffer ==
    ASSUME GridInv, NEW h \in Grid!Heads, NEW k \in Grid!Heads, detected[h].time = detected[k].time
    PROVE  h = k
<1>1. h \in 1..Len(detected) /\ k \in 1..Len(detected) /\ h \in Int /\ k \in Int
      /\ Len(detected) \in Nat
  BY GridRows DEF Grid!Heads
<1>2. ASSUME NEW a \in Grid!Heads, NEW b \in Grid!Heads, detected[a].time = detected[b].time, a < b
      PROVE  FALSE
  <2>1. a \in 1..Len(detected) /\ b \in (a + 1)..Len(detected) /\ detected[a].time \in Int
        /\ detected[b].time \in Int
    BY <1>1, <1>2, GridRows DEF Grid!Heads
  <2>2. Grid!Near(a, b)
    BY <1>2, <2>1, GridAssumption DEF Grid!Near
  <2>3. b \notin Grid!Taken[a - 1] /\ b \notin Grid!Group(a, Grid!Taken[a - 1])
    BY <1>2, HeadsApart
  <2>. QED  BY <2>1, <2>2, <2>3 DEF Grid!Group
<1>. QED  BY <1>1, <1>2

LEMMA GridListIsTrue == ASSUME GridInv PROVE Grid!PublicListIsTrue
<1>1. ASSUME NEW ws \in Grid!Events PROVE Grid!Detail(Grid!EventTime(ws)) = ws
  <2>. DEFINE First(t, i) == /\ Grid!Witnesses(i) \in Grid!Events /\ detected[i].time = t
                            /\ \A k \in Grid!Heads :
                                 Grid!Witnesses(k) \in Grid!Events /\ detected[k].time = t => i <= k
              e == CHOOSE i \in Grid!Heads : Grid!Witnesses(i) = ws
              t == detected[e].time
              d == CHOOSE i \in Grid!Heads : First(t, i)
  <2>1. \E i \in Grid!Heads : Grid!Witnesses(i) = ws
    BY DEF Grid!Events
  <2>2. e \in Grid!Heads /\ Grid!Witnesses(e) = ws
    BY <2>1
  <2>3. Grid!EventTime(ws) = t
    BY DEF Grid!EventTime
  <2>4. Grid!Detail(t) = Grid!Witnesses(d)
    BY DEF Grid!Detail
  <2>. HIDE DEF e
  <2>5. First(t, e)
    <3>1. ASSUME NEW k \in Grid!Heads, detected[k].time = t PROVE e <= k
      <4>1. e = k /\ e \in Int
        BY <2>2, <3>1, HeadsDiffer DEF Grid!Heads
      <4>. QED  BY <4>1
    <3>. QED  BY <2>2, <3>1
  <2>6. d \in Grid!Heads /\ First(t, d)
    BY <2>2, <2>5
  <2>7. d = e
    BY <2>2, <2>6, HeadsDiffer
  <2>. QED  BY <2>2, <2>3, <2>4, <2>7
<1>2. ASSUME NEW ws \in Grid!Events, NEW g, NEW cam, NEW pub, NEW t
      PROVE  \/ Grid!LocalListed("evening", ws, t, g, cam, pub)
             \/ Grid!PublicPart(ws, pub) = {}
             \/ Grid!GmnListed("evening", g, cam, pub) /\ Grid!Close(t, g, Merge)
  BY DEF Grid!LocalListed
<1>3. ASSUME NEW g \in 0..(Day - 1), NEW i \in 1..Len(detected), Grid!Close(detected[i].time, g, Match)
      PROVE  Grid!EventClips(Grid!GmnDate(g), g, detected[i].cam) # {}
  <2>. DEFINE found == {j \in 1..Len(detected) :
                          /\ Grid!LoadsNight(Grid!GmnDate(g)) /\ detected[j].cam = detected[i].cam
                          /\ Grid!Close(detected[j].time, g, Match)}
  <2>1. Grid!LoadsNight(Grid!GmnDate(g))
    BY DEF Grid!LoadsNight, Grid!GmnDate, Grid!NightDates
  <2>2. i \in found /\ found \in SUBSET Nat
    BY <1>3, <2>1, GridRows
  <2>3. Grid!EventClips(Grid!GmnDate(g), g, detected[i].cam) = {x \in found : \A y \in found : x <= y}
    BY DEF Grid!EventClips
  <2>. HIDE DEF found
  <2>4. \E x \in found : \A y \in found : x <= y
    BY <2>2, LeastOf
  <2>. QED  BY <2>3, <2>4
<1>. QED  BY <1>1, <1>2, <1>3 DEF Grid!PublicListIsTrue

\* Rounding down to a multiple of b.
LEMMA FloorGrows ==
    ASSUME NEW x \in Int, NEW y \in Int, x <= y, NEW b \in Nat \ {0}
    PROVE  /\ (x \div b) * b \in Int
           /\ (x \div b) * b <= (y \div b) * b
           /\ (x \div b) * b <= x
           /\ x % b = 0 => (x \div b) * b = x
<1>1. x \div b \in Int /\ y \div b \in Int /\ x \div b <= y \div b
  OBVIOUS
<1>. QED  BY <1>1

\* Whatever bounds are asked for, what is in the window is one run of minutes from its start.
LEMMA CapsWindow ==
    ASSUME NEW from \in -1..Day, NEW to \in -1..Day, from # -1 \/ to # -1,
           NEW w, w = Grid!Capped(from, to)
    PROVE  \E n \in 0..MaxWindow :
              {m \in 0..(Day - 1) : Grid!InWindow(m, w[1], w[2])} = {(w[1] + k) % Day : k \in 0..n}
<1>. DEFINE span == (to - from) % Day
            Shown == {m \in 0..(Day - 1) : Grid!InWindow(m, w[1], w[2])}
            Run(a, n) == {(a + k) % Day : k \in 0..n}
<1>. SUFFICES \E n \in 0..MaxWindow : Shown = Run(w[1], n)
  OBVIOUS
<1>1. span \in 0..(Day - 1)
  BY GridAssumption
<1>5. ASSUME NEW a \in 0..Day, NEW b \in 0..Day, NEW n \in 0..MaxWindow, w = <<a, b>>,
             \/ b = a + n /\ b < Day
             \/ b = a + n - Day
             \/ b = Day /\ a + n = Day - 1
      PROVE  Shown = Run(w[1], n)
  <2>1. w[1] = a /\ w[2] = b
    BY <1>5
  <2>2. CASE a > b
    <3>1. b = a + n - Day
      BY <1>5, <2>2, GridAssumption
    <3>2. ASSUME NEW m \in 0..(Day - 1), Grid!InWindow(m, a, b)
          PROVE \E k \in 0..n : m = (a + k) % Day
      <4>1. CASE m >= a
        <5>1. m - a \in 0..n /\ m = (a + (m - a)) % Day
          BY <4>1, <3>1, GridAssumption
        <5>. QED  BY <5>1
      <4>2. CASE m <= b
        <5>1. m + Day - a \in 0..n /\ m = (a + (m + Day - a)) % Day
          BY <4>2, <3>1, GridAssumption
        <5>. QED  BY <5>1
      <4>. QED  BY <3>2, <4>1, <4>2, <2>2 DEF Grid!InWindow, Grid!NoBound
    <3>3. ASSUME NEW k \in 0..n
          PROVE (a + k) % Day \in 0..(Day - 1) /\ Grid!InWindow((a + k) % Day, a, b)
      <4>1. CASE a + k < Day
        BY <4>1, <3>1, GridAssumption, <2>2 DEF Grid!InWindow, Grid!NoBound
      <4>2. CASE a + k >= Day
        <5>1. (a + k) % Day = a + k - Day
          BY <4>2, <3>1, GridAssumption
        <5>. QED BY <5>1, <4>2, <3>1, GridAssumption, <2>2 DEF Grid!InWindow, Grid!NoBound
      <4>. QED  BY <4>1, <4>2, GridAssumption
    <3>. QED  BY <2>1, <3>2, <3>3
  <2>3. CASE ~(a > b)
    <3>1. b = a + n \/ (b = Day /\ a + n = Day - 1)
      BY <1>5, <2>3, GridAssumption
    <3>2. ASSUME NEW m \in 0..(Day - 1), Grid!InWindow(m, a, b)
          PROVE \E k \in 0..n : m = (a + k) % Day
      <4>1. m >= a /\ m <= b
        BY <2>3, <3>2 DEF Grid!InWindow, Grid!NoBound
      <4>2. m - a \in 0..n /\ m = (a + (m - a)) % Day
        BY <4>1, <3>1, GridAssumption
      <4>. QED  BY <4>2
    <3>3. ASSUME NEW k \in 0..n
          PROVE (a + k) % Day \in 0..(Day - 1) /\ Grid!InWindow((a + k) % Day, a, b)
      <4>1. a + k < Day
        BY <1>5, <3>1, GridAssumption
      <4>. QED  BY <4>1, <2>3, <3>1, GridAssumption DEF Grid!InWindow, Grid!NoBound
    <3>. QED  BY <2>1, <3>2, <3>3
  <2>. QED  BY <2>2, <2>3
<1>. HIDE DEF Shown, Run
<1>6. ASSUME NEW a \in 0..Day, w = <<a, (a + MaxWindow) % Day>>
      PROVE  \E n \in 0..MaxWindow : Shown = Run(w[1], n)
  <2>1. PICK b \in 0..Day : b = (a + MaxWindow) % Day /\ b < Day
    BY GridAssumption
  <2>2. MaxWindow \in 0..MaxWindow /\ (b = a + MaxWindow \/ b = a + MaxWindow - Day)
    BY <2>1, GridAssumption
  <2>3. Shown = Run(w[1], MaxWindow)
    BY <1>5, <1>6, <2>1, <2>2
  <2>. QED  BY <2>2, <2>3
<1>7. CASE from # -1 /\ to # -1 /\ span # 0 /\ span <= MaxWindow
  <2>1. from \in 0..Day /\ to \in 0..Day /\ ~(span = 0 \/ span > MaxWindow) /\ from # -1 /\ to # -1
    BY <1>1, <1>7, GridAssumption
  <2>2. w = <<from, to>>
    BY <2>1 DEF Grid!Capped, Grid!NoBound
  <2>3. CASE to < from
    <3>1. PICK n \in 0..MaxWindow : n = to - from + Day
      BY <1>1, <1>7, <2>1, <2>3, GridAssumption
    <3>2. to = from + n - Day
      BY <2>1, <3>1, GridAssumption
    <3>3. Shown = Run(w[1], n)
      BY <2>2, <1>5, <2>1, <3>2
    <3>. QED  BY <3>3
  <2>4. CASE to > from
    <3>1. span = to - from
      BY <1>7, <2>1, <2>4, GridAssumption
    <3>2. CASE to < Day
      <4>1. PICK n \in 0..MaxWindow : n = to - from
        BY <1>1, <2>1, <3>1, GridAssumption
      <4>2. to = from + n /\ to < Day
        BY <2>1, <3>2, <4>1, GridAssumption
      <4>3. Shown = Run(w[1], n)
        BY <2>2, <1>5, <2>1, <4>2
      <4>. QED  BY <4>3
    <3>3. CASE to = Day
      <4>1. span - 1 \in 0..MaxWindow /\ from + (span - 1) = Day - 1
        BY <1>1, <1>7, <2>1, <3>1, <3>3, GridAssumption
      <4>. QED  BY <2>2, <1>5, <2>1, <3>3, <4>1
    <3>. QED  BY <2>1, <3>2, <3>3, GridAssumption
  <2>5. to # from
    BY <1>7, <2>1, GridAssumption
  <2>. QED  BY <2>1, <2>3, <2>4, <2>5
<1>8. CASE from = -1 /\ to # -1
  <2>1. w = <<(to - MaxWindow) % Day, to>> /\ to \in 0..Day
    BY <1>8 DEF Grid!Capped, Grid!NoBound
  <2>2. CASE to < MaxWindow
    <3>1. (to - MaxWindow) % Day = to - MaxWindow + Day /\ to - MaxWindow + Day \in 0..Day
      BY <2>1, <2>2, GridAssumption
    <3>2. MaxWindow \in 0..MaxWindow /\ to = (to - MaxWindow + Day) + MaxWindow - Day
      BY <2>1, GridAssumption
    <3>. QED  BY <1>5, <2>1, <3>1, <3>2
  <2>3. CASE to >= MaxWindow
    <3>1. (to - MaxWindow) % Day = to - MaxWindow /\ to - MaxWindow \in 0..Day
      BY <2>1, <2>3, GridAssumption
    <3>2. CASE to < Day
      <4>1. MaxWindow \in 0..MaxWindow /\ to = (to - MaxWindow) + MaxWindow
        BY <2>1, GridAssumption
      <4>. QED  BY <1>5, <2>1, <3>1, <3>2, <4>1
    <3>3. CASE to = Day
      <4>1. MaxWindow - 1 \in 0..MaxWindow /\ (to - MaxWindow) + (MaxWindow - 1) = Day - 1
        BY <2>1, <3>3, GridAssumption
      <4>. QED  BY <1>5, <2>1, <3>1, <3>3, <4>1
    <3>. QED  BY <2>1, <3>2, <3>3, GridAssumption
  <2>. QED  BY <2>1, <2>2, <2>3, GridAssumption
<1>9. CASE from # -1 /\ (to = -1 \/ span = 0 \/ span > MaxWindow)
  <2>1. w = <<from, (from + MaxWindow) % Day>> /\ from \in 0..Day
    BY <1>9 DEF Grid!Capped, Grid!NoBound
  <2>. QED  BY <1>6, <2>1
<1>. QED  BY <1>1, <1>7, <1>8, <1>9, GridAssumption

\* Rows keep the order of the night where none runs over noon.
LEMMA AnchorGrows ==
    ASSUME NEW t \in 0..(Day - 1), NEW u \in 0..(Day - 1), u <= t, Grid!Noon % Bucket = 0
    PROVE  Grid!NoonAnchor((Grid!Minute(u) \div Bucket) * Bucket)
             <= Grid!NoonAnchor((Grid!Minute(t) \div Bucket) * Bucket)
<1>. DEFINE Floor(m) == (m \div Bucket) * Bucket
            noon == Grid!Noon
<1>1. noon \in Nat /\ 2 * noon <= Day /\ Floor(noon) = noon
  <2>1. noon \in Nat /\ 2 * noon <= Day
    BY GridAssumption DEF Grid!Noon
  <2>. QED  BY <2>1, GridAssumption, FloorGrows
<1>2. \A x, y \in Nat : x <= y => Floor(x) \in Int /\ Floor(x) <= Floor(y) /\ Floor(x) <= x
  BY GridAssumption, FloorGrows
<1>3. \A x \in Nat : Floor(x) >= 0
  <2>1. Floor(0) = 0
    BY GridAssumption, FloorGrows
  <2>2. 0 \in Nat /\ \A x \in Nat : 0 <= x
    OBVIOUS
  <2>. QED  BY <1>2, <2>1, <2>2
<1>. HIDE DEF Floor
<1>4. ASSUME NEW x \in 0..(Day - 1), NEW m, m = Floor(Grid!Minute(x))
      PROVE  \/ x + noon < Day /\ Grid!NoonAnchor(m) = Floor(x + noon) - noon
             \/ x + noon >= Day /\ Grid!NoonAnchor(m) = Floor(x + noon - Day) - noon + Day
  <2>1. CASE x + noon < Day
    <3>1. Grid!Minute(x) = x + noon
      BY <1>1, <2>1, GridAssumption DEF Grid!Minute
    <3>2. noon <= m /\ m < Day /\ m \in Int
      BY <1>1, <1>2, <1>4, <2>1, <3>1, GridAssumption
    <3>3. Grid!NoonAnchor(m) = m - noon
      BY <1>1, <3>2, GridAssumption DEF Grid!NoonAnchor
    <3>. QED  BY <1>4, <2>1, <3>1, <3>3
  <2>2. CASE x + noon >= Day
    <3>1. Grid!Minute(x) = x + noon - Day /\ x + noon - Day \in Nat /\ x + noon - Day < noon
      BY <1>1, <2>2, GridAssumption DEF Grid!Minute
    <3>2. 0 <= m /\ m < noon /\ m \in Int
      BY <1>1, <1>2, <1>3, <1>4, <2>2, <3>1, GridAssumption
    <3>3. Grid!NoonAnchor(m) = m - noon + Day
      BY <1>1, <3>2, GridAssumption DEF Grid!NoonAnchor
    <3>. QED  BY <1>4, <2>2, <3>1, <3>3
  <2>. QED  BY <1>1, <2>1, <2>2, GridAssumption
<1>5. CASE t + noon < Day
  <2>1. u + noon < Day /\ u + noon <= t + noon /\ u + noon \in Nat /\ t + noon \in Nat
    BY <1>1, <1>5, GridAssumption
  <2>2. Floor(u + noon) <= Floor(t + noon)
        /\ Floor(u + noon) \in Int /\ Floor(t + noon) \in Int
    BY <1>2, <2>1
  <2>. QED  BY <1>1, <1>4, <1>5, <2>1, <2>2, GridAssumption DEF Floor
<1>6. CASE t + noon >= Day /\ u + noon < Day
  <2>1. Floor(u + noon) <= u + noon /\ Floor(t + noon - Day) >= 0
        /\ Floor(u + noon) \in Int /\ Floor(t + noon - Day) \in Int
    BY <1>1, <1>2, <1>3, <1>6, GridAssumption
  <2>. QED  BY <1>1, <1>4, <1>6, <2>1, GridAssumption DEF Floor
<1>7. CASE t + noon >= Day /\ u + noon >= Day
  <2>1. Floor(u + noon - Day) <= Floor(t + noon - Day)
        /\ Floor(u + noon - Day) \in Int /\ Floor(t + noon - Day) \in Int
    BY <1>1, <1>2, <1>7, GridAssumption
  <2>. QED  BY <1>1, <1>4, <1>7, <2>1, GridAssumption DEF Floor
<1>. QED  BY <1>1, <1>5, <1>6, <1>7, GridAssumption

LEMMA GridWindowIsTrue ==
    ASSUME GridInv PROVE Grid!WindowIsTrue
<1>1. ASSUME NEW from \in -1..Day, NEW to \in -1..Day, from # -1 \/ to # -1
      PROVE  LET w == Grid!Capped(from, to) IN
             \E n \in 0..MaxWindow :
               {m \in 0..(Day - 1) : Grid!InWindow(m, w[1], w[2])} = {(w[1] + k) % Day : k \in 0..n}
  <2>1. PICK v : v = Grid!Capped(from, to)
    OBVIOUS
  <2>2. PICK n \in 0..MaxWindow :
          {m \in 0..(Day - 1) : Grid!InWindow(m, v[1], v[2])} = {(v[1] + k) % Day : k \in 0..n}
    BY <1>1, <2>1, CapsWindow
  <2>. QED  BY <2>1, <2>2
<1>2. ASSUME Grid!Noon % Bucket = 0, NEW i \in 1..Len(detected), NEW j \in 1..Len(detected), Grid!Above(i, j)
      PROVE detected[i].time < detected[j].time
  <2>1. detected[i].time \in 0..(Day - 1) /\ detected[j].time \in 0..(Day - 1)
    BY GridRows
  <2>2. \A x \in 0..(Day - 1) : Grid!NoonAnchor((Grid!Minute(x) \div Bucket) * Bucket) \in Int
    <3>1. ASSUME NEW x \in 0..(Day - 1) PROVE Grid!NoonAnchor((Grid!Minute(x) \div Bucket) * Bucket) \in Int
      <4>1. Grid!Minute(x) \in Int /\ Grid!Noon \in Int
        BY GridAssumption DEF Grid!Minute, Grid!Noon
      <4>2. (Grid!Minute(x) \div Bucket) * Bucket \in Int
        BY <4>1, GridAssumption, FloorGrows
      <4>. QED  BY <4>1, <4>2, GridAssumption DEF Grid!NoonAnchor
    <3>. QED  BY <3>1
  <2>3. ~(detected[j].time <= detected[i].time)
    BY <1>2, <2>1, <2>2, AnchorGrows DEF Grid!Above, Grid!RowOf
  <2>. QED  BY <2>1, <2>3
<1>. QED  BY <1>1, <1>2 DEF Grid!WindowIsTrue, Grid!NoBound

LEMMA GridInvSafe ==
    GridInv => /\ Grid!GridTypeOK /\ Grid!EventsAreTrue
               /\ Grid!WindowIsTrue /\ Grid!PublicListIsTrue
BY GridEventsAreTrue, GridWindowIsTrue, GridListIsTrue DEF GridInv

LEMMA GridInvStays == ASSUME GridInv, UNCHANGED gridVars PROVE GridInv'
BY DEF gridVars, GridInv, Grid!GridTypeOK

------------------------------------------------------------------------------
(* The whole.  Every part keeps its invariant whatever the others do, which *)
(* is nothing: a step is one of a part, or leaves that part alone.          *)

PartsInv ==
    /\ part \in Parts
    /\ GuardInv
    /\ ThumbInv
    /\ BuildInv /\ CompilationTypeOK
    /\ RegistryInv /\ NightInv /\ UpdateInv /\ TunnelsInv /\ RetentionInv /\ PostInv
    /\ ClipsInv /\ RemuxInv /\ DomeInv /\ LiveInv /\ MediaInv /\ BatchInv /\ FocusInv
    /\ MonthInv /\ PollerInv /\ GridInv /\ SettingsInv /\ SwrInv

LEMMA PartsInvInit == ASSUME StoresInit PROVE PartsInv
<1>1. /\ part \in Parts /\ Init /\ ThumbInit /\ CompilationInit
      /\ Registry!RegistryInit /\ Night!CaptureInit
      /\ Update!UpdateInit /\ Tunnel!TunnelsInit /\ Retention!RetentionInit /\ Post!PostInit
      /\ Clip!ClipCacheInit /\ Remux!RemuxInit /\ Dome!SkyDomeInit /\ Live!LiveInit
      /\ Media!MediaInit /\ Batch!BatchInit /\ Focus!FocusInit /\ Month!MonthInit
      /\ Poller!PollerInit /\ Grid!GridInit /\ Settings!SettingsInit /\ Swr!SwrInit
  BY DEF StoresInit
<1>2. GuardInv /\ ThumbInv /\ BuildInv /\ CompilationTypeOK
  BY <1>1, GuardInvInit, ThumbInvInit, BuildInvInit, CompilationTypesInit
<1>3. /\ RegistryInv /\ NightInv /\ UpdateInv /\ TunnelsInv /\ RetentionInv /\ PostInv
      /\ MonthInv /\ PollerInv /\ GridInv
  BY <1>1, RegistryInvInit, NightInvInit, UpdateInvInit, TunnelsInvInit, RetentionInvInit, PostInvInit,
     MonthInvInit, PollerInvInit, GridInvInit
<1>4. /\ ClipsInv /\ RemuxInv /\ DomeInv /\ LiveInv /\ MediaInv /\ BatchInv /\ FocusInv
      /\ SettingsInv /\ SwrInv
  BY <1>1, ClipsInvInit, RemuxInvInit, DomeInvInit, LiveInvInit, MediaInvInit, BatchInvInit, FocusInvInit,
     SettingsInvInit, SwrInvInit
<1> QED BY <1>1, <1>2, <1>3, <1>4 DEF PartsInv

\* A step, as each part sees it.
LEMMA PartSteps ==
    ASSUME [StoresNext]_storesVars
    PROVE  /\ part' = part
           /\ Next \/ UNCHANGED vars
           /\ ThumbNext \/ UNCHANGED thumbVars
           /\ CompilationNext \/ UNCHANGED compilationVars
           /\ Registry!RegistryNext \/ UNCHANGED registryVars
           /\ Night!CaptureNext \/ UNCHANGED nightVars
           /\ Update!UpdateNext \/ UNCHANGED updateVars
           /\ Tunnel!TunnelsNext \/ UNCHANGED tunnelsVars
           /\ Retention!RetentionNext \/ UNCHANGED retentionVars
           /\ Post!PostNext \/ UNCHANGED postVars
           /\ Clip!ClipCacheNext \/ UNCHANGED clipsVars
           /\ Remux!RemuxNext \/ UNCHANGED remuxesVars
           /\ Dome!SkyDomeNext \/ UNCHANGED domeVars
           /\ Live!LiveNext \/ UNCHANGED liveVars
           /\ Media!MediaNext \/ UNCHANGED mediaVars
           /\ Batch!BatchNext \/ UNCHANGED batchVars
           /\ Focus!FocusNext \/ UNCHANGED focusVars
           /\ Month!MonthNext \/ UNCHANGED monthVars
           /\ Poller!PollerNext \/ UNCHANGED pollerVars
           /\ Grid!GridNext \/ UNCHANGED gridVars
           /\ Settings!SettingsNext \/ UNCHANGED settingsVars
           /\ Swr!SwrNext \/ UNCHANGED swrVars
<1>1. CASE StoresNext
  BY <1>1 DEF StoresNext, Rest
<1>2. CASE UNCHANGED storesVars
  BY <1>2 DEF storesVars
<1> QED BY <1>1, <1>2

LEMMA PartsInvStep == ASSUME PartsInv, [StoresNext]_storesVars PROVE PartsInv'
<1>1. part' \in Parts
  BY PartSteps DEF PartsInv
<1>2. GuardInv'
  BY PartSteps, GuardInvStep DEF PartsInv
<1>3. ThumbInv'
  BY PartSteps, ThumbInvStep DEF PartsInv
<1>4. BuildInv' /\ CompilationTypeOK'
  BY PartSteps, BuildInvStep, CompilationTypesStep DEF PartsInv
<1>5. RegistryInv'
  BY PartSteps, RegistryInvStep, RegistryInvStays DEF PartsInv
<1>6. NightInv'
  BY PartSteps, NightInvStep, NightInvStays DEF PartsInv
<1>7. UpdateInv'
  BY PartSteps, UpdateInvStep, UpdateInvStays DEF PartsInv
<1>8. TunnelsInv'
  BY PartSteps, TunnelsInvStep, TunnelsInvStays DEF PartsInv
<1>9. RetentionInv'
  BY PartSteps, RetentionInvStep, RetentionInvStays DEF PartsInv
<1>10. PostInv'
  BY PartSteps, PostInvStep, PostInvStays DEF PartsInv
<1>11. ClipsInv'
  BY PartSteps, ClipsInvStep, ClipsInvStays DEF PartsInv
<1>12. RemuxInv'
  BY PartSteps, RemuxInvStep, RemuxInvStays DEF PartsInv
<1>13. DomeInv'
  BY PartSteps, DomeInvStep, DomeInvStays DEF PartsInv
<1>14. LiveInv'
  BY PartSteps, LiveInvStep, LiveInvStays DEF PartsInv
<1>15. MediaInv'
  BY PartSteps, MediaInvStep, MediaInvStays DEF PartsInv
<1>16. BatchInv'
  BY PartSteps, BatchInvStep, BatchInvStays DEF PartsInv
<1>17. FocusInv'
  BY PartSteps, FocusInvStep, FocusInvStays DEF PartsInv
<1>18. MonthInv'
  BY PartSteps, MonthInvStep, MonthInvStays DEF PartsInv
<1>19. PollerInv'
  BY PartSteps, PollerInvStep, PollerInvStays DEF PartsInv
<1>20. GridInv'
  BY PartSteps, GridInvStep, GridInvStays DEF PartsInv
<1>21. SettingsInv'
  BY PartSteps, SettingsInvStep, SettingsInvStays DEF PartsInv
<1>22. SwrInv'
  BY PartSteps, SwrInvStep, SwrInvStays DEF PartsInv
<1> QED BY <1>1, <1>2, <1>3, <1>4, <1>5, <1>6, <1>7, <1>8, <1>9, <1>10, <1>11, <1>12, <1>13, <1>14,
        <1>15, <1>16, <1>17, <1>18, <1>19, <1>20, <1>21, <1>22 DEF PartsInv

\* The invariants of all the parts together.
THEOREM PartsInvariant == StoresSpec => []PartsInv
BY PartsInvInit, PartsInvStep, PTL DEF StoresSpec

\* Every part keeps to its types.
THEOREM StoresTypes == StoresSpec => []StoresTypeOK
<1>1. ASSUME PartsInv PROVE StoresTypeOK
  <2>1. /\ TypeOK /\ ThumbTypeOK /\ CompilationTypeOK
        /\ Registry!RegistryTypeOK /\ Night!CaptureTypeOK /\ Update!UpdateTypeOK
        /\ Tunnel!TunnelsTypeOK /\ Post!PostTypeOK /\ Month!MonthTypeOK /\ Poller!PollerTypeOK
    BY <1>1 DEF PartsInv, GuardInv, ThumbInv, RegistryInv, NightInv, UpdateInv, TunnelsInv, PostInv, MonthInv, PollerInv
  <2>2. /\ Clip!ClipCacheTypeOK /\ Dome!SkyDomeTypeOK /\ Media!MediaTypeOK
        /\ Batch!BatchTypeOK /\ Focus!FocusTypeOK /\ Settings!SettingsTypeOK /\ Swr!SwrTypeOK
    BY <1>1 DEF PartsInv, ClipsInv, DomeInv, MediaInv, BatchInv, FocusInv, SettingsInv, SwrInv
  <2>3. Retention!RetentionTypeOK /\ Grid!GridTypeOK /\ Remux!RemuxTypeOK /\ Live!LiveTypeOK
    BY <1>1, RetentionInvSafe, GridInvSafe, RemuxInvSafe, LiveInvSafe DEF PartsInv
  <2> QED BY <1>1, <2>1, <2>2, <2>3 DEF StoresTypeOK, PartsInv
<1> QED BY <1>1, PartsInvariant, PTL

\* A change of an account or key that succeeded stays in its file, whatever other threads and
\* processes write meanwhile, unless a file that cannot be read counts as empty (auth, api_keys,
\* station_keys).
THEOREM RegistriesLoseNothing ==
    ASSUME ReadMayFail = FALSE PROVE StoresSpec => []NoChangeIsLost
<1>1. ASSUME PartsInv PROVE NoChangeIsLost
  BY <1>1, RegistryInvSafe DEF PartsInv, NoChangeIsLost
<1> QED BY <1>1, PartsInvariant, PTL

\* Whatever died or failed in the night, once the morning run is through every chunk was
\* stacked, was waiting for it or is known to be lost (color_capture, dawn_process).
THEOREM MorningsCatchUp == StoresSpec => []MorningCatchesUp
<1>1. ASSUME PartsInv PROVE MorningCatchesUp
  BY <1>1, NightInvSafe DEF PartsInv, MorningCatchesUp
<1> QED BY <1>1, PartsInvariant, PTL

\* Whatever cuts an update off, between updates the scripts are those of one version and every
\* acknowledged setting is there, but for a station that one left torn (updater.sh).
THEOREM StationsStayWhole == StoresSpec => []StationIsWhole
<1>1. ASSUME PartsInv PROVE StationIsWhole
  BY <1>1, UpdateInvSafe DEF PartsInv, StationIsWhole
<1> QED BY <1>1, PartsInvariant, PTL

\* Outages and threads that end leave no ssh behind, and two threads that open at once leave
\* one (tunnels.py).
THEOREM TunnelsLeaveFewOrphans == StoresSpec => []FewOrphanSsh
<1>1. ASSUME PartsInv PROVE FewOrphanSsh
  BY <1>1, TunnelsSafe DEF PartsInv, FewOrphanSsh
<1> QED BY <1>1, PartsInvariant, PTL

\* For every night and every policy, what is removed of an old night has neither lock nor
\* rank, and no partner but earlier ones that mark nobody (storagebox_janitor).
THEOREM PassRemovesOnlyPassedOver == StoresSpec => []OnlyPassedOverGo
<1>1. ASSUME PartsInv PROVE OnlyPassedOverGo
  BY <1>1, RetentionInvSafe DEF PartsInv, OnlyPassedOverGo
<1> QED BY <1>1, PartsInvariant, PTL

\* A marked night was sent to every chat, and to one twice only if forced, after a kill or by
\* runs that overlap (nightly_telegram).
THEOREM NightsArePostedOnce == StoresSpec => []PostedOnce
<1>1. ASSUME PartsInv PROVE PostedOnce
  BY <1>1, PostInvSafe DEF PartsInv, PostedOnce
<1> QED BY <1>1, PartsInvariant, PTL

\* Whatever breaks on the way, a cached clip that one request wrote is whole (api_cached_video).
THEOREM CachedClipsAreWhole == StoresSpec => []CachedIsWhole
<1>1. ASSUME PartsInv PROVE CachedIsWhole
  BY <1>1, ClipsInvSafe DEF PartsInv, CachedIsWhole
<1> QED BY <1>1, PartsInvariant, PTL

\* Any number of requests and workers keep to the budgets they share (public_api, media).
THEOREM BudgetsAreKept == StoresSpec => []BudgetsHold
<1>1. ASSUME PartsInv PROVE BudgetsHold
  BY <1>1, RemuxInvSafe, BatchInvSafe DEF PartsInv, BudgetsHold
<1> QED BY <1>1, PartsInvariant, PTL

\* Slots, processes and temporary files come back, within the limits NothingLeaks names (live
\* streams, media, camera_focus).
THEOREM EverythingComesBack == StoresSpec => []NothingLeaks
<1>1. ASSUME PartsInv PROVE NothingLeaks
  BY <1>1, LiveInvSafe, MediaInvSafe, FocusInvSafe DEF PartsInv, NothingLeaks
<1> QED BY <1>1, PartsInvariant, PTL

\* No dawn is counted as seen whose timelapse was not begun, and no dome stays torn but by a
\* request that was cut off (sky_dome).
THEOREM DawnsAreNoticed == StoresSpec => []DomesAreBuilt
<1>1. ASSUME PartsInv PROVE DomesAreBuilt
  BY <1>1 DEF PartsInv, DomeInv, DomesAreBuilt
<1> QED BY <1>1, PartsInvariant, PTL

\* Neither late answers nor caches put the older in the place of the newer, within the limits
\* NewerStays names (gmn_data, gmn_poller, station_api, station_proxy).
THEOREM NothingGoesBack == StoresSpec => []NewerStays
<1>1. ASSUME PartsInv PROVE NewerStays
  BY <1>1, MonthInvSafe, SettingsInvSafe, SwrInvSafe DEF PartsInv, PollerInv, NewerStays
<1> QED BY <1>1, PartsInvariant, PTL

\* For every list of detections, events are apart and shown once, in their window and to whom
\* they may be shown (detections, public_api).
THEOREM EventsStayTrue == StoresSpec => []EventsAreTrue
<1>1. ASSUME PartsInv PROVE EventsAreTrue
  BY <1>1, GridInvSafe DEF PartsInv, EventsAreTrue
<1> QED BY <1>1, PartsInvariant, PTL

\* The storage-box pass removes a video only of an old night, and none that the user has
\* locked on the box, unless the camera pushed a newer state.json during the pass
\* (storagebox_janitor).
THEOREM LockedVideosAreKept == StoresSpec => [][KeepsLocked]_storesVars
<1>1. ASSUME PartsInv, [StoresNext]_storesVars PROVE KeepsLocked
  <2>1. CASE Retention!RetentionNext
    BY <1>1, <2>1, RetentionInvStep DEF PartsInv
  <2>2. CASE UNCHANGED retentionVars
    BY <2>2 DEF retentionVars, KeepsLocked
  <2> QED BY <1>1, <2>1, <2>2, PartSteps
<1> QED BY <1>1, PartsInvariant, PTL DEF StoresSpec

==============================================================================
