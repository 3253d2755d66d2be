----------------------------- MODULE RedisSeqBump -----------------------------
(***************************************************************************)
(* RedisStationStateBackend.seq_bump (dashboard/cache_backend.py): the     *)
(* WATCH / HGET / MULTI HSET EXEC loop of the ingest handlers, in any      *)
(* number of worker processes, on ONE hash that holds a field per station. *)
(* Redis runs each command atomically; EXEC is refused when anything wrote *)
(* to the watched hash in between, to another station's field too.         *)
(***************************************************************************)
EXTENDS Naturals, FiniteSets

CONSTANTS
    Handlers,           \* ingest handlers, one seq_bump call each
    Stations,
    Seqs                \* bound: the seqs that are asked about

ASSUME SeqsAssumption == Seqs \subseteq Nat

VARIABLES
    call,               \* call[p]: the station and seq p asks about
    hash,               \* the hash <prefix>:station:seq (0: no field yet)
    pc,                 \* pc[p]: the next command p sends
    cur,                \* cur[p]: what HGET returned
    touched,            \* handlers whose watched hash has been written to
    answer              \* answer[p]: what the call returned

vars == <<call, hash, pc, cur, touched, answer>>

Commands == {"watch", "hget", "exec", "done"}
Results  == {"none", "accepted", "replay", "error"}

StationOf(p) == call[p].station
SeqOf(p) == call[p].seq

Init ==
    /\ call \in [Handlers -> [station: Stations, seq: Seqs]]
    /\ hash = [h \in Stations |-> 0]
    /\ pc = [p \in Handlers |-> "watch"]
    /\ cur = [p \in Handlers |-> 0]
    /\ touched = {}
    /\ answer = [p \in Handlers |-> "none"]

Return(p, a) ==
    /\ answer' = [answer EXCEPT ![p] = a]
    /\ pc' = [pc EXCEPT ![p] = "done"]

Goto(p, command) == pc' = [pc EXCEPT ![p] = command] /\ UNCHANGED answer

\* Faulty variant: the WATCH is on another key.
WriteUnnoticed(p) ==
    /\ hash' = [hash EXCEPT ![StationOf(p)] = SeqOf(p)]
    /\ touched' = touched

\* HSET: every other client that watches the hash will have its EXEC refused.
Write(p) ==
    /\ hash' = [hash EXCEPT ![StationOf(p)] = SeqOf(p)]
    /\ touched' = touched \cup (Handlers \ {p})

\* WATCH starts a new look-out.
Watch(p) ==
    /\ pc[p] = "watch"
    /\ touched' = touched \ {p}
    /\ Goto(p, "hget")
    /\ UNCHANGED <<call, hash, cur>>

\* Faulty variant: an equal seq goes on.
ReadEqual(p) ==
    /\ pc[p] = "hget"
    /\ cur' = [cur EXCEPT ![p] = hash[StationOf(p)]]
    /\ IF SeqOf(p) < hash[StationOf(p)] THEN Return(p, "replay") ELSE Goto(p, "exec")
    /\ UNCHANGED <<call, hash, touched>>

\* HGET and the decision: a seq that is not greater is a replay.
Read(p) ==
    /\ pc[p] = "hget"
    /\ cur' = [cur EXCEPT ![p] = hash[StationOf(p)]]
    /\ IF SeqOf(p) <= hash[StationOf(p)] THEN Return(p, "replay") ELSE Goto(p, "exec")
    /\ UNCHANGED <<call, hash, touched>>

\* Faulty variant: MULTI/EXEC without the look-out.
ExecUnwatched(p) ==
    /\ pc[p] = "exec"
    /\ Write(p)
    /\ Return(p, "accepted")
    /\ UNCHANGED <<call, cur>>

\* EXEC goes through when nothing was written since the WATCH.
Exec(p) ==
    /\ pc[p] = "exec"
    /\ p \notin touched
    /\ Write(p)
    /\ Return(p, "accepted")
    /\ UNCHANGED <<call, cur>>

\* Faulty variant: the loop reads again without watching anew.
RetryRereads(p) ==
    /\ pc[p] = "exec"
    /\ p \in touched
    /\ Goto(p, "hget")
    /\ UNCHANGED <<call, hash, cur, touched>>

\* WatchError: start over.
Retry(p) ==
    /\ pc[p] = "exec"
    /\ p \in touched
    /\ Goto(p, "watch")
    /\ UNCHANGED <<call, hash, cur, touched>>

\* Any other error is caught and reported as a replay; an EXEC whose answer got
\* lost has taken place all the same.
Error(p, executed) ==
    /\ pc[p] # "done"
    /\ executed => pc[p] = "exec" /\ p \notin touched
    /\ IF executed THEN Write(p) ELSE UNCHANGED <<hash, touched>>
    /\ Return(p, "error")
    /\ UNCHANGED <<call, cur>>

SeqBump(p) ==
    \/ Watch(p) \/ Read(p) \/ Exec(p) \/ Retry(p)
    \/ \E executed \in BOOLEAN : Error(p, executed)

Next == \E p \in Handlers : SeqBump(p)

\* A handler thread is scheduled.
Spec == Init /\ [][Next]_vars /\ \A p \in Handlers : WF_vars(SeqBump(p))

------------------------------------------------------------------------------
(* Properties.                                                              *)

\* Every variable has its type.
TypeOK ==
    /\ call \in [Handlers -> [station: Stations, seq: Seqs]]
    /\ hash \in [Stations -> Seqs \cup {0}]
    /\ pc \in [Handlers -> Commands]
    /\ cur \in [Handlers -> Seqs \cup {0}]
    /\ touched \in SUBSET Handlers
    /\ answer \in [Handlers -> Results]

\* cache_backend.py:266 "at most one racer with a given seq ever passes": of the
\* handlers that ask about one seq of one station at most one is told to store.
OneRacerWins ==
    \A p, q \in Handlers :
        /\ answer[p] = "accepted"
        /\ answer[q] = "accepted"
        /\ StationOf(p) = StationOf(q)
        /\ SeqOf(p) = SeqOf(q)
        => p = q

\* What EXEC writes rests on a value that is still there: between the check and
\* the bump nobody has moved the field (the point of the WATCH).
CheckedValueIsCurrent ==
    \A p \in Handlers :
        pc[p] = "exec" /\ p \notin touched
            => cur[p] = hash[StationOf(p)] /\ cur[p] < SeqOf(p)

\* The optimistic loop implements the atomic guard the handlers rely on.
Guard == INSTANCE SeqGuard WITH last <- hash

ImplementsGuard == Guard!GuardSpec

\* cache_backend.py:265 "The retry loop converges": with finitely many calls every
\* call is answered, conflicts on other stations' fields included.
CallsReturn == \A p \in Handlers : []<>(answer[p] # "none")

==============================================================================
