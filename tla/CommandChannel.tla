---------------------------- MODULE CommandChannel ----------------------------
(***************************************************************************)
(* The signed server -> station command channel: the commands table and    *)
(* the poll / ack handlers on the VPS (dashboard/command_store.py,         *)
(* command_api.py, command_dispatch.py), and the CommandWorker thread of   *)
(* each station (rovimen-scripts/rovimen_pusher.py, command_verify.py).    *)
(*                                                                         *)
(* An action is one SQLite transaction, one handler step or one step of    *)
(* the worker.  A poll is held by a request handler that reads the queue   *)
(* and expires rows again and again, whether or not its client still       *)
(* waits: the worker may have timed out, polled anew or stopped.  Acks may *)
(* be lost or arrive after the worker has given up waiting, and a worker   *)
(* may stop at any point: the row table survives, the set of executed ids  *)
(* does not.                                                               *)
(***************************************************************************)
EXTENDS Integers, FiniteSets

CONSTANTS
    Commands,       \* command ids the server may issue
    Stations,       \* stations with a command worker
    NoStation,      \* the host of a row that is not there
    Handlers,       \* bound: the poll requests the server holds at a time
    IssuedKinds,    \* bound: the kinds of command issued in this instance
    MaxTime,        \* bound: the last instant of the clock
    MaxTTL,         \* bound: how far ahead of now not_after may lie
    MaxCrashes,     \* bound: worker stops, over the whole run
    ClockSkew       \* station clock minus server clock

ASSUME BoundsAssumption ==
    /\ MaxTime \in Nat
    /\ MaxTTL \in Nat
    /\ MaxCrashes \in Nat
    /\ ClockSkew \in Int

ASSUME KindsAssumption ==
    IssuedKinds \subseteq {"plain", "self_restart", "unverifiable"}

ASSUME NoStationAssumption == NoStation \notin Stations

VARIABLES
    now,            \* the server's UTC clock
    row,            \* the commands table, one row per command id
    poll,           \* poll[h]: what request handler h is doing
    waits,          \* waits[s]: the handler the worker of s waits for, if any
    pc,             \* pc[s]: where the worker of s is
    batch,          \* batch[s]: commands of the last poll not handled yet
    cur,            \* cur[s]: the command being dispatched
    outcome,        \* outcome[s]: what _dispatch returned for cur[s]
    executed,       \* CommandWorker._executed, in memory only
    acks,           \* ack requests on their way to the server
    crashes,        \* worker stops so far
    handled,        \* history: commands a worker has refused or finished
    runs,           \* history: runs[c], times the station carried c out
    bootRuns,       \* history: the same since the worker last started
    lateRuns        \* history: the same since the queue shows c as expired

serverVars == <<row, poll>>
workerVars == <<pc, waits, batch, cur, outcome, executed>>
historyVars == <<handled, runs, bootRuns, lateRuns>>
vars == <<now, serverVars, workerVars, acks, crashes, historyVars>>

------------------------------------------------------------------------------
(* Rows.  "self_restart" is the restart_services command, whose loopback    *)
(* POST may lose its answer; "unverifiable" is any command the station      *)
(* refuses whatever the time is: signed with a key the station does not     *)
(* pin, or of a type its own allowlist does not hold.                       *)

Statuses == {"absent", "pending", "acked", "expired"}
Kinds    == {"plain", "self_restart", "unverifiable"}
Results  == {"none", "ok", "error"}

Row == [status: Statuses, host: Stations \cup {NoStation}, kind: Kinds,
        notAfter: Nat, created: Nat, result: Results]

NoRow == [status |-> "absent", host |-> NoStation, kind |-> "plain",
          notAfter |-> 0, created |-> 0, result |-> "none"]

Ack == [cmd: Commands, host: Stations, ok: BOOLEAN]

PCs == {"down", "idle", "polling", "handling", "dispatching", "dispatched", "acking"}

\* A handler holds a poll until there is something to answer; "selected" is
\* between its SELECT and the end of pending_for_station.
Poll == [phase: {"free", "holding", "selected"}, host: Stations \cup {NoStation},
         live: SUBSET Commands, stale: SUBSET Commands]

NoPoll == [phase |-> "free", host |-> NoStation, live |-> {}, stale |-> {}]

Init ==
    /\ now = 0
    /\ row = [c \in Commands |-> NoRow]
    /\ poll = [h \in Handlers |-> NoPoll]
    /\ waits = [s \in Stations |-> {}]
    /\ pc = [s \in Stations |-> "idle"]
    /\ batch = [s \in Stations |-> {}]
    /\ cur = [s \in Stations |-> {}]
    /\ outcome = [s \in Stations |-> FALSE]
    /\ executed = [s \in Stations |-> {}]
    /\ acks = {}
    /\ crashes = 0
    /\ handled = {}
    /\ runs = [c \in Commands |-> 0]
    /\ bootRuns = [c \in Commands |-> 0]
    /\ lateRuns = [c \in Commands |-> 0]

Tick ==
    /\ now < MaxTime
    /\ now' = now + 1
    /\ UNCHANGED <<serverVars, workerVars, acks, crashes, historyVars>>

------------------------------------------------------------------------------
(* The server.                                                              *)

\* POST /api/fleet/<station>/commands, or a routed operator action: sign and
\* INSERT a pending row.  The caller may name any not_after, past ones too.
Enqueue(c, s, k, t) ==
    /\ row[c].status = "absent"
    /\ row' = [row EXCEPT ![c] = [status |-> "pending", host |-> s, kind |-> k,
                                  notAfter |-> t, created |-> now, result |-> "none"]]
    /\ UNCHANGED <<now, poll, workerVars, acks, crashes, historyVars>>

PendingRows(s) == {c \in Commands : row[c].status = "pending" /\ row[c].host = s}
Lapsed(c) == row[c].notAfter < now

\* Faulty variant: the SELECT excludes acked rows only and leaves the TTL to the
\* station.
LiveRowsUnfiltered(s) ==
    {c \in Commands : row[c].host = s /\ row[c].status # "acked"}

LiveRows(s) == {c \in PendingRows(s) : ~Lapsed(c)}

\* The SELECT of pending_for_station: unexpired rows go to the answer, lapsed ones
\* to the list of ids to expire.
SelectPending(h) ==
    /\ poll[h].phase = "holding"
    /\ poll' = [poll EXCEPT
         ![h] = [phase |-> "selected",
                 host  |-> poll[h].host,
                 live  |-> LiveRows(poll[h].host),
                 stale |-> {c \in PendingRows(poll[h].host) : Lapsed(c)}]]
    /\ UNCHANGED <<now, row, workerVars, acks, crashes, historyVars>>

\* Faulty variants: the UPDATE without its status guard, and forgotten altogether.
ExpireUnguarded(E) ==
    row' = [c \in Commands |->
              IF c \in E THEN [row[c] EXCEPT !.status = "expired"] ELSE row[c]]
ExpireForgotten(E) == row' = row

\* UPDATE commands SET status='expired' WHERE id=? AND status='pending'
Expire(E) ==
    row' = [c \in Commands |->
              IF c \in E /\ row[c].status = "pending"
              THEN [row[c] EXCEPT !.status = "expired"] ELSE row[c]]

\* Nothing to hand out and the deadline not reached: expire, sleep, SELECT again,
\* whether or not anybody still waits for the answer.
HoldOn(h) ==
    /\ poll[h].phase = "selected"
    /\ poll[h].live = {}
    /\ Expire(poll[h].stale)
    /\ poll' = [poll EXCEPT ![h] = [@ EXCEPT !.phase = "holding", !.stale = {}]]
    /\ UNCHANGED <<now, workerVars, acks, crashes, historyVars>>

AfterBatch(B) == IF B = {} THEN "idle" ELSE "handling"

\* Expire and answer, with commands or at the deadline: the answer reaches the
\* worker that waits for this handler; without one it goes nowhere.
Answer(h) ==
    /\ poll[h].phase = "selected"
    /\ Expire(poll[h].stale)
    /\ poll' = [poll EXCEPT ![h] = NoPoll]
    /\ batch' = [s \in Stations |->
                   IF h \in waits[s] THEN poll[h].live ELSE batch[s]]
    /\ pc' = [s \in Stations |->
                IF h \in waits[s] THEN AfterBatch(poll[h].live) ELSE pc[s]]
    /\ waits' = [s \in Stations |-> waits[s] \ {h}]
    /\ UNCHANGED <<now, cur, outcome, executed, acks, crashes, historyVars>>

\* The handler dies: the database stays locked for too long, or the server stops.
\* Its worker gets an error.
FailPoll(h) ==
    /\ poll[h].phase # "free"
    /\ poll' = [poll EXCEPT ![h] = NoPoll]
    /\ pc' = [s \in Stations |-> IF h \in waits[s] THEN "idle" ELSE pc[s]]
    /\ waits' = [s \in Stations |-> waits[s] \ {h}]
    /\ UNCHANGED <<now, row, batch, cur, outcome, executed, acks, crashes, historyVars>>

\* Faulty variant: an ack overwrites a row that is no longer pending.
AckAppliesAlways(m) == row[m.cmd].host = m.host

AckApplies(m) == row[m.cmd].host = m.host /\ row[m.cmd].status = "pending"

\* POST .../ack reaches the server: 404 for a foreign id, a no-op on a row that
\* is already settled, otherwise the result is recorded.
DeliverAck(m) ==
    /\ m \in acks
    /\ acks' = acks \ {m}
    /\ row' = IF AckApplies(m)
              THEN [row EXCEPT ![m.cmd].status = "acked",
                               ![m.cmd].result = IF m.ok THEN "ok" ELSE "error"]
              ELSE row
    /\ UNCHANGED <<now, poll, workerVars, crashes, historyVars>>

LoseAck(m) ==
    /\ m \in acks
    /\ acks' = acks \ {m}
    /\ UNCHANGED <<now, serverVars, workerVars, crashes, historyVars>>

------------------------------------------------------------------------------
(* The station's CommandWorker.                                             *)

\* GET /api/fleet/<station>/commands?wait=25 reaches the server.
SendPoll(s, h) ==
    /\ pc[s] = "idle"
    /\ poll[h] = NoPoll
    /\ poll' = [poll EXCEPT ![h] = [NoPoll EXCEPT !.phase = "holding", !.host = s]]
    /\ waits' = [waits EXCEPT ![s] = {h}]
    /\ pc' = [pc EXCEPT ![s] = "polling"]
    /\ UNCHANGED <<now, row, batch, cur, outcome, executed, acks, crashes, historyVars>>

\* The client's own time-out, or a broken connection: the worker backs off and polls
\* anew; the handler does not notice.
AbandonPoll(s) ==
    /\ pc[s] = "polling"
    /\ pc' = [pc EXCEPT ![s] = "idle"]
    /\ waits' = [waits EXCEPT ![s] = {}]
    /\ UNCHANGED <<now, serverVars, batch, cur, outcome, executed,
                   acks, crashes, historyVars>>

\* CommandWorker._verify: signature and allowlist, and the TTL on the station
\* clock when the command is handled, which may be long after the poll.
Verifies(c) ==
    /\ row[c].kind # "unverifiable"
    /\ row[c].notAfter >= now + ClockSkew

\* Faulty variant: the SELECT without ORDER BY created_at.
OldestUnordered(s) == batch[s]

\* The rows of an answer are handled in created_at order.
Oldest(s) == {c \in batch[s] : \A d \in batch[s] : row[c].created <= row[d].created}

\* Faulty variant: the id is not kept.
RememberNot(s, c) == executed' = executed

Remember(s, c) == executed' = [executed EXCEPT ![s] = @ \cup {c}]

SendAck(c, s, ok) == acks' = acks \cup {[cmd |-> c, host |-> s, ok |-> ok]}

\* handle(): an id seen by this process is acked "ok" and not run again.
AckDuplicate(s, c) ==
    /\ pc[s] = "handling"
    /\ c \in Oldest(s)
    /\ c \in executed[s]
    /\ SendAck(c, s, TRUE)
    /\ batch' = [batch EXCEPT ![s] = @ \ {c}]
    /\ pc' = [pc EXCEPT ![s] = "acking"]
    /\ UNCHANGED <<now, serverVars, waits, cur, outcome, executed, crashes, historyVars>>

\* handle(): a command that does not verify is remembered and acked "error".
Refuse(s, c) ==
    /\ pc[s] = "handling"
    /\ c \in Oldest(s)
    /\ c \notin executed[s]
    /\ ~Verifies(c)
    /\ Remember(s, c)
    /\ handled' = handled \cup {c}
    /\ SendAck(c, s, FALSE)
    /\ batch' = [batch EXCEPT ![s] = @ \ {c}]
    /\ pc' = [pc EXCEPT ![s] = "acking"]
    /\ UNCHANGED <<now, serverVars, waits, cur, outcome, crashes,
                   runs, bootRuns, lateRuns>>

\* Faulty variant: the ack goes out before the command is carried out.
AcceptAckFirst(s, c) ==
    /\ pc[s] = "handling"
    /\ c \in Oldest(s)
    /\ c \notin executed[s]
    /\ Verifies(c)
    /\ SendAck(c, s, TRUE)
    /\ batch' = [batch EXCEPT ![s] = @ \ {c}]
    /\ cur' = [cur EXCEPT ![s] = {c}]
    /\ pc' = [pc EXCEPT ![s] = "dispatching"]
    /\ UNCHANGED <<now, serverVars, waits, outcome, executed, crashes, historyVars>>

\* handle(): a command that verifies goes to _dispatch.
Accept(s, c) ==
    /\ pc[s] = "handling"
    /\ c \in Oldest(s)
    /\ c \notin executed[s]
    /\ Verifies(c)
    /\ batch' = [batch EXCEPT ![s] = @ \ {c}]
    /\ cur' = [cur EXCEPT ![s] = {c}]
    /\ pc' = [pc EXCEPT ![s] = "dispatching"]
    /\ UNCHANGED <<now, serverVars, waits, outcome, executed, acks, crashes, historyVars>>

\* What the loopback POST may do and say: [ran, ok].  An action that was carried
\* out may be reported failed (time-out); for restart_services a connection
\* error counts as success even when nothing was restarted.
Outcomes(k) ==
    {<<TRUE, TRUE>>, <<TRUE, FALSE>>, <<FALSE, FALSE>>}
        \cup (IF k = "self_restart" THEN {<<FALSE, TRUE>>} ELSE {})

\* _dispatch: the local action takes place (or not) before anything is remembered.
Dispatch(s, c, o) ==
    /\ pc[s] = "dispatching"
    /\ c \in cur[s]
    /\ o \in Outcomes(row[c].kind)
    /\ runs' = IF o[1] THEN [runs EXCEPT ![c] = @ + 1] ELSE runs
    /\ bootRuns' = IF o[1] THEN [bootRuns EXCEPT ![c] = @ + 1] ELSE bootRuns
    /\ lateRuns' = IF o[1] /\ row[c].status = "expired"
                   THEN [lateRuns EXCEPT ![c] = @ + 1] ELSE lateRuns
    /\ outcome' = [outcome EXCEPT ![s] = o[2]]
    /\ pc' = [pc EXCEPT ![s] = "dispatched"]
    /\ UNCHANGED <<now, serverVars, waits, batch, cur, executed, acks, crashes, handled>>

\* The id is remembered and the ack is sent, once.
Report(s, c) ==
    /\ pc[s] = "dispatched"
    /\ c \in cur[s]
    /\ Remember(s, c)
    /\ handled' = handled \cup {c}
    /\ SendAck(c, s, outcome[s])
    /\ cur' = [cur EXCEPT ![s] = {}]
    /\ pc' = [pc EXCEPT ![s] = "acking"]
    /\ UNCHANGED <<now, serverVars, waits, batch, outcome, crashes,
                   runs, bootRuns, lateRuns>>

\* The ack request returned, failed or timed out: all three are ignored.
AckReturn(s) ==
    /\ pc[s] = "acking"
    /\ pc' = [pc EXCEPT ![s] = AfterBatch(batch[s])]
    /\ UNCHANGED <<now, serverVars, waits, batch, cur, outcome, executed,
                   acks, crashes, historyVars>>

\* The pusher stops: SIGTERM, the updater, a reboot (its own reboot command too).
\* Everything but the requests already under way is forgotten.
Crash(s) ==
    /\ pc[s] # "down"
    /\ crashes < MaxCrashes
    /\ crashes' = crashes + 1
    /\ pc' = [pc EXCEPT ![s] = "down"]
    /\ batch' = [batch EXCEPT ![s] = {}]
    /\ cur' = [cur EXCEPT ![s] = {}]
    /\ outcome' = [outcome EXCEPT ![s] = FALSE]
    /\ executed' = [executed EXCEPT ![s] = {}]
    /\ waits' = [waits EXCEPT ![s] = {}]
    /\ bootRuns' = [c \in Commands |-> IF row[c].host = s THEN 0 ELSE bootRuns[c]]
    /\ UNCHANGED <<now, serverVars, acks, handled, runs, lateRuns>>

\* systemd, Restart=always.
Restart(s) ==
    /\ pc[s] = "down"
    /\ pc' = [pc EXCEPT ![s] = "idle"]
    /\ UNCHANGED <<now, serverVars, waits, batch, cur, outcome, executed,
                   acks, crashes, historyVars>>

------------------------------------------------------------------------------
Handle(s) ==
    \E c \in Commands :
        \/ AckDuplicate(s, c)
        \/ Refuse(s, c)
        \/ Accept(s, c)
        \/ \E o \in BOOLEAN \X BOOLEAN : Dispatch(s, c, o)
        \/ Report(s, c)

Worker(s) ==
    \/ \E h \in Handlers : SendPoll(s, h)
    \/ AbandonPoll(s)
    \/ Handle(s)
    \/ AckReturn(s)
    \/ Restart(s)

Serve(h) == SelectPending(h) \/ HoldOn(h) \/ Answer(h)

\* Bound: not_after is not past when it is issued (a row issued lapsed is one that
\* lapses before the first poll) and lies before the last instant, so that it can
\* lapse.
Admin ==
    \E c \in Commands, s \in Stations, k \in IssuedKinds, t \in now..(now + MaxTTL) :
        t < MaxTime /\ Enqueue(c, s, k, t)

Next ==
    \/ Tick
    \/ Admin
    \/ \E s \in Stations : Worker(s) \/ Crash(s)
    \/ \E h \in Handlers : Serve(h) \/ FailPoll(h)
    \/ \E m \in acks : DeliverAck(m) \/ LoseAck(m)

\* Time passes, a started worker goes on, systemd restarts a stopped one.  Not every
\* handler fails, and none holds its poll for ever (_MAX_WAIT_SEC).  No fairness for
\* the network: every ack and every poll answer may be lost.
Fairness ==
    /\ WF_vars(Tick)
    /\ \A s \in Stations : WF_vars(Worker(s))
    /\ \A h \in Handlers : SF_vars(SelectPending(h)) /\ SF_vars(Answer(h))

Spec == Init /\ [][Next]_vars /\ Fairness

------------------------------------------------------------------------------
(* Properties.                                                              *)

\* Every variable has its type.
TypeOK ==
    /\ now \in Nat
    /\ row \in [Commands -> Row]
    /\ poll \in [Handlers -> Poll]
    /\ waits \in [Stations -> SUBSET Handlers]
    /\ pc \in [Stations -> PCs]
    /\ batch \in [Stations -> SUBSET Commands]
    /\ cur \in [Stations -> SUBSET Commands]
    /\ outcome \in [Stations -> BOOLEAN]
    /\ executed \in [Stations -> SUBSET Commands]
    /\ acks \in SUBSET Ack
    /\ crashes \in Nat
    /\ handled \in SUBSET Commands
    /\ runs \in [Commands -> Nat]
    /\ bootRuns \in [Commands -> Nat]
    /\ lateRuns \in [Commands -> Nat]

\* A row is shown as acked only when its station has refused or finished the
\* command, however late, duplicated or reordered the acks are (command_store.ack
\* trusts whatever ack reaches it).
AckedWasHandled ==
    \A c \in Commands : row[c].status = "acked" => c \in handled

\* Within the life of one worker process a command is carried out at most once,
\* whatever is redelivered after a lost ack (CommandWorker._executed).
OncePerBoot == \A c \in Commands : bootRuns[c] <= 1

\* An acked or expired row keeps its status and its result: the two guarded
\* UPDATEs race each other when an ack arrives between a poll's SELECT and UPDATE.
SettledRowsStay ==
    [][\A c \in Commands :
          row[c].status \in {"acked", "expired"} => row'[c] = row[c]]_vars

\* A command the queue shows as expired is not out of the way at once: a handler
\* whose client has gone may expire a row that a newer poll has just handed out.
\* That copy may still be carried out, no other ever is, whatever polls, restarts
\* and clock skew follow: nothing expired is handed out again.
ExpiredRunsOnceAtMost == \A c \in Commands : lateRuns[c] <= 1

\* Commands of one station start in the order they were created: when a command
\* is first carried out, every older one has been handled or has lapsed.
FirstRunsInOrder ==
    [][\A c, d \in Commands :
          /\ runs[d] = 0
          /\ runs'[d] > 0
          /\ row[c].status # "absent"
          /\ row[c].host = row[d].host
          /\ row[c].created < row[d].created
          => c \in handled \/ Lapsed(c)]_vars

\* The command channel implements the ledger its module comment describes.
Ledger == INSTANCE CommandLedger WITH
    life <- [c \in Commands |-> row[c].status],
    verdict <- [c \in Commands |-> row[c].result],
    late <- lateRuns

ImplementsLedger == Ledger!LedgerSpec

\* Every pending command is settled: its ack gets through, or its TTL passes and
\* a poll of the station expires it.
PendingSettles ==
    \A c \in Commands :
        row[c].status = "pending" ~> row[c].status \in {"acked", "expired"}

------------------------------------------------------------------------------
(* What the documentation says and the code does not do.                    *)

\* command_store.py:16 "a re-delivered id is acked without re-execution
\* station-side": a command is carried out at most once, over restarts too.
NeverReexecuted == \A c \in Commands : runs[c] <= 1

==============================================================================
