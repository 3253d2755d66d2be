------------------------- MODULE CommandChannelProofs -------------------------
(***************************************************************************)
(* Theorems about the command channel, for any sets of commands, stations  *)
(* and poll handlers, any bounds, any clock skew, and without the fairness *)
(* that PendingSettles needs.                                              *)
(*                                                                         *)
(* None of the safety properties is inductive by itself.  What carries     *)
(* them is where a command can be: in the answer of a handler somebody     *)
(* waits for or nobody does, in the batch of its own station, being        *)
(* dispatched, remembered, or on a list of ids to expire.  A handler       *)
(* without a client may expire what the worker holds; ChannelInv says what *)
(* it cannot do.                                                           *)
(***************************************************************************)
EXTENDS CommandChannel, TLAPS

\* Everything on its way is an issued command of the station it is on its way to.
Provenance ==
    /\ \A h \in Handlers : \A c \in poll[h].live \cup poll[h].stale :
          row[c].status # "absent" /\ row[c].host = poll[h].host
    /\ \A s \in Stations : \A c \in batch[s] \cup cur[s] \cup executed[s] :
          row[c].status # "absent" /\ row[c].host = s
    /\ \A m \in acks : row[m.cmd].status # "absent"
    /\ \A c \in handled : row[c].status # "absent"
    /\ \A c \in Commands : runs[c] > 0 \/ bootRuns[c] > 0 =>
          row[c].status # "absent" /\ row[c].host \in Stations
    /\ \A c \in Commands : row[c].status # "absent" =>
          row[c].host \in Stations /\ row[c].created <= now
    /\ \A c \in Commands : row[c].status = "absent" => row[c].result = "none"

\* Whom a worker waits for, and what it holds at each of its steps.
Phases ==
    \A s \in Stations :
        /\ waits[s] # {} => pc[s] = "polling"
        /\ \A g, h \in waits[s] : g = h
        /\ \A h \in waits[s] : poll[h].host = s /\ poll[h].phase # "free"
        /\ batch[s] # {} => pc[s] \in {"handling", "dispatching", "dispatched", "acking"}
        /\ cur[s] # {} => pc[s] \in {"dispatching", "dispatched"}
        /\ \A c, d \in cur[s] : c = d
        /\ cur[s] \cap executed[s] = {}
        /\ cur[s] \cap batch[s] = {}

\* An ack exists, and an id is remembered, only after the command was handled.
AcksFollowHandling ==
    /\ \A m \in acks : m.cmd \in handled
    /\ \A s \in Stations : executed[s] \subseteq handled
    /\ AckedWasHandled

\* A command that ran since the last start is remembered or about to be.
RunsAreRemembered ==
    /\ OncePerBoot
    /\ \A c \in Commands : bootRuns[c] > 0 =>
          \/ c \in executed[row[c].host]
          \/ c \in cur[row[c].host] /\ pc[row[c].host] = "dispatched"

\* Only a lapsed command is expired or about to be.
DoomedHasLapsed ==
    /\ \A h \in Handlers : \A c \in poll[h].stale : Lapsed(c)
    /\ \A c \in Commands : row[c].status = "expired" => Lapsed(c)

\* A command that ran although it was expired is nowhere from where it could run
\* again.
Reach(s, c) ==
    \/ c \in batch[s]
    \/ c \in cur[s] /\ pc[s] # "dispatched"
    \/ \E h \in waits[s] : c \in poll[h].live

LateIsGone ==
    /\ ExpiredRunsOnceAtMost
    /\ \A c \in Commands : lateRuns[c] > 0 =>
          /\ row[c].status = "expired"
          /\ \A s \in Stations : ~Reach(s, c)

\* Whatever is older than a held command is handled, lapsed or handled first.
Older(c, d) ==
    /\ row[c].status # "absent"
    /\ row[c].host = row[d].host
    /\ row[c].created < row[d].created

Past(c) == c \in handled \/ Lapsed(c)

HeldInOrder ==
    \A c, d \in Commands :
        Older(c, d) =>
            /\ \A h \in Handlers : d \in poll[h].live => Past(c) \/ c \in poll[h].live
            /\ \A s \in Stations :
                  /\ d \in batch[s] => Past(c) \/ c \in batch[s] \cup cur[s]
                  /\ d \in cur[s] => Past(c)

ChannelInv ==
    /\ TypeOK
    /\ Provenance
    /\ Phases
    /\ AcksFollowHandling
    /\ RunsAreRemembered
    /\ DoomedHasLapsed
    /\ LateIsGone
    /\ HeldInOrder

------------------------------------------------------------------------------

\* A row has its fields, whatever the command.
LEMMA RowFields ==
    ASSUME TypeOK, NEW c \in Commands
    PROVE  /\ row[c] \in Row
           /\ row[c].status \in Statuses
           /\ row[c].notAfter \in Nat
           /\ row[c].created \in Nat
           /\ now \in Nat
  BY DEF TypeOK, Row

\* The expiry UPDATE changes nothing but the status of pending rows.
LEMMA ExpireFacts ==
    ASSUME TypeOK, NEW E, Expire(E)
    PROVE  /\ row' \in [Commands -> Row]
           /\ \A c \in Commands :
                /\ row'[c].host = row[c].host
                /\ row'[c].kind = row[c].kind
                /\ row'[c].notAfter = row[c].notAfter
                /\ row'[c].created = row[c].created
                /\ row'[c].result = row[c].result
                /\ row'[c].status = IF c \in E /\ row[c].status = "pending"
                                    THEN "expired" ELSE row[c].status
<1>1. ASSUME NEW c \in Commands
      PROVE  /\ row'[c] \in Row
             /\ row'[c].host = row[c].host
             /\ row'[c].kind = row[c].kind
             /\ row'[c].notAfter = row[c].notAfter
             /\ row'[c].created = row[c].created
             /\ row'[c].result = row[c].result
             /\ row'[c].status = IF c \in E /\ row[c].status = "pending"
                                 THEN "expired" ELSE row[c].status
  <2>1. row[c] \in Row
    BY RowFields
  <2>2. row'[c] = IF c \in E /\ row[c].status = "pending"
                  THEN [row[c] EXCEPT !.status = "expired"] ELSE row[c]
    BY DEF Expire
  <2>3. [row[c] EXCEPT !.status = "expired"] \in Row
    BY <2>1 DEF Row, Statuses
  <2> QED BY <2>1, <2>2, <2>3 DEF Row
<1>2. row' = [c \in Commands |-> row'[c]]
  BY DEF Expire
<1> QED BY <1>1, <1>2

\* An ack of a known command by a known station is an ack.
LEMMA SendAckTyped ==
    ASSUME TypeOK, NEW c \in Commands, NEW s \in Stations, NEW ok \in BOOLEAN,
           SendAck(c, s, ok)
    PROVE  acks' \in SUBSET Ack
<1>1. [cmd |-> c, host |-> s, ok |-> ok] \in Ack
  BY DEF Ack
<1> QED BY <1>1 DEF TypeOK, SendAck

\* Order survives a step that only takes handled commands out of the worker's hands.
LEMMA OrderKept ==
    ASSUME HeldInOrder,
           \A c, d \in Commands : Older(c, d)' => Older(c, d),
           \A c \in Commands : Past(c) => Past(c)',
           poll' = poll,
           \A u \in Stations : batch'[u] \subseteq batch[u] /\ cur'[u] \subseteq cur[u],
           \A u \in Stations : \A c \in Commands :
              c \in batch[u] \cup cur[u] => c \in batch'[u] \cup cur'[u] \/ Past(c)'
    PROVE  HeldInOrder'
  BY DEF HeldInOrder

LEMMA TickKeeps ==
    ASSUME ChannelInv, Tick
    PROVE  ChannelInv'
<1> USE DEF ChannelInv
<1>1. TypeOK'
  BY DEF Tick, vars, serverVars, workerVars, historyVars, TypeOK
<1>2. Provenance'
  BY RowFields DEF Tick, serverVars, workerVars, historyVars, Provenance
<1>3. Phases'
  BY DEF Tick, vars, serverVars, workerVars, historyVars, Phases, TypeOK, Provenance
<1>4. AcksFollowHandling'
  BY DEF Tick, vars, serverVars, workerVars, historyVars, AcksFollowHandling,
     AckedWasHandled, TypeOK, Provenance
<1>5. RunsAreRemembered'
  BY DEF Tick, vars, serverVars, workerVars, historyVars, RunsAreRemembered,
     OncePerBoot, TypeOK, Phases, Provenance
<1>6. DoomedHasLapsed'
  BY RowFields DEF Tick, serverVars, DoomedHasLapsed, Lapsed, TypeOK, Poll
<1>7. LateIsGone'
  BY DEF Tick, vars, serverVars, workerVars, historyVars, LateIsGone,
     ExpiredRunsOnceAtMost, Reach, TypeOK, Phases, Provenance
<1>8. HeldInOrder'
  <2>1. \A c \in Commands : Past(c) => Past(c)'
    BY RowFields DEF Tick, serverVars, historyVars, Past, Lapsed
  <2> QED BY <2>1 DEF Tick, serverVars, workerVars, HeldInOrder, Older
<1> QED BY <1>1, <1>2, <1>3, <1>4, <1>5, <1>6, <1>7, <1>8

LEMMA EnqueueKeeps ==
    ASSUME ChannelInv, NEW c \in Commands, NEW s \in Stations, NEW k \in Kinds, NEW t \in Nat, 
           Enqueue(c, s, k, t)
    PROVE  ChannelInv'
<1> USE DEF ChannelInv
<1>1. TypeOK'
  BY DEF Enqueue, vars, serverVars, workerVars, historyVars, Row, Statuses, Kinds,
     Results, TypeOK
<1>2. Provenance'
  BY DEF Enqueue, vars, serverVars, workerVars, historyVars, Row, Statuses, Kinds,
     Results, Provenance, TypeOK, Phases
<1>3. Phases'
  BY DEF Enqueue, vars, serverVars, workerVars, historyVars, Row, Statuses, Kinds,
     Results, Phases, TypeOK, Provenance
<1>4. AcksFollowHandling'
  BY DEF Enqueue, vars, serverVars, workerVars, historyVars, Row, Statuses, Kinds,
     Results, AcksFollowHandling, AckedWasHandled, TypeOK, Provenance
<1>5. RunsAreRemembered'
  BY DEF Enqueue, vars, serverVars, workerVars, historyVars, Row, Statuses, Kinds,
     Results, RunsAreRemembered, OncePerBoot, TypeOK, Phases, Provenance
<1>6. DoomedHasLapsed'
  BY DEF Enqueue, vars, serverVars, workerVars, historyVars, Row, Statuses, Kinds,
     Results, DoomedHasLapsed, Lapsed, TypeOK, Provenance
<1>7. LateIsGone'
  BY DEF Enqueue, vars, serverVars, workerVars, historyVars, Row, Statuses, Kinds,
     Results, LateIsGone, ExpiredRunsOnceAtMost, Reach, TypeOK, Phases, Provenance
<1>8. HeldInOrder'
  BY DEF Enqueue, vars, serverVars, workerVars, historyVars, Row, Statuses, Kinds,
     Results, HeldInOrder, Older, Past, Lapsed, TypeOK, Phases, Provenance,
     AcksFollowHandling
<1> QED BY <1>1, <1>2, <1>3, <1>4, <1>5, <1>6, <1>7, <1>8

LEMMA SelectPendingKeeps ==
    ASSUME ChannelInv, NEW h \in Handlers, SelectPending(h)
    PROVE  ChannelInv'
<1> USE DEF ChannelInv
<1>1. TypeOK'
  BY DEF SelectPending, vars, serverVars, workerVars, historyVars, LiveRows,
     PendingRows, Lapsed, Poll, TypeOK
<1>2. Provenance'
  BY DEF SelectPending, vars, serverVars, workerVars, historyVars, LiveRows,
     PendingRows, Lapsed, Poll, Provenance, TypeOK, Phases
<1>3. Phases'
  BY DEF SelectPending, vars, serverVars, workerVars, historyVars, LiveRows,
     PendingRows, Lapsed, Poll, Phases, TypeOK, Provenance
<1>4. AcksFollowHandling'
  BY DEF SelectPending, vars, serverVars, workerVars, historyVars, LiveRows,
     PendingRows, Lapsed, Poll, AcksFollowHandling, AckedWasHandled, TypeOK,
     Provenance
<1>5. RunsAreRemembered'
  BY DEF SelectPending, vars, serverVars, workerVars, historyVars, LiveRows,
     PendingRows, Lapsed, Poll, RunsAreRemembered, OncePerBoot, TypeOK, Phases,
     Provenance
<1>6. DoomedHasLapsed'
  BY DEF SelectPending, vars, serverVars, workerVars, historyVars, LiveRows,
     PendingRows, Lapsed, Poll, DoomedHasLapsed, TypeOK, Provenance
<1>7. LateIsGone'
  BY DEF SelectPending, vars, serverVars, workerVars, historyVars, LiveRows,
     PendingRows, Lapsed, Poll, LateIsGone, ExpiredRunsOnceAtMost, Reach, TypeOK,
     Phases, Provenance
<1>8. HeldInOrder'
  <2> SUFFICES ASSUME NEW g \in Handlers, NEW c \in Commands, NEW d \in Commands,
                      Older(c, d), d \in poll'[g].live
               PROVE  Past(c) \/ c \in poll'[g].live
    BY DEF SelectPending, workerVars, historyVars, HeldInOrder, Older, Past, Lapsed
  <2>1. CASE g # h
    BY <2>1 DEF SelectPending, TypeOK, HeldInOrder
  <2>2. CASE g = h
    <3>1. d \in LiveRows(poll[h].host) /\ poll'[h].live = LiveRows(poll[h].host)
      BY <2>2 DEF SelectPending, TypeOK
    <3>2. row[c].host = poll[h].host /\ row[c].status # "absent"
      BY <3>1 DEF Older, LiveRows, PendingRows
    <3>3. row[c].status = "acked" => c \in handled
      BY DEF AcksFollowHandling, AckedWasHandled
    <3>4. row[c].status = "expired" => Lapsed(c)
      BY DEF DoomedHasLapsed
    <3> QED BY <2>2, <3>1, <3>2, <3>3, <3>4, RowFields DEF Statuses, LiveRows, PendingRows, Past
  <2> QED BY <2>1, <2>2
<1> QED BY <1>1, <1>2, <1>3, <1>4, <1>5, <1>6, <1>7, <1>8

LEMMA HoldOnKeeps ==
    ASSUME ChannelInv, NEW h \in Handlers, HoldOn(h)
    PROVE  ChannelInv'
<1> USE DEF ChannelInv
<1>1. TypeOK'
  <2>1. row' \in [Commands -> Row]
    BY ExpireFacts DEF HoldOn
  <2>2. poll' \in [Handlers -> Poll]
    <3>1. poll[h] \in Poll
      BY DEF TypeOK
    <3>2. [poll[h] EXCEPT !.phase = "holding", !.stale = {}] \in Poll
      BY <3>1 DEF Poll
    <3>3. poll' = [poll EXCEPT ![h] = [poll[h] EXCEPT !.phase = "holding", !.stale = {}]]
      BY DEF HoldOn
    <3> HIDE DEF ChannelInv
    <3> QED BY <3>2, <3>3 DEF TypeOK, ChannelInv
  <2> QED BY <2>1, <2>2 DEF HoldOn, workerVars, historyVars, TypeOK
<1>2. Provenance'
  <2>1. \A c \in Commands : /\ row'[c].status = "absent" <=> row[c].status = "absent"
                            /\ row'[c].host = row[c].host
                            /\ row'[c].created = row[c].created
                            /\ row'[c].result = row[c].result
    BY ExpireFacts DEF HoldOn
  <2>2. \A g \in Handlers : /\ poll'[g].live \cup poll'[g].stale \subseteq poll[g].live \cup poll[g].stale
                            /\ poll'[g].live \cup poll'[g].stale # {} => poll'[g].host = poll[g].host
    BY DEF HoldOn, TypeOK
  <2>3. \A u \in Stations : \A c \in batch'[u] \cup cur'[u] \cup executed'[u] :
          c \in Commands /\ row[c].status # "absent" /\ row[c].host = u
    BY DEF HoldOn, workerVars, TypeOK, Poll, Phases, Provenance
  <2>4. UNCHANGED <<now, acks, handled, runs, bootRuns>>
    BY DEF HoldOn, historyVars
  <2>5. \A g \in Handlers : poll[g].live \cup poll[g].stale \subseteq Commands
    BY DEF TypeOK, Poll
  <2>6. handled \subseteq Commands /\ \A m \in acks : m.cmd \in Commands
    BY DEF TypeOK, Ack
  <2> QED BY <2>1, <2>2, <2>3, <2>4, <2>5, <2>6 DEF Provenance
<1>3. Phases'
  <2>1. \A g \in Handlers : poll'[g].host = poll[g].host /\ (poll'[g].phase = "free" <=> poll[g].phase = "free")
    BY DEF HoldOn, TypeOK, Poll
  <2>2. \A u \in Stations : waits[u] \subseteq Handlers
    BY DEF TypeOK
  <2>3. UNCHANGED <<pc, waits, batch, cur, executed>>
    BY DEF HoldOn, workerVars
  <2> QED BY <2>1, <2>2, <2>3 DEF Phases
<1>4. AcksFollowHandling'
  <2>1. \A c \in Commands : row'[c].status = "acked" => row[c].status = "acked"
    BY ExpireFacts DEF HoldOn
  <2> QED BY <2>1 DEF HoldOn, workerVars, historyVars, AcksFollowHandling, AckedWasHandled
<1>5. RunsAreRemembered'
  <2>1. \A c \in Commands : /\ row'[c].status = "absent" <=> row[c].status = "absent"
                            /\ row'[c].host = row[c].host
                            /\ row'[c].created = row[c].created
                            /\ row'[c].result = row[c].result
    BY ExpireFacts DEF HoldOn
  <2>2. \A c \in Commands : bootRuns[c] > 0 => row[c].host \in Stations
    BY DEF Provenance
  <2>3. \A u \in Stations : h \in waits[u] => cur[u] = {}
    BY DEF Phases
  <2> QED BY <2>1, <2>2, <2>3 DEF HoldOn, workerVars, historyVars, RunsAreRemembered, OncePerBoot, TypeOK
<1>6. DoomedHasLapsed'
  <2>1. \A c \in Commands :
          /\ Lapsed(c)' <=> Lapsed(c)
          /\ row'[c].status = "expired" => row[c].status = "expired" \/ c \in poll[h].stale
    BY ExpireFacts DEF HoldOn, Lapsed
  <2>2. \A g \in Handlers : poll'[g].stale \subseteq poll[g].stale /\ poll[g].stale \subseteq Commands
    BY DEF HoldOn, TypeOK, Poll, NoPoll
  <2> QED BY <2>1, <2>2 DEF DoomedHasLapsed
<1>7. LateIsGone'
  <2>1. \A c \in Commands : row[c].status = "expired" => row'[c].status = "expired"
    BY ExpireFacts DEF HoldOn
  <2>2. \A g \in Handlers : poll'[g].live = poll[g].live
    BY DEF HoldOn, TypeOK, Poll
  <2>3. \A u \in Stations : waits[u] \subseteq Handlers
    BY DEF TypeOK
  <2> QED BY <2>1, <2>2, <2>3 DEF HoldOn, workerVars, historyVars, LateIsGone, ExpiredRunsOnceAtMost, Reach
<1>8. HeldInOrder'
  <2>1. \A c \in Commands : /\ row'[c].status = "absent" <=> row[c].status = "absent"
                            /\ row'[c].host = row[c].host
                            /\ row'[c].created = row[c].created
                            /\ row'[c].result = row[c].result
    BY ExpireFacts DEF HoldOn
  <2>2. \A c, d \in Commands : Older(c, d)' <=> Older(c, d)
    BY <2>1 DEF Older
  <2>3. \A c \in Commands : Past(c)' <=> Past(c)
    BY ExpireFacts DEF HoldOn, historyVars, Past, Lapsed
  <2>4. \A g \in Handlers : poll'[g].live = poll[g].live
    BY DEF HoldOn, TypeOK, Poll
  <2> QED BY <2>2, <2>3, <2>4 DEF HoldOn, workerVars, HeldInOrder
<1> QED BY <1>1, <1>2, <1>3, <1>4, <1>5, <1>6, <1>7, <1>8

LEMMA AnswerKeeps ==
    ASSUME ChannelInv, NEW h \in Handlers, Answer(h)
    PROVE  ChannelInv'
<1> USE DEF ChannelInv
<1>1. TypeOK'
  <2>1. row' \in [Commands -> Row]
    BY ExpireFacts DEF Answer
  <2>2. poll' \in [Handlers -> Poll]
    BY DEF Answer, TypeOK, Poll, NoPoll
  <2>3. poll[h].live \in SUBSET Commands
    BY DEF TypeOK, Poll
  <2> QED BY <2>1, <2>2, <2>3 DEF Answer, workerVars, historyVars, TypeOK, AfterBatch, PCs
<1>2. Provenance'
  <2>1. \A c \in Commands : /\ row'[c].status = "absent" <=> row[c].status = "absent"
                            /\ row'[c].host = row[c].host
                            /\ row'[c].created = row[c].created
                            /\ row'[c].result = row[c].result
    BY ExpireFacts DEF Answer
  <2>2. \A g \in Handlers : /\ poll'[g].live \cup poll'[g].stale \subseteq poll[g].live \cup poll[g].stale
                            /\ poll'[g].live \cup poll'[g].stale # {} => poll'[g].host = poll[g].host
    BY DEF Answer, TypeOK, NoPoll
  <2>3. \A u \in Stations : \A c \in batch'[u] \cup cur'[u] \cup executed'[u] :
          c \in Commands /\ row[c].status # "absent" /\ row[c].host = u
    BY DEF Answer, workerVars, TypeOK, Poll, Phases, Provenance
  <2>4. UNCHANGED <<now, acks, handled, runs, bootRuns>>
    BY DEF Answer, historyVars
  <2>5. \A g \in Handlers : poll[g].live \cup poll[g].stale \subseteq Commands
    BY DEF TypeOK, Poll
  <2>6. handled \subseteq Commands /\ \A m \in acks : m.cmd \in Commands
    BY DEF TypeOK, Ack
  <2> QED BY <2>1, <2>2, <2>3, <2>4, <2>5, <2>6 DEF Provenance
<1>3. Phases'
  <2>1. \A u \in Stations : h \in waits[u] => waits[u] = {h} /\ cur[u] = {} /\ batch[u] = {}
    BY DEF Phases
  <2>2. \A u \in Stations : waits'[u] = waits[u] \ {h} /\ \A g \in waits'[u] : poll'[g] = poll[g]
    BY DEF Answer, TypeOK
  <2> SUFFICES ASSUME NEW u \in Stations
               PROVE  /\ waits'[u] # {} => pc'[u] = "polling"
                      /\ \A f, g \in waits'[u] : f = g
                      /\ \A g \in waits'[u] : poll'[g].host = u /\ poll'[g].phase # "free"
                      /\ batch'[u] # {} => pc'[u] \in {"handling", "dispatching", "dispatched", "acking"}
                      /\ cur'[u] # {} => pc'[u] \in {"dispatching", "dispatched"}
                      /\ \A c, d \in cur'[u] : c = d
                      /\ cur'[u] \cap executed'[u] = {}
                      /\ cur'[u] \cap batch'[u] = {}
    BY DEF Phases
  <2>3. CASE h \in waits[u]
    BY <2>1, <2>2, <2>3 DEF Answer, AfterBatch
  <2>4. CASE h \notin waits[u]
    <3>1. waits'[u] = waits[u] /\ pc'[u] = pc[u] /\ batch'[u] = batch[u] /\ cur'[u] = cur[u]
      BY <2>2, <2>4 DEF Answer
    <3>2. executed' = executed
      BY DEF Answer
    <3> QED BY <2>2, <3>1, <3>2 DEF Phases
  <2> QED BY <2>3, <2>4
<1>4. AcksFollowHandling'
  <2>1. \A c \in Commands : row'[c].status = "acked" => row[c].status = "acked"
    BY ExpireFacts DEF Answer
  <2> QED BY <2>1 DEF Answer, workerVars, historyVars, AcksFollowHandling, AckedWasHandled
<1>5. RunsAreRemembered'
  <2>1. \A c \in Commands : /\ row'[c].status = "absent" <=> row[c].status = "absent"
                            /\ row'[c].host = row[c].host
                            /\ row'[c].created = row[c].created
                            /\ row'[c].result = row[c].result
    BY ExpireFacts DEF Answer
  <2>2. \A c \in Commands : bootRuns[c] > 0 => row[c].host \in Stations
    BY DEF Provenance
  <2>3. \A u \in Stations : h \in waits[u] => cur[u] = {}
    BY DEF Phases
  <2> QED BY <2>1, <2>2, <2>3 DEF Answer, workerVars, historyVars, RunsAreRemembered, OncePerBoot, TypeOK
<1>6. DoomedHasLapsed'
  <2>1. \A c \in Commands :
          /\ Lapsed(c)' <=> Lapsed(c)
          /\ row'[c].status = "expired" => row[c].status = "expired" \/ c \in poll[h].stale
    BY ExpireFacts DEF Answer, Lapsed
  <2>2. \A g \in Handlers : poll'[g].stale \subseteq poll[g].stale /\ poll[g].stale \subseteq Commands
    BY DEF Answer, TypeOK, Poll, NoPoll
  <2> QED BY <2>1, <2>2 DEF DoomedHasLapsed
<1>7. LateIsGone'
  <2>1. \A c \in Commands : row[c].status = "expired" => row'[c].status = "expired"
    BY ExpireFacts DEF Answer
  <2>2. \A u \in Stations : \A g \in waits'[u] : g \in waits[u] /\ poll'[g] = poll[g]
    BY DEF Answer, TypeOK
  <2>3. \A u \in Stations : h \in waits[u] => cur[u] = {}
    BY DEF Phases
  <2>4. \A u \in Stations, c \in Commands : Reach(u, c)' => Reach(u, c)
    BY <2>2, <2>3 DEF Answer, Reach, TypeOK
  <2> QED BY <2>1, <2>4 DEF Answer, historyVars, LateIsGone, ExpiredRunsOnceAtMost
<1>8. HeldInOrder'
  <2>1. \A c \in Commands : /\ row'[c].status = "absent" <=> row[c].status = "absent"
                            /\ row'[c].host = row[c].host
                            /\ row'[c].created = row[c].created
                            /\ row'[c].result = row[c].result
    BY ExpireFacts DEF Answer
  <2>2. \A c, d \in Commands : Older(c, d)' <=> Older(c, d)
    BY <2>1 DEF Older
  <2>3. \A c \in Commands : Past(c)' <=> Past(c)
    BY ExpireFacts DEF Answer, historyVars, Past, Lapsed
  <2>4. \A g \in Handlers : g # h => poll'[g].live = poll[g].live
    BY DEF Answer, TypeOK
  <2>5. poll'[h].live = {}
    BY DEF Answer, TypeOK, NoPoll
  <2>6. \A u \in Stations : /\ cur'[u] = cur[u]
                            /\ batch'[u] = IF h \in waits[u] THEN poll[h].live ELSE batch[u]
    BY DEF Answer
  <2> QED BY <2>2, <2>3, <2>4, <2>5, <2>6 DEF HeldInOrder
<1> QED BY <1>1, <1>2, <1>3, <1>4, <1>5, <1>6, <1>7, <1>8

LEMMA FailPollKeeps ==
    ASSUME ChannelInv, NEW h \in Handlers, FailPoll(h)
    PROVE  ChannelInv'
<1> USE DEF ChannelInv
<1>1. TypeOK'
  BY DEF FailPoll, vars, serverVars, workerVars, historyVars, NoPoll, Poll, PCs,
     TypeOK
<1>2. Provenance'
  BY DEF FailPoll, vars, serverVars, workerVars, historyVars, NoPoll, Poll, PCs,
     Provenance, TypeOK, Phases
<1>3. Phases'
  <2>1. \A u \in Stations : h \in waits[u] => waits[u] = {h} /\ cur[u] = {} /\ batch[u] = {}
    BY DEF Phases
  <2>2. \A u \in Stations : waits'[u] = waits[u] \ {h} /\ \A g \in waits'[u] : poll'[g] = poll[g]
    BY DEF FailPoll, TypeOK
  <2> SUFFICES ASSUME NEW u \in Stations
               PROVE  /\ waits'[u] # {} => pc'[u] = "polling"
                      /\ \A f, g \in waits'[u] : f = g
                      /\ \A g \in waits'[u] : poll'[g].host = u /\ poll'[g].phase # "free"
                      /\ batch'[u] # {} => pc'[u] \in {"handling", "dispatching", "dispatched", "acking"}
                      /\ cur'[u] # {} => pc'[u] \in {"dispatching", "dispatched"}
                      /\ \A c, d \in cur'[u] : c = d
                      /\ cur'[u] \cap executed'[u] = {}
                      /\ cur'[u] \cap batch'[u] = {}
    BY DEF Phases
  <2>3. CASE h \in waits[u]
    BY <2>1, <2>2, <2>3 DEF FailPoll
  <2>4. CASE h \notin waits[u]
    <3>1. waits'[u] = waits[u] /\ pc'[u] = pc[u] /\ batch'[u] = batch[u] /\ cur'[u] = cur[u]
      BY <2>2, <2>4 DEF FailPoll
    <3>2. executed' = executed
      BY DEF FailPoll
    <3> QED BY <2>2, <3>1, <3>2 DEF Phases
  <2> QED BY <2>3, <2>4
<1>4. AcksFollowHandling'
  BY DEF FailPoll, vars, serverVars, workerVars, historyVars, NoPoll, Poll, PCs,
     AcksFollowHandling, AckedWasHandled, TypeOK, Provenance
<1>5. RunsAreRemembered'
  BY DEF FailPoll, vars, serverVars, workerVars, historyVars, NoPoll, Poll, PCs,
     RunsAreRemembered, OncePerBoot, TypeOK, Phases, Provenance
<1>6. DoomedHasLapsed'
  BY DEF FailPoll, vars, serverVars, workerVars, historyVars, NoPoll, Poll, PCs,
     DoomedHasLapsed, Lapsed, TypeOK, Provenance
<1>7. LateIsGone'
  <2>1. \A u \in Stations : \A g \in waits'[u] : g \in waits[u] /\ poll'[g] = poll[g]
    BY DEF FailPoll, TypeOK
  <2>2. \A u \in Stations : h \in waits[u] => cur[u] = {}
    BY DEF Phases
  <2>3. \A u \in Stations, c \in Commands : Reach(u, c)' => Reach(u, c)
    BY <2>1, <2>2 DEF FailPoll, Reach, TypeOK
  <2> QED BY <2>3 DEF FailPoll, historyVars, LateIsGone, ExpiredRunsOnceAtMost
<1>8. HeldInOrder'
  BY DEF FailPoll, vars, serverVars, workerVars, historyVars, NoPoll, Poll, PCs,
     HeldInOrder, Older, Past, Lapsed, TypeOK, Phases, Provenance,
     AcksFollowHandling
<1> QED BY <1>1, <1>2, <1>3, <1>4, <1>5, <1>6, <1>7, <1>8

LEMMA DeliverAckKeeps ==
    ASSUME ChannelInv, NEW m \in Ack, DeliverAck(m)
    PROVE  ChannelInv'
<1> USE DEF ChannelInv
<1>1. TypeOK'
  <2>1. row' \in [Commands -> Row]
    <3>1. m.cmd \in Commands /\ row[m.cmd] \in Row
      BY DEF TypeOK, Ack
    <3>2. \A v \in Results : [row[m.cmd] EXCEPT !.status = "acked", !.result = v] \in Row
      BY <3>1 DEF Row, Statuses
    <3> QED BY <3>1, <3>2 DEF DeliverAck, TypeOK, Results
  <2> QED BY <2>1 DEF DeliverAck, workerVars, historyVars, TypeOK
<1>2. Provenance'
  <2>1. \A c \in Commands :
          /\ row'[c].status = "absent" <=> row[c].status = "absent"
          /\ row'[c].status = "expired" <=> row[c].status = "expired"
          /\ row'[c].host = row[c].host
          /\ row'[c].created = row[c].created
          /\ row'[c].notAfter = row[c].notAfter
          /\ row[c].status = "absent" => row'[c].result = row[c].result
    BY RowFields DEF DeliverAck, AckApplies, TypeOK, Row, Ack
  <2>2. /\ \A g \in Handlers : poll[g].live \cup poll[g].stale \subseteq Commands
        /\ \A u \in Stations : batch[u] \cup cur[u] \cup executed[u] \subseteq Commands
        /\ handled \subseteq Commands
        /\ \A a \in acks : a.cmd \in Commands
    BY DEF TypeOK, Poll, Ack
  <2>3. UNCHANGED <<now, poll, batch, cur, executed, handled, runs, bootRuns>>
    BY DEF DeliverAck, workerVars, historyVars
  <2>4. acks' \subseteq acks
    BY DEF DeliverAck
  <2> QED BY <2>1, <2>2, <2>3, <2>4 DEF Provenance
<1>3. Phases'
  BY DEF DeliverAck, vars, serverVars, workerVars, historyVars, AckApplies, Row,
     Statuses, Results, Ack, Phases, TypeOK, Provenance
<1>4. AcksFollowHandling'
  BY DEF DeliverAck, vars, serverVars, workerVars, historyVars, AckApplies, Row,
     Statuses, Results, Ack, AcksFollowHandling, AckedWasHandled, TypeOK, Provenance
<1>5. RunsAreRemembered'
  BY DEF DeliverAck, vars, serverVars, workerVars, historyVars, AckApplies, Row,
     Statuses, Results, Ack, RunsAreRemembered, OncePerBoot, TypeOK, Phases,
     Provenance
<1>6. DoomedHasLapsed'
  <2>1. \A c \in Commands :
          /\ row'[c].status = "absent" <=> row[c].status = "absent"
          /\ row'[c].status = "expired" <=> row[c].status = "expired"
          /\ row'[c].host = row[c].host
          /\ row'[c].created = row[c].created
          /\ row'[c].notAfter = row[c].notAfter
          /\ row[c].status = "absent" => row'[c].result = row[c].result
    BY RowFields DEF DeliverAck, AckApplies, TypeOK, Row, Ack
  <2>2. \A g \in Handlers : poll[g].stale \subseteq Commands
    BY DEF TypeOK, Poll
  <2> QED BY <2>1, <2>2 DEF DeliverAck, DoomedHasLapsed, Lapsed
<1>7. LateIsGone'
  BY DEF DeliverAck, vars, serverVars, workerVars, historyVars, AckApplies, Row,
     Statuses, Results, Ack, LateIsGone, ExpiredRunsOnceAtMost, Reach, TypeOK,
     Phases, Provenance
<1>8. HeldInOrder'
  BY DEF DeliverAck, vars, serverVars, workerVars, historyVars, AckApplies, Row,
     Statuses, Results, Ack, HeldInOrder, Older, Past, Lapsed, TypeOK, Phases,
     Provenance, AcksFollowHandling
<1> QED BY <1>1, <1>2, <1>3, <1>4, <1>5, <1>6, <1>7, <1>8

LEMMA LoseAckKeeps ==
    ASSUME ChannelInv, NEW m \in Ack, LoseAck(m)
    PROVE  ChannelInv'
<1> USE DEF ChannelInv
<1>1. TypeOK'
  BY DEF LoseAck, vars, serverVars, workerVars, historyVars, TypeOK
<1>2. Provenance'
  BY DEF LoseAck, vars, serverVars, workerVars, historyVars, Provenance, TypeOK,
     Phases
<1>3. Phases'
  BY DEF LoseAck, vars, serverVars, workerVars, historyVars, Phases, TypeOK,
     Provenance
<1>4. AcksFollowHandling'
  BY DEF LoseAck, vars, serverVars, workerVars, historyVars, AcksFollowHandling,
     AckedWasHandled, TypeOK, Provenance
<1>5. RunsAreRemembered'
  BY DEF LoseAck, vars, serverVars, workerVars, historyVars, RunsAreRemembered,
     OncePerBoot, TypeOK, Phases, Provenance
<1>6. DoomedHasLapsed'
  BY DEF LoseAck, vars, serverVars, workerVars, historyVars, DoomedHasLapsed, Lapsed,
     TypeOK, Provenance
<1>7. LateIsGone'
  BY DEF LoseAck, vars, serverVars, workerVars, historyVars, LateIsGone,
     ExpiredRunsOnceAtMost, Reach, TypeOK, Phases, Provenance
<1>8. HeldInOrder'
  BY DEF LoseAck, vars, serverVars, workerVars, historyVars, HeldInOrder, Older,
     Past, Lapsed, TypeOK, Phases, Provenance, AcksFollowHandling
<1> QED BY <1>1, <1>2, <1>3, <1>4, <1>5, <1>6, <1>7, <1>8

LEMMA SendPollKeeps ==
    ASSUME ChannelInv, NEW s \in Stations, NEW h \in Handlers, SendPoll(s, h)
    PROVE  ChannelInv'
<1> USE DEF ChannelInv
<1>1. TypeOK'
  BY DEF SendPoll, vars, serverVars, workerVars, historyVars, NoPoll, Poll, PCs,
     TypeOK
<1>2. Provenance'
  BY DEF SendPoll, vars, serverVars, workerVars, historyVars, NoPoll, Poll, PCs,
     Provenance, TypeOK, Phases
<1>3. Phases'
  BY DEF SendPoll, vars, serverVars, workerVars, historyVars, NoPoll, Poll, PCs,
     Phases, TypeOK, Provenance
<1>4. AcksFollowHandling'
  BY DEF SendPoll, vars, serverVars, workerVars, historyVars, NoPoll, Poll, PCs,
     AcksFollowHandling, AckedWasHandled, TypeOK, Provenance
<1>5. RunsAreRemembered'
  BY DEF SendPoll, vars, serverVars, workerVars, historyVars, NoPoll, Poll, PCs,
     RunsAreRemembered, OncePerBoot, TypeOK, Phases, Provenance
<1>6. DoomedHasLapsed'
  BY DEF SendPoll, vars, serverVars, workerVars, historyVars, NoPoll, Poll, PCs,
     DoomedHasLapsed, Lapsed, TypeOK, Provenance
<1>7. LateIsGone'
  BY DEF SendPoll, vars, serverVars, workerVars, historyVars, NoPoll, Poll, PCs,
     LateIsGone, ExpiredRunsOnceAtMost, Reach, TypeOK, Phases, Provenance
<1>8. HeldInOrder'
  BY DEF SendPoll, vars, serverVars, workerVars, historyVars, NoPoll, Poll, PCs,
     HeldInOrder, Older, Past, Lapsed, TypeOK, Phases, Provenance,
     AcksFollowHandling
<1> QED BY <1>1, <1>2, <1>3, <1>4, <1>5, <1>6, <1>7, <1>8

LEMMA AbandonPollKeeps ==
    ASSUME ChannelInv, NEW s \in Stations, AbandonPoll(s)
    PROVE  ChannelInv'
<1> USE DEF ChannelInv
<1>1. TypeOK'
  BY DEF AbandonPoll, vars, serverVars, workerVars, historyVars, PCs, TypeOK
<1>2. Provenance'
  BY DEF AbandonPoll, vars, serverVars, workerVars, historyVars, PCs, Provenance,
     TypeOK, Phases
<1>3. Phases'
  BY DEF AbandonPoll, vars, serverVars, workerVars, historyVars, PCs, Phases, TypeOK,
     Provenance
<1>4. AcksFollowHandling'
  BY DEF AbandonPoll, vars, serverVars, workerVars, historyVars, PCs,
     AcksFollowHandling, AckedWasHandled, TypeOK, Provenance
<1>5. RunsAreRemembered'
  BY DEF AbandonPoll, vars, serverVars, workerVars, historyVars, PCs,
     RunsAreRemembered, OncePerBoot, TypeOK, Phases, Provenance
<1>6. DoomedHasLapsed'
  BY DEF AbandonPoll, vars, serverVars, workerVars, historyVars, PCs,
     DoomedHasLapsed, Lapsed, TypeOK, Provenance
<1>7. LateIsGone'
  BY DEF AbandonPoll, vars, serverVars, workerVars, historyVars, PCs, LateIsGone,
     ExpiredRunsOnceAtMost, Reach, TypeOK, Phases, Provenance
<1>8. HeldInOrder'
  BY DEF AbandonPoll, vars, serverVars, workerVars, historyVars, PCs, HeldInOrder,
     Older, Past, Lapsed, TypeOK, Phases, Provenance, AcksFollowHandling
<1> QED BY <1>1, <1>2, <1>3, <1>4, <1>5, <1>6, <1>7, <1>8

LEMMA AckDuplicateKeeps ==
    ASSUME ChannelInv, NEW s \in Stations, NEW c \in Commands, AckDuplicate(s, c)
    PROVE  ChannelInv'
<1> USE DEF ChannelInv
<1>1. TypeOK'
  <2>1. acks' \in SUBSET Ack
    BY SendAckTyped DEF AckDuplicate
  <2> QED BY <2>1 DEF AckDuplicate, Remember, serverVars, workerVars, historyVars, PCs, TypeOK
<1>2. Provenance'
  BY DEF AckDuplicate, vars, serverVars, workerVars, historyVars, SendAck, Oldest,
     Ack, PCs, Provenance, TypeOK, Phases
<1>3. Phases'
  BY DEF AckDuplicate, vars, serverVars, workerVars, historyVars, SendAck, Oldest,
     Ack, PCs, Phases, TypeOK, Provenance
<1>4. AcksFollowHandling'
  BY DEF AckDuplicate, vars, serverVars, workerVars, historyVars, SendAck, Oldest,
     Ack, PCs, AcksFollowHandling, AckedWasHandled, TypeOK, Provenance
<1>5. RunsAreRemembered'
  BY DEF AckDuplicate, vars, serverVars, workerVars, historyVars, SendAck, Oldest,
     Ack, PCs, RunsAreRemembered, OncePerBoot, TypeOK, Phases, Provenance
<1>6. DoomedHasLapsed'
  BY DEF AckDuplicate, vars, serverVars, workerVars, historyVars, SendAck, Oldest,
     Ack, PCs, DoomedHasLapsed, Lapsed, TypeOK, Provenance
<1>7. LateIsGone'
  BY DEF AckDuplicate, vars, serverVars, workerVars, historyVars, SendAck, Oldest,
     Ack, PCs, LateIsGone, ExpiredRunsOnceAtMost, Reach, TypeOK, Phases, Provenance
<1>8. HeldInOrder'
  <2>1. UNCHANGED <<now, row, poll>>
    BY DEF AckDuplicate, serverVars
  <2>2. \A d, e \in Commands : Older(d, e)' <=> Older(d, e)
    BY <2>1 DEF Older
  <2>3. handled \cup {c} = handled' /\ c \in Commands
    BY DEF AckDuplicate, historyVars, AcksFollowHandling
  <2>4. \A d \in Commands : Past(d) => Past(d)'
    BY <2>1, <2>3 DEF Past, Lapsed
  <2>5. Past(c)'
    BY <2>3 DEF Past
  <2>6. \A u \in Stations : /\ batch'[u] \subseteq batch[u]
                            /\ cur'[u] \subseteq cur[u]
                            /\ batch[u] \cup cur[u] \subseteq batch'[u] \cup cur'[u] \cup {c}
    BY DEF AckDuplicate, TypeOK
  <2> QED BY <2>1, <2>2, <2>4, <2>5, <2>6, OrderKept
<1> QED BY <1>1, <1>2, <1>3, <1>4, <1>5, <1>6, <1>7, <1>8

LEMMA RefuseKeeps ==
    ASSUME ChannelInv, NEW s \in Stations, NEW c \in Commands, Refuse(s, c)
    PROVE  ChannelInv'
<1> USE DEF ChannelInv
<1>1. TypeOK'
  <2>1. acks' \in SUBSET Ack
    BY SendAckTyped DEF Refuse
  <2> QED BY <2>1 DEF Refuse, Remember, serverVars, workerVars, historyVars, PCs, TypeOK
<1>2. Provenance'
  BY DEF Refuse, vars, serverVars, workerVars, historyVars, SendAck, Oldest, Ack,
     PCs, Remember, Provenance, TypeOK, Phases
<1>3. Phases'
  BY DEF Refuse, vars, serverVars, workerVars, historyVars, SendAck, Oldest, Ack,
     PCs, Remember, Phases, TypeOK, Provenance
<1>4. AcksFollowHandling'
  BY DEF Refuse, vars, serverVars, workerVars, historyVars, SendAck, Oldest, Ack,
     PCs, Remember, AcksFollowHandling, AckedWasHandled, TypeOK, Provenance
<1>5. RunsAreRemembered'
  BY DEF Refuse, vars, serverVars, workerVars, historyVars, SendAck, Oldest, Ack,
     PCs, Remember, RunsAreRemembered, OncePerBoot, TypeOK, Phases, Provenance
<1>6. DoomedHasLapsed'
  BY DEF Refuse, vars, serverVars, workerVars, historyVars, SendAck, Oldest, Ack,
     PCs, Remember, DoomedHasLapsed, Lapsed, TypeOK, Provenance
<1>7. LateIsGone'
  BY DEF Refuse, vars, serverVars, workerVars, historyVars, SendAck, Oldest, Ack,
     PCs, Remember, LateIsGone, ExpiredRunsOnceAtMost, Reach, TypeOK, Phases,
     Provenance
<1>8. HeldInOrder'
  <2>1. UNCHANGED <<now, row, poll>>
    BY DEF Refuse, serverVars
  <2>2. \A d, e \in Commands : Older(d, e)' <=> Older(d, e)
    BY <2>1 DEF Older
  <2>3. handled \cup {c} = handled' /\ c \in Commands
    BY DEF Refuse, historyVars, AcksFollowHandling
  <2>4. \A d \in Commands : Past(d) => Past(d)'
    BY <2>1, <2>3 DEF Past, Lapsed
  <2>5. Past(c)'
    BY <2>3 DEF Past
  <2>6. \A u \in Stations : /\ batch'[u] \subseteq batch[u]
                            /\ cur'[u] \subseteq cur[u]
                            /\ batch[u] \cup cur[u] \subseteq batch'[u] \cup cur'[u] \cup {c}
    BY DEF Refuse, TypeOK
  <2> QED BY <2>1, <2>2, <2>4, <2>5, <2>6, OrderKept
<1> QED BY <1>1, <1>2, <1>3, <1>4, <1>5, <1>6, <1>7, <1>8

LEMMA AcceptKeeps ==
    ASSUME ChannelInv, NEW s \in Stations, NEW c \in Commands, Accept(s, c)
    PROVE  ChannelInv'
<1> USE DEF ChannelInv
<1>1. TypeOK'
  BY DEF Accept, vars, serverVars, workerVars, historyVars, Oldest, Verifies, PCs,
     TypeOK
<1>2. Provenance'
  BY DEF Accept, vars, serverVars, workerVars, historyVars, Oldest, Verifies, PCs,
     Provenance, TypeOK, Phases
<1>3. Phases'
  BY DEF Accept, vars, serverVars, workerVars, historyVars, Oldest, Verifies, PCs,
     Phases, TypeOK, Provenance
<1>4. AcksFollowHandling'
  BY DEF Accept, vars, serverVars, workerVars, historyVars, Oldest, Verifies, PCs,
     AcksFollowHandling, AckedWasHandled, TypeOK, Provenance
<1>5. RunsAreRemembered'
  BY DEF Accept, vars, serverVars, workerVars, historyVars, Oldest, Verifies, PCs,
     RunsAreRemembered, OncePerBoot, TypeOK, Phases, Provenance
<1>6. DoomedHasLapsed'
  BY DEF Accept, vars, serverVars, workerVars, historyVars, Oldest, Verifies, PCs,
     DoomedHasLapsed, Lapsed, TypeOK, Provenance
<1>7. LateIsGone'
  BY DEF Accept, vars, serverVars, workerVars, historyVars, Oldest, Verifies, PCs,
     LateIsGone, ExpiredRunsOnceAtMost, Reach, TypeOK, Phases, Provenance
<1>8. HeldInOrder'
  <2>1. UNCHANGED <<now, row, poll, handled>>
    BY DEF Accept, serverVars, historyVars
  <2>2. \A d, e \in Commands : (Older(d, e)' <=> Older(d, e)) /\ (Past(d)' <=> Past(d))
    BY <2>1 DEF Older, Past, Lapsed
  <2>3. c \in batch[s] /\ \A d \in batch[s] : ~Older(d, c)
    BY RowFields DEF Accept, Oldest, Older, TypeOK
  <2>4. cur[s] = {}
    BY DEF Accept, Phases
  <2>5. \A u \in Stations : /\ batch'[u] = IF u = s THEN batch[s] \ {c} ELSE batch[u]
                            /\ cur'[u] = IF u = s THEN {c} ELSE cur[u]
    BY DEF Accept, TypeOK
  <2> QED BY <2>1, <2>2, <2>3, <2>4, <2>5 DEF HeldInOrder
<1> QED BY <1>1, <1>2, <1>3, <1>4, <1>5, <1>6, <1>7, <1>8

LEMMA DispatchKeeps ==
    ASSUME ChannelInv, NEW s \in Stations, NEW c \in Commands, NEW o \in BOOLEAN \X BOOLEAN, 
           Dispatch(s, c, o)
    PROVE  ChannelInv'
<1> USE DEF ChannelInv
<1>1. TypeOK'
  BY DEF Dispatch, vars, serverVars, workerVars, historyVars, Outcomes, PCs, TypeOK
<1>2. Provenance'
  BY DEF Dispatch, vars, serverVars, workerVars, historyVars, Outcomes, PCs,
     Provenance, TypeOK, Phases
<1>3. Phases'
  BY DEF Dispatch, vars, serverVars, workerVars, historyVars, Outcomes, PCs, Phases,
     TypeOK, Provenance
<1>4. AcksFollowHandling'
  BY DEF Dispatch, vars, serverVars, workerVars, historyVars, Outcomes, PCs,
     AcksFollowHandling, AckedWasHandled, TypeOK, Provenance
<1>5. RunsAreRemembered'
  BY DEF Dispatch, vars, serverVars, workerVars, historyVars, Outcomes, PCs,
     RunsAreRemembered, OncePerBoot, TypeOK, Phases, Provenance
<1>6. DoomedHasLapsed'
  BY DEF Dispatch, vars, serverVars, workerVars, historyVars, Outcomes, PCs,
     DoomedHasLapsed, Lapsed, TypeOK, Provenance
<1>7. LateIsGone'
  BY DEF Dispatch, vars, serverVars, workerVars, historyVars, Outcomes, PCs,
     LateIsGone, ExpiredRunsOnceAtMost, Reach, TypeOK, Phases, Provenance
<1>8. HeldInOrder'
  BY DEF Dispatch, vars, serverVars, workerVars, historyVars, Outcomes, PCs,
     HeldInOrder, Older, Past, Lapsed, TypeOK, Phases, Provenance,
     AcksFollowHandling
<1> QED BY <1>1, <1>2, <1>3, <1>4, <1>5, <1>6, <1>7, <1>8

LEMMA ReportKeeps ==
    ASSUME ChannelInv, NEW s \in Stations, NEW c \in Commands, Report(s, c)
    PROVE  ChannelInv'
<1> USE DEF ChannelInv
<1>1. TypeOK'
  BY DEF Report, vars, serverVars, workerVars, historyVars, SendAck, Ack, PCs,
     Remember, TypeOK
<1>2. Provenance'
  BY DEF Report, vars, serverVars, workerVars, historyVars, SendAck, Ack, PCs,
     Remember, Provenance, TypeOK, Phases
<1>3. Phases'
  BY DEF Report, vars, serverVars, workerVars, historyVars, SendAck, Ack, PCs,
     Remember, Phases, TypeOK, Provenance
<1>4. AcksFollowHandling'
  BY DEF Report, vars, serverVars, workerVars, historyVars, SendAck, Ack, PCs,
     Remember, AcksFollowHandling, AckedWasHandled, TypeOK, Provenance
<1>5. RunsAreRemembered'
  BY DEF Report, vars, serverVars, workerVars, historyVars, SendAck, Ack, PCs,
     Remember, RunsAreRemembered, OncePerBoot, TypeOK, Phases, Provenance
<1>6. DoomedHasLapsed'
  BY DEF Report, vars, serverVars, workerVars, historyVars, SendAck, Ack, PCs,
     Remember, DoomedHasLapsed, Lapsed, TypeOK, Provenance
<1>7. LateIsGone'
  BY DEF Report, vars, serverVars, workerVars, historyVars, SendAck, Ack, PCs,
     Remember, LateIsGone, ExpiredRunsOnceAtMost, Reach, TypeOK, Phases, Provenance
<1>8. HeldInOrder'
  <2>1. UNCHANGED <<now, row, poll>>
    BY DEF Report, serverVars
  <2>2. \A d, e \in Commands : Older(d, e)' <=> Older(d, e)
    BY <2>1 DEF Older
  <2>3. handled \cup {c} = handled' /\ c \in Commands
    BY DEF Report, historyVars, AcksFollowHandling
  <2>4. \A d \in Commands : Past(d) => Past(d)'
    BY <2>1, <2>3 DEF Past, Lapsed
  <2>5. Past(c)'
    BY <2>3 DEF Past
  <2>6. \A u \in Stations : /\ batch'[u] \subseteq batch[u]
                            /\ cur'[u] \subseteq cur[u]
                            /\ batch[u] \cup cur[u] \subseteq batch'[u] \cup cur'[u] \cup {c}
    BY DEF Report, TypeOK, Phases
  <2> QED BY <2>1, <2>2, <2>4, <2>5, <2>6, OrderKept
<1> QED BY <1>1, <1>2, <1>3, <1>4, <1>5, <1>6, <1>7, <1>8

LEMMA AckReturnKeeps ==
    ASSUME ChannelInv, NEW s \in Stations, AckReturn(s)
    PROVE  ChannelInv'
<1> USE DEF ChannelInv
<1>1. TypeOK'
  BY DEF AckReturn, vars, serverVars, workerVars, historyVars, AfterBatch, PCs,
     TypeOK
<1>2. Provenance'
  BY DEF AckReturn, vars, serverVars, workerVars, historyVars, AfterBatch, PCs,
     Provenance, TypeOK, Phases
<1>3. Phases'
  BY DEF AckReturn, vars, serverVars, workerVars, historyVars, AfterBatch, PCs,
     Phases, TypeOK, Provenance
<1>4. AcksFollowHandling'
  BY DEF AckReturn, vars, serverVars, workerVars, historyVars, AfterBatch, PCs,
     AcksFollowHandling, AckedWasHandled, TypeOK, Provenance
<1>5. RunsAreRemembered'
  BY DEF AckReturn, vars, serverVars, workerVars, historyVars, AfterBatch, PCs,
     RunsAreRemembered, OncePerBoot, TypeOK, Phases, Provenance
<1>6. DoomedHasLapsed'
  BY DEF AckReturn, vars, serverVars, workerVars, historyVars, AfterBatch, PCs,
     DoomedHasLapsed, Lapsed, TypeOK, Provenance
<1>7. LateIsGone'
  BY DEF AckReturn, vars, serverVars, workerVars, historyVars, AfterBatch, PCs,
     LateIsGone, ExpiredRunsOnceAtMost, Reach, TypeOK, Phases, Provenance
<1>8. HeldInOrder'
  BY DEF AckReturn, vars, serverVars, workerVars, historyVars, AfterBatch, PCs,
     HeldInOrder, Older, Past, Lapsed, TypeOK, Phases, Provenance,
     AcksFollowHandling
<1> QED BY <1>1, <1>2, <1>3, <1>4, <1>5, <1>6, <1>7, <1>8

LEMMA CrashKeeps ==
    ASSUME ChannelInv, NEW s \in Stations, Crash(s)
    PROVE  ChannelInv'
<1> USE DEF ChannelInv
<1>1. TypeOK'
  BY DEF Crash, vars, serverVars, workerVars, historyVars, PCs, TypeOK
<1>2. Provenance'
  BY DEF Crash, vars, serverVars, workerVars, historyVars, PCs, Provenance, TypeOK,
     Phases
<1>3. Phases'
  BY DEF Crash, vars, serverVars, workerVars, historyVars, PCs, Phases, TypeOK,
     Provenance
<1>4. AcksFollowHandling'
  BY DEF Crash, vars, serverVars, workerVars, historyVars, PCs, AcksFollowHandling,
     AckedWasHandled, TypeOK, Provenance
<1>5. RunsAreRemembered'
  BY DEF Crash, vars, serverVars, workerVars, historyVars, PCs, RunsAreRemembered,
     OncePerBoot, TypeOK, Phases, Provenance
<1>6. DoomedHasLapsed'
  BY DEF Crash, vars, serverVars, workerVars, historyVars, PCs, DoomedHasLapsed,
     Lapsed, TypeOK, Provenance
<1>7. LateIsGone'
  BY DEF Crash, vars, serverVars, workerVars, historyVars, PCs, LateIsGone,
     ExpiredRunsOnceAtMost, Reach, TypeOK, Phases, Provenance
<1>8. HeldInOrder'
  BY DEF Crash, vars, serverVars, workerVars, historyVars, PCs, HeldInOrder, Older,
     Past, Lapsed, TypeOK, Phases, Provenance, AcksFollowHandling
<1> QED BY <1>1, <1>2, <1>3, <1>4, <1>5, <1>6, <1>7, <1>8

LEMMA RestartKeeps ==
    ASSUME ChannelInv, NEW s \in Stations, Restart(s)
    PROVE  ChannelInv'
<1> USE DEF ChannelInv
<1>1. TypeOK'
  BY DEF Restart, vars, serverVars, workerVars, historyVars, PCs, TypeOK
<1>2. Provenance'
  BY DEF Restart, vars, serverVars, workerVars, historyVars, PCs, Provenance, TypeOK,
     Phases
<1>3. Phases'
  BY DEF Restart, vars, serverVars, workerVars, historyVars, PCs, Phases, TypeOK,
     Provenance
<1>4. AcksFollowHandling'
  BY DEF Restart, vars, serverVars, workerVars, historyVars, PCs, AcksFollowHandling,
     AckedWasHandled, TypeOK, Provenance
<1>5. RunsAreRemembered'
  BY DEF Restart, vars, serverVars, workerVars, historyVars, PCs, RunsAreRemembered,
     OncePerBoot, TypeOK, Phases, Provenance
<1>6. DoomedHasLapsed'
  BY DEF Restart, vars, serverVars, workerVars, historyVars, PCs, DoomedHasLapsed,
     Lapsed, TypeOK, Provenance
<1>7. LateIsGone'
  BY DEF Restart, vars, serverVars, workerVars, historyVars, PCs, LateIsGone,
     ExpiredRunsOnceAtMost, Reach, TypeOK, Phases, Provenance
<1>8. HeldInOrder'
  BY DEF Restart, vars, serverVars, workerVars, historyVars, PCs, HeldInOrder, Older,
     Past, Lapsed, TypeOK, Phases, Provenance, AcksFollowHandling
<1> QED BY <1>1, <1>2, <1>3, <1>4, <1>5, <1>6, <1>7, <1>8

------------------------------------------------------------------------------
(* The theorems.                                                            *)

LEMMA ChannelInit == Init => ChannelInv
<1> SUFFICES ASSUME Init PROVE ChannelInv
  OBVIOUS
<1>1. TypeOK
  BY DEF Init, TypeOK, NoRow, NoPoll, Poll, Row, Statuses, Kinds, Results, PCs
<1>2. Provenance /\ Phases
  BY DEF Init, Provenance, Phases, NoPoll, NoRow
<1>3. AcksFollowHandling /\ RunsAreRemembered
  BY DEF Init, AcksFollowHandling, AckedWasHandled, RunsAreRemembered, OncePerBoot, NoRow
<1>4. DoomedHasLapsed /\ LateIsGone /\ HeldInOrder
  BY DEF Init, DoomedHasLapsed, LateIsGone, ExpiredRunsOnceAtMost, HeldInOrder, Older,
         NoRow, NoPoll
<1> QED BY <1>1, <1>2, <1>3, <1>4 DEF ChannelInv

LEMMA ChannelStep == ChannelInv /\ [Next]_vars => ChannelInv'
<1> SUFFICES ASSUME ChannelInv, [Next]_vars PROVE ChannelInv'
  OBVIOUS
<1>1. CASE Tick
  BY <1>1, TickKeeps
<1>2. CASE Admin
  <2>1. PICK c \in Commands, s \in Stations, k \in IssuedKinds, t \in now..(now + MaxTTL) :
          Enqueue(c, s, k, t)
    BY <1>2 DEF Admin
  <2>2. k \in Kinds /\ t \in Nat
    BY KindsAssumption, BoundsAssumption DEF Kinds, ChannelInv, TypeOK
  <2> QED BY <2>1, <2>2, EnqueueKeeps
<1>3. ASSUME NEW s \in Stations, Worker(s) PROVE ChannelInv'
  <2>1. CASE Handle(s)
    BY <2>1, AckDuplicateKeeps, RefuseKeeps, AcceptKeeps, DispatchKeeps, ReportKeeps
       DEF Handle
  <2>2. CASE (\E h \in Handlers : SendPoll(s, h)) \/ AbandonPoll(s)
    BY <2>2, SendPollKeeps, AbandonPollKeeps
  <2>3. CASE AckReturn(s) \/ Restart(s)
    BY <2>3, AckReturnKeeps, RestartKeeps
  <2> QED BY <1>3, <2>1, <2>2, <2>3 DEF Worker
<1>4. ASSUME NEW s \in Stations, Crash(s) PROVE ChannelInv'
  BY <1>4, CrashKeeps
<1>5. ASSUME NEW m \in acks, DeliverAck(m) \/ LoseAck(m) PROVE ChannelInv'
  <2>1. m \in Ack
    BY DEF ChannelInv, TypeOK
  <2> QED BY <1>5, <2>1, DeliverAckKeeps, LoseAckKeeps
<1>6. ASSUME NEW h \in Handlers, Serve(h) \/ FailPoll(h) PROVE ChannelInv'
  BY <1>6, SelectPendingKeeps, HoldOnKeeps, AnswerKeeps, FailPollKeeps DEF Serve
<1>7. CASE UNCHANGED vars
  BY <1>7 DEF vars, serverVars, workerVars, historyVars, ChannelInv, TypeOK, Provenance,
     Phases, AcksFollowHandling, AckedWasHandled, RunsAreRemembered, OncePerBoot,
     DoomedHasLapsed, LateIsGone, ExpiredRunsOnceAtMost, Reach, HeldInOrder, Lapsed,
     Older, Past
<1> QED BY <1>1, <1>2, <1>3, <1>4, <1>5, <1>6, <1>7 DEF Next

THEOREM ChannelInvariant == Spec => []ChannelInv
  BY ChannelInit, ChannelStep, PTL DEF Spec

\* The variables keep their types.
THEOREM TypeCorrect == Spec => []TypeOK
<1>1. ChannelInv => TypeOK
  BY DEF ChannelInv
<1> QED BY <1>1, ChannelInvariant, PTL

\* The queue never shows a command as acked that no station has handled, whatever
\* acks are lost, late or repeated.
THEOREM AckedOnlyIfHandled == Spec => []AckedWasHandled
<1>1. ChannelInv => AckedWasHandled
  BY DEF ChannelInv, AcksFollowHandling
<1> QED BY <1>1, ChannelInvariant, PTL

\* One worker process carries a command out at most once.
THEOREM AtMostOncePerBoot == Spec => []OncePerBoot
<1>1. ChannelInv => OncePerBoot
  BY DEF ChannelInv, RunsAreRemembered
<1> QED BY <1>1, ChannelInvariant, PTL

\* After the queue has expired a command it is carried out at most once more, by the
\* worker that held it, however many handlers without a client go on expiring rows.
THEOREM ExpiredRunsAtMostOnce == Spec => []ExpiredRunsOnceAtMost
<1>1. ChannelInv => ExpiredRunsOnceAtMost
  BY DEF ChannelInv, LateIsGone
<1> QED BY <1>1, ChannelInvariant, PTL

\* Only these steps carry a command out.
LEMMA OnlyDispatchRuns ==
    ASSUME ChannelInv, [Next]_vars, NEW c \in Commands, runs'[c] # runs[c]
    PROVE  \E s \in Stations :
              /\ c \in cur[s]
              /\ UNCHANGED <<row, now, handled>>
              /\ \A d \in Commands \ {c} : runs'[d] = runs[d]
<1>1. ASSUME NEW s \in Stations, NEW d \in Commands, NEW o \in BOOLEAN \X BOOLEAN,
             Dispatch(s, d, o)
      PROVE  \E u \in Stations :
                /\ c \in cur[u]
                /\ UNCHANGED <<row, now, handled>>
                /\ \A e \in Commands \ {c} : runs'[e] = runs[e]
  BY <1>1 DEF Dispatch, serverVars, ChannelInv, TypeOK
<1>2. CASE \E s \in Stations, d \in Commands, o \in BOOLEAN \X BOOLEAN : Dispatch(s, d, o)
  BY <1>1, <1>2
<1>3. CASE UNCHANGED runs
  BY <1>3
<1> QED BY <1>2, <1>3 DEF Next, Tick, Admin, Enqueue, Worker, SendPoll, AbandonPoll, Serve,
      SelectPending, HoldOn, Answer, FailPoll, Handle, AckDuplicate, Refuse, Accept,
      Report, AckReturn, Restart, Crash, DeliverAck, LoseAck, vars, historyVars

\* The commands of a station are started in the order they were created.
THEOREM StartsInOrder == Spec => FirstRunsInOrder
<1>1. ASSUME ChannelInv, [Next]_vars, NEW c \in Commands, NEW d \in Commands,
             runs[d] = 0, runs'[d] > 0, Older(c, d)
      PROVE  c \in handled \/ Lapsed(c)
  <2>1. PICK s \in Stations : d \in cur[s]
    BY <1>1, OnlyDispatchRuns
  <2> QED BY <1>1, <2>1 DEF ChannelInv, HeldInOrder, Past
<1>2. ChannelInv /\ [Next]_vars =>
        [\A c, d \in Commands :
            /\ runs[d] = 0
            /\ runs'[d] > 0
            /\ row[c].status # "absent"
            /\ row[c].host = row[d].host
            /\ row[c].created < row[d].created
            => c \in handled \/ Lapsed(c)]_vars
  BY <1>1 DEF Older
<1> QED BY <1>2, ChannelInvariant, PTL DEF Spec, FirstRunsInOrder

\* What one step may do to a row.
LEMMA RowStep ==
    ASSUME ChannelInv, [Next]_vars
    PROVE  \/ UNCHANGED row
           \/ \E c \in Commands, s \in Stations, k \in Kinds, t \in Nat : Enqueue(c, s, k, t)
           \/ \E m \in acks : AckApplies(m) /\ DeliverAck(m)
           \/ \E E \in SUBSET Commands :
                 Expire(E) /\ UNCHANGED <<handled, runs, lateRuns>>
<1>1. CASE Admin
  <2>1. PICK c \in Commands, s \in Stations, k \in IssuedKinds, t \in now..(now + MaxTTL) :
          Enqueue(c, s, k, t)
    BY <1>1 DEF Admin
  <2>2. k \in Kinds /\ t \in Nat
    BY KindsAssumption, BoundsAssumption DEF Kinds, ChannelInv, TypeOK
  <2> QED BY <2>1, <2>2
<1>2. ASSUME NEW h \in Handlers, HoldOn(h) \/ Answer(h)
      PROVE  \E E \in SUBSET Commands : Expire(E) /\ UNCHANGED <<handled, runs, lateRuns>>
  <2>1. poll[h].stale \in SUBSET Commands
    BY DEF ChannelInv, TypeOK, Poll
  <2>2. Expire(poll[h].stale) /\ UNCHANGED <<handled, runs, lateRuns>>
    BY <1>2 DEF HoldOn, Answer, historyVars
  <2> QED BY <2>1, <2>2
<1>3. ASSUME NEW h \in Handlers, SelectPending(h) \/ FailPoll(h)
      PROVE  UNCHANGED row
  BY <1>3 DEF SelectPending, FailPoll
<1>4. ASSUME NEW m \in acks, DeliverAck(m)
      PROVE  UNCHANGED row \/ AckApplies(m)
  BY <1>4 DEF DeliverAck
<1>5. ASSUME NEW s \in Stations, Worker(s)
      PROVE  UNCHANGED row
  BY <1>5 DEF Worker, SendPoll, AbandonPoll, Handle, AckDuplicate, Refuse, Accept, Dispatch,
     Report, AckReturn, Restart, serverVars
<1>6. ASSUME Tick \/ (\E s \in Stations : Crash(s)) \/ (\E m \in acks : LoseAck(m))
             \/ UNCHANGED vars
      PROVE  UNCHANGED row
  BY <1>6 DEF Tick, Crash, LoseAck, vars, serverVars
<1> QED BY <1>1, <1>2, <1>3, <1>4, <1>5, <1>6 DEF Next, Serve

\* A settled row keeps its status and its result for ever.
THEOREM SettledIsFinal == Spec => SettledRowsStay
<1>1. ASSUME ChannelInv, [Next]_vars, NEW c \in Commands,
             row[c].status \in {"acked", "expired"}
      PROVE  row'[c] = row[c]
  <2>1. CASE UNCHANGED row
    BY <2>1
  <2>2. ASSUME NEW d \in Commands, NEW s \in Stations, NEW k \in Kinds, NEW t \in Nat,
               Enqueue(d, s, k, t)
        PROVE  row'[c] = row[c]
    BY <1>1, <2>2 DEF Enqueue, ChannelInv, TypeOK
  <2>3. ASSUME NEW m \in acks, AckApplies(m), DeliverAck(m)
        PROVE  row'[c] = row[c]
    BY <1>1, <2>3 DEF AckApplies, DeliverAck, ChannelInv, TypeOK
  <2>4. ASSUME NEW E \in SUBSET Commands, Expire(E)
        PROVE  row'[c] = row[c]
    BY <1>1, <2>4 DEF Expire
  <2> QED BY <1>1, <2>1, <2>2, <2>3, <2>4, RowStep
<1>2. ChannelInv /\ [Next]_vars =>
        [\A c \in Commands :
            row[c].status \in {"acked", "expired"} => row'[c] = row[c]]_vars
  BY <1>1
<1> QED BY <1>2, ChannelInvariant, PTL DEF Spec, SettledRowsStay

------------------------------------------------------------------------------
(* Refinement: the channel implements CommandLedger.                        *)

LEMMA LedgerInitially == Init => Ledger!LedgerInit
  BY DEF Init, NoRow, Ledger!LedgerInit

\* Every step of the channel is one step of the ledger or leaves it alone.
LEMMA LedgerStep == ChannelInv /\ [Next]_vars => [Ledger!LedgerNext]_(Ledger!ledgerVars)
<1> SUFFICES ASSUME ChannelInv, [Next]_vars
             PROVE  Ledger!LedgerNext \/ UNCHANGED Ledger!ledgerVars
  OBVIOUS
<1>0. ASSUME UNCHANGED <<row, handled, runs, lateRuns>>
      PROVE  UNCHANGED Ledger!ledgerVars
  BY <1>0 DEF Ledger!ledgerVars
<1>1. ASSUME NEW c \in Commands, NEW s \in Stations, NEW k \in Kinds, NEW t \in Nat,
             Enqueue(c, s, k, t)
      PROVE  Ledger!Issue(c)
  <2>1. \A d \in Commands : row'[d] = IF d = c THEN row'[c] ELSE row[d]
    BY <1>1 DEF Enqueue, ChannelInv, TypeOK
  <2>2. /\ row[c].status = "absent" /\ row[c].result = "none"
        /\ row'[c].status = "pending" /\ row'[c].result = "none"
    BY <1>1 DEF Enqueue, ChannelInv, TypeOK, Provenance
  <2>3. [d \in Commands |-> row'[d].status]
          = [[d \in Commands |-> row[d].status] EXCEPT ![c] = "pending"]
    BY <2>1, <2>2
  <2>4. [d \in Commands |-> row'[d].result] = [d \in Commands |-> row[d].result]
    BY <2>1, <2>2
  <2> QED BY <1>1, <2>2, <2>3, <2>4 DEF Enqueue, historyVars, Ledger!Issue
<1>2. ASSUME NEW m \in acks, AckApplies(m), DeliverAck(m)
      PROVE  \E v \in {"ok", "error"} : Ledger!Settle(m.cmd, v)
  <2> DEFINE v == IF m.ok THEN "ok" ELSE "error"
  <2>1. m.cmd \in Commands /\ m.cmd \in handled
    BY DEF ChannelInv, TypeOK, Ack, AcksFollowHandling
  <2>2. /\ row[m.cmd].status = "pending"
        /\ row' = [row EXCEPT ![m.cmd].status = "acked", ![m.cmd].result = v]
    BY <1>2 DEF AckApplies, DeliverAck
  <2>3. row'[m.cmd].status = "acked" /\ row'[m.cmd].result = v
    BY <2>1, <2>2, RowFields DEF ChannelInv, TypeOK, Row
  <2>4. \A d \in Commands : d # m.cmd => row'[d] = row[d]
    BY <2>1, <2>2 DEF ChannelInv, TypeOK
  <2>5. Ledger!Settle(m.cmd, v)
    <3>1. [c \in Commands |-> row'[c].status]
            = [[c \in Commands |-> row[c].status] EXCEPT ![m.cmd] = "acked"]
      BY <2>1, <2>3, <2>4
    <3>2. [c \in Commands |-> row'[c].result]
            = [[c \in Commands |-> row[c].result] EXCEPT ![m.cmd] = v]
      BY <2>1, <2>3, <2>4
    <3> QED BY <1>2, <2>1, <2>2, <3>1, <3>2 DEF DeliverAck, historyVars, Ledger!Settle
  <2> QED BY <2>5
<1>3. ASSUME NEW E \in SUBSET Commands, Expire(E), UNCHANGED <<handled, runs, lateRuns>>
      PROVE  \E F \in SUBSET Commands : Ledger!ExpireAll(F)
  <2> DEFINE F == {c \in E : row[c].status = "pending"}
  <2>1. \A c \in Commands : row'[c].status = IF c \in F THEN "expired" ELSE row[c].status
    BY <1>3, ExpireFacts DEF ChannelInv
  <2>2. [c \in Commands |-> row'[c].result] = [c \in Commands |-> row[c].result]
    BY <1>3, ExpireFacts DEF ChannelInv
  <2>3. Ledger!ExpireAll(F)
    <3>1. [c \in Commands |-> row'[c].status]
            = [c \in Commands |-> IF c \in F THEN "expired"
                                  ELSE [d \in Commands |-> row[d].status][c]]
      BY <2>1
    <3> QED BY <1>3, <2>2, <3>1 DEF Ledger!ExpireAll
  <2>4. F \in SUBSET Commands
    OBVIOUS
  <2> HIDE DEF F
  <2> QED BY <2>3, <2>4 DEF Ledger!ExpireAll
<1>4. ASSUME UNCHANGED row
      PROVE  \/ UNCHANGED <<row, handled, runs, lateRuns>>
             \/ \E c \in Commands :
                   Ledger!Decide(c) \/ Ledger!Run(c) \/ Ledger!RunLate(c)
  <2>1. ASSUME NEW s \in Stations, NEW c \in Commands, NEW o \in BOOLEAN \X BOOLEAN,
               Dispatch(s, c, o)
        PROVE  \/ UNCHANGED <<row, handled, runs, lateRuns>>
               \/ Ledger!Run(c) \/ Ledger!RunLate(c)
    <3>1. row[c].status # "absent"
      BY <2>1 DEF Dispatch, ChannelInv, Provenance
    <3>2. row[c].status \in {"pending", "acked", "expired"}
      BY <3>1, RowFields DEF ChannelInv, Statuses
    <3>3. CASE ~o[1]
      BY <1>4, <2>1, <3>3 DEF Dispatch
    <3>4. CASE o[1] /\ row[c].status \in {"pending", "acked"}
      BY <1>4, <2>1, <3>4 DEF Dispatch, Ledger!Run
    <3>5. CASE o[1] /\ row[c].status = "expired"
      <4>1. lateRuns[c] = 0
        BY <2>1 DEF Dispatch, ChannelInv, LateIsGone, Reach, TypeOK
      <4>2. lateRuns' = [lateRuns EXCEPT ![c] = 1]
        BY <2>1, <3>5, <4>1 DEF Dispatch
      <4> QED BY <1>4, <2>1, <3>5, <4>1, <4>2 DEF Dispatch, Ledger!RunLate
    <3> QED BY <3>2, <3>3, <3>4, <3>5
  <2>2. ASSUME NEW s \in Stations, NEW c \in Commands, Refuse(s, c) \/ Report(s, c)
        PROVE  Ledger!Decide(c)
    <3>1. row[c].status # "absent"
      BY <2>2 DEF Refuse, Report, Oldest, ChannelInv, Provenance
    <3> QED BY <1>4, <2>2, <3>1 DEF Refuse, Report, Ledger!Decide
  <2>3. ASSUME NEW s \in Stations, Worker(s)
        PROVE  \/ UNCHANGED <<handled, runs, lateRuns>>
               \/ \E c \in Commands :
                   Ledger!Decide(c) \/ Ledger!Run(c) \/ Ledger!RunLate(c)
    BY <2>1, <2>2, <2>3 DEF Worker, Handle, SendPoll, AbandonPoll, AckDuplicate, Accept,
       AckReturn, Restart, historyVars
  <2>4. ASSUME Tick \/ Admin \/ (\E s \in Stations : Crash(s))
               \/ (\E h \in Handlers : Serve(h) \/ FailPoll(h))
               \/ (\E m \in acks : DeliverAck(m) \/ LoseAck(m)) \/ UNCHANGED vars
        PROVE  UNCHANGED <<handled, runs, lateRuns>>
    BY <2>4 DEF Tick, Admin, Enqueue, Serve, SelectPending, HoldOn, Answer, FailPoll,
       Crash, DeliverAck, LoseAck, vars, historyVars
  <2> QED BY <1>4, <2>3, <2>4 DEF Next
<1>5. CASE UNCHANGED row
  BY <1>0, <1>4, <1>5 DEF Ledger!LedgerNext
<1>6. CASE \E c \in Commands, s \in Stations, k \in Kinds, t \in Nat : Enqueue(c, s, k, t)
  BY <1>1, <1>6 DEF Ledger!LedgerNext
<1>7. CASE \E m \in acks : AckApplies(m) /\ DeliverAck(m)
  <2>1. \A m \in acks : m.cmd \in Commands
    BY DEF ChannelInv, TypeOK, Ack
  <2> QED BY <1>2, <1>7, <2>1 DEF Ledger!LedgerNext, Ledger!Verdicts
<1>8. CASE \E E \in SUBSET Commands : Expire(E) /\ UNCHANGED <<handled, runs, lateRuns>>
  BY <1>3, <1>8 DEF Ledger!LedgerNext
<1> QED BY <1>5, <1>6, <1>7, <1>8, RowStep

\* A row goes from pending to settled once, is acked only after its command was
\* handled, and an expired command is carried out once more at most: the channel
\* implements the ledger, with the row's status as life, its result as verdict.
THEOREM ChannelImplementsLedger == Spec => ImplementsLedger
<1>1. ChannelInv /\ [Next]_vars => [Ledger!LedgerNext]_(Ledger!ledgerVars)
  BY LedgerStep
<1> QED BY <1>1, LedgerInitially, ChannelInvariant, PTL
        DEF Spec, ImplementsLedger, Ledger!LedgerSpec

==============================================================================
