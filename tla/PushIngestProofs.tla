--------------------------- MODULE PushIngestProofs ---------------------------
(***************************************************************************)
(* Theorems about the push data plane, for any schedule of kinds, any      *)
(* number of requests under way, any bounds and either store.              *)
(*                                                                         *)
(* The seq guard compares seqs; the promise is about the order of issue.   *)
(* They agree as long as the state file is written, so the theorems that   *)
(* need it assume PersistMayFail = FALSE.  The invariant ties the three    *)
(* counters together and says where accepted bodies can be.                *)
(***************************************************************************)
EXTENDS PushIngest, TLAPS

\* A body that was issued, and whose seq is its place in the order of issue.
Genuine(b) == b \in Body /\ b.seq = b.stamp /\ b.stamp <= issued

BodiesGenuine ==
    /\ \A b \in spool \cup drainQ : Genuine(b)
    /\ \A r \in Slots : Genuine(slot[r].body)

CountersAgree ==
    /\ seqDisk = issued
    /\ pc # "down" => seqMem = issued
    /\ lastSeq <= issued

\* Nothing above the guard was accepted, nothing unaccepted was stored.
GuardCovers ==
    /\ \A n \in accepted : n <= lastSeq
    /\ applied \subseteq accepted

\* A handler past the guard holds an accepted body of its own, not stored yet.
HandlersHoldAccepted ==
    \A r \in Slots : slot[r].stage = "accepted" =>
        /\ slot[r].body.stamp \in accepted
        /\ slot[r].body.stamp \notin applied
        /\ \A q \in Slots : slot[q].stage = "accepted"
                              /\ slot[q].body.stamp = slot[r].body.stamp => q = r

WaitsForSlot == pc \in Waiting <=> wait \in Slots

IngestInv ==
    /\ TypeOK
    /\ BodiesGenuine
    /\ CountersAgree
    /\ GuardCovers
    /\ HandlersHoldAccepted
    /\ WaitsForSlot

------------------------------------------------------------------------------
\* What a step may do to the slots without letting a body past the guard.
SlotsQuiet ==
    /\ slot' \in [Slots -> [body: Body, stage: Stages]]
    /\ \A q \in Slots :
          \/ slot'[q] = slot[q]
          \/ slot'[q] = FreeSlot
          \/ slot'[q].body = slot[q].body /\ slot'[q].stage # "accepted"

LEMMA NoBodyIsBody == NoBody \in Body /\ FreeSlot \in [body: Body, stage: Stages]
  BY DEF NoBody, Body, Kinds, FreeSlot, Stages

LEMMA SlotFields ==
    ASSUME TypeOK, NEW r \in Slots
    PROVE  /\ slot[r] \in [body: Body, stage: Stages]
           /\ slot[r].body \in Body
           /\ slot[r].stage \in Stages
           /\ slot[r].body.kind \in Kinds
           /\ slot[r].body.seq \in Nat
           /\ slot[r].body.stamp \in Nat
<1>1. slot[r] \in [body: Body, stage: Stages]
  BY DEF TypeOK
<1>2. slot[r].body \in Body /\ slot[r].stage \in Stages
  BY <1>1
<1> QED BY <1>1, <1>2 DEF Body

\* The end of a handler, the next stage of one, and the publisher's leaving one.
LEMMA AnswerIsQuiet ==
    ASSUME TypeOK, NEW r \in Slots, NEW a \in Answers, Answer(r, a)
    PROVE  SlotsQuiet
<1>1. slot[r] \in [body: Body, stage: Stages]
  BY SlotFields
<1>2. [slot[r] EXCEPT !.stage = a] \in [body: Body, stage: Stages]
  BY <1>1 DEF Answers, Stages
<1>3. slot' = [slot EXCEPT ![r] = IF r = wait THEN [slot[r] EXCEPT !.stage = a]
                                  ELSE FreeSlot]
  BY DEF Answer
<1>4. slot' \in [Slots -> [body: Body, stage: Stages]]
  BY <1>2, <1>3, NoBodyIsBody DEF TypeOK
<1>5. ASSUME NEW q \in Slots
      PROVE  \/ slot'[q] = slot[q]
             \/ slot'[q] = FreeSlot
             \/ slot'[q].body = slot[q].body /\ slot'[q].stage # "accepted"
  BY <1>1, <1>3 DEF TypeOK, Answers
<1> QED BY <1>4, <1>5 DEF SlotsQuiet

LEMMA ProceedIsQuiet ==
    ASSUME TypeOK, NEW r \in Slots, Proceed(r, "cached")
    PROVE  SlotsQuiet
<1>1. slot[r] \in [body: Body, stage: Stages]
  BY SlotFields
<1>2. [slot[r] EXCEPT !.stage = "cached"] \in [body: Body, stage: Stages]
  BY <1>1 DEF Stages
<1>3. slot' = [slot EXCEPT ![r] = [slot[r] EXCEPT !.stage = "cached"]]
  BY DEF Proceed
<1>4. slot' \in [Slots -> [body: Body, stage: Stages]]
  BY <1>2, <1>3 DEF TypeOK
<1> QED BY <1>1, <1>3, <1>4 DEF SlotsQuiet, TypeOK

LEMMA AdvanceIsQuiet ==
    ASSUME TypeOK, NEW r \in Slots, NEW st \in {"cached", "ok"}, Advance(r, st)
    PROVE  SlotsQuiet
<1>1. CASE st = "ok"
  BY <1>1, AnswerIsQuiet DEF Advance, Answers
<1>2. CASE st = "cached"
  BY <1>2, ProceedIsQuiet DEF Advance
<1> QED BY <1>1, <1>2

LEMMA StopIsQuiet ==
    ASSUME TypeOK, NEW r \in Slots, Stop(r)
    PROVE  SlotsQuiet /\ wait' = NoSlot
  BY NoBodyIsBody DEF Stop, SlotsQuiet, TypeOK

LEMMA RebootIsQuiet ==
    ASSUME TypeOK, Reboot
    PROVE  SlotsQuiet
<1>1. ASSUME NEW q \in Slots
      PROVE  /\ slot'[q] \in [body: Body, stage: Stages]
             /\ \/ slot'[q] = slot[q]
                \/ slot'[q] = FreeSlot
                \/ slot'[q].body = slot[q].body /\ slot'[q].stage # "accepted"
  <2>1. slot[q] \in [body: Body, stage: Stages]
    BY SlotFields
  <2>2. CASE q = wait
    <3>1. slot'[q] = [slot[q] EXCEPT !.stage = IF @ \in Answers THEN @ ELSE "failed"]
      BY <2>2 DEF Reboot
    <3> QED BY <2>1, <3>1 DEF Answers, Stages
  <2>3. CASE q # wait
    <3>1. slot'[q] = FreeSlot
      BY <2>3 DEF Reboot
    <3> QED BY <3>1, NoBodyIsBody
  <2> QED BY <2>2, <2>3
<1>2. slot' = [q \in Slots |-> slot'[q]]
  BY DEF Reboot
<1> QED BY <1>1, <1>2 DEF SlotsQuiet

\* Quiet slots keep genuine bodies and, with the accepted and stored sets, the
\* handlers past the guard.
LEMMA QuietKeeps ==
    ASSUME IngestInv, SlotsQuiet, UNCHANGED <<issued, accepted>>,
           \A q \in Slots : slot'[q].stage = "accepted" =>
               slot'[q].body.stamp \notin applied'
    PROVE  /\ \A r \in Slots : Genuine(slot[r].body)'
           /\ HandlersHoldAccepted'
<1>1. ASSUME NEW q \in Slots, slot'[q].stage = "accepted"
      PROVE  slot'[q] = slot[q]
  BY <1>1 DEF SlotsQuiet, FreeSlot
<1>2. ASSUME NEW q \in Slots PROVE Genuine(slot[q].body)'
  <2>1. slot'[q].body = slot[q].body \/ slot'[q].body = NoBody
    BY DEF SlotsQuiet, FreeSlot
  <2>2. CASE slot'[q].body = slot[q].body
    BY <2>2 DEF IngestInv, BodiesGenuine, Genuine
  <2>3. CASE slot'[q].body = NoBody
    BY <2>3, NoBodyIsBody DEF IngestInv, TypeOK, Genuine, NoBody
  <2> QED BY <2>1, <2>2, <2>3
<1>3. HandlersHoldAccepted'
  BY <1>1 DEF IngestInv, HandlersHoldAccepted
<1> QED BY <1>2, <1>3

\* A step of the server: the publisher, its spool and its counters stay.
LEMMA ServerStep ==
    ASSUME IngestInv, UNCHANGED publisherVars, TypeOK', SlotsQuiet,
           accepted' = accepted, lastSeq <= lastSeq', lastSeq' <= issued,
           applied' \subseteq accepted,
           \A q \in Slots : slot'[q].stage = "accepted" =>
               slot'[q].body.stamp \notin applied'
    PROVE  IngestInv'
<1>1. /\ \A r \in Slots : Genuine(slot[r].body)'
      /\ HandlersHoldAccepted'
  BY QuietKeeps DEF publisherVars
<1>2. \A b \in spool \cup drainQ : Genuine(b)'
  BY DEF publisherVars, IngestInv, BodiesGenuine, Genuine
<1>3. BodiesGenuine'
  BY <1>1, <1>2 DEF publisherVars, BodiesGenuine
<1>4. CountersAgree' /\ WaitsForSlot'
  BY DEF publisherVars, IngestInv, CountersAgree, WaitsForSlot
<1>5. GuardCovers'
  BY DEF IngestInv, TypeOK, GuardCovers
<1> QED BY <1>1, <1>3, <1>4, <1>5 DEF IngestInv

\* Whoever is past the guard after a quiet step was so before.
LEMMA QuietUnstored ==
    ASSUME IngestInv, SlotsQuiet, NEW q \in Slots, slot'[q].stage = "accepted"
    PROVE  slot'[q] = slot[q] /\ slot[q].body.stamp \notin applied
<1>1. slot'[q] = slot[q]
  BY DEF SlotsQuiet, FreeSlot
<1> QED BY <1>1 DEF IngestInv, HandlersHoldAccepted

\* A step of the publisher that sends nothing.
LEMMA PublisherStep ==
    ASSUME IngestInv, UNCHANGED <<storeVars, issued, seqDisk>>, TypeOK', SlotsQuiet,
           pc' # "down" => seqMem' = issued, WaitsForSlot',
           \A b \in spool' \cup drainQ' :
               b \in spool \cup drainQ \/ \E r \in Slots : b = slot[r].body
    PROVE  IngestInv'
<1>1. \A q \in Slots : slot'[q].stage = "accepted" => slot'[q].body.stamp \notin applied'
  BY QuietUnstored DEF storeVars
<1>2. /\ \A r \in Slots : Genuine(slot[r].body)'
      /\ HandlersHoldAccepted'
  BY <1>1, QuietKeeps DEF storeVars
<1>3. \A b \in spool' \cup drainQ' : Genuine(b)'
  BY DEF IngestInv, BodiesGenuine, Genuine
<1>4. CountersAgree' /\ GuardCovers'
  BY DEF storeVars, IngestInv, CountersAgree, GuardCovers
<1> QED BY <1>2, <1>3, <1>4 DEF IngestInv, BodiesGenuine

\* Sending a genuine body from a free slot.
LEMMA PostKeeps ==
    ASSUME TypeOK, NEW r \in Slots, NEW b \in Body, Post(r, b)
    PROVE  /\ slot' \in [Slots -> [body: Body, stage: Stages]]
           /\ slot'[r] = [body |-> b, stage |-> "sent"]
           /\ \A q \in Slots : q # r => slot'[q] = slot[q]
           /\ wait' = r
<1>1. [body |-> b, stage |-> "sent"] \in [body: Body, stage: Stages]
  BY DEF Stages
<1> QED BY <1>1 DEF Post, TypeOK

------------------------------------------------------------------------------

LEMMA IngestInvInit == Init => IngestInv
<1> SUFFICES ASSUME Init PROVE IngestInv
  OBVIOUS
<1>1. Len(Schedule) \in Nat
  BY ScheduleAssumption
<1>2. TypeOK
  BY <1>1, NoBodyIsBody DEF Init, TypeOK, PCs
<1>3. BodiesGenuine
  BY NoBodyIsBody DEF Init, BodiesGenuine, Genuine, FreeSlot, NoBody
<1>4. WaitsForSlot
  BY SlotAssumption DEF Init, WaitsForSlot, Waiting
<1> QED BY <1>2, <1>3, <1>4 DEF Init, IngestInv, CountersAgree, GuardCovers,
                                 HandlersHoldAccepted, FreeSlot

LEMMA StartDrainKeeps == ASSUME IngestInv, StartDrain PROVE IngestInv'
<1>1. TypeOK' /\ SlotsQuiet
  BY DEF StartDrain, storeVars, IngestInv, TypeOK, PCs, SlotsQuiet
<1>2. WaitsForSlot' /\ seqMem' = issued
  BY DEF StartDrain, IngestInv, WaitsForSlot, Waiting, CountersAgree
<1> QED BY <1>1, <1>2, PublisherStep DEF StartDrain

LEMMA EndDrainKeeps == ASSUME IngestInv, EndDrain PROVE IngestInv'
<1>1. TypeOK' /\ SlotsQuiet
  BY ScheduleAssumption DEF EndDrain, storeVars, IngestInv, TypeOK, PCs, SlotsQuiet
<1>2. WaitsForSlot' /\ seqMem' = issued
  BY DEF EndDrain, IngestInv, WaitsForSlot, Waiting, CountersAgree
<1> QED BY <1>1, <1>2, PublisherStep DEF EndDrain

LEMMA EndCycleKeeps == ASSUME IngestInv, EndCycle PROVE IngestInv'
<1>1. TypeOK' /\ SlotsQuiet
  BY DEF EndCycle, storeVars, IngestInv, TypeOK, PCs, SlotsQuiet
<1>2. WaitsForSlot' /\ seqMem' = issued
  BY DEF EndCycle, IngestInv, WaitsForSlot, Waiting, CountersAgree
<1> QED BY <1>1, <1>2, PublisherStep DEF EndCycle

LEMMA RestartKeeps == ASSUME IngestInv, Restart PROVE IngestInv'
<1>1. TypeOK' /\ SlotsQuiet
  BY DEF Restart, storeVars, IngestInv, TypeOK, PCs, SlotsQuiet
<1>2. WaitsForSlot' /\ seqMem' = issued
  BY DEF Restart, IngestInv, WaitsForSlot, Waiting, CountersAgree
<1> QED BY <1>1, <1>2, PublisherStep DEF Restart

LEMMA ResendOkKeeps ==
    ASSUME IngestInv, NEW r \in Slots, ResendOk(r) PROVE IngestInv'
<1>1. SlotsQuiet /\ wait' = NoSlot
  BY StopIsQuiet DEF ResendOk, IngestInv
<1>2. TypeOK'
  BY <1>1 DEF ResendOk, storeVars, IngestInv, TypeOK, PCs, SlotsQuiet
<1>3. WaitsForSlot' /\ seqMem' = issued
  BY <1>1, SlotAssumption
     DEF ResendOk, IngestInv, WaitsForSlot, Waiting, CountersAgree
<1> QED BY <1>1, <1>2, <1>3, PublisherStep DEF ResendOk

LEMMA ResendFailsKeeps ==
    ASSUME IngestInv, NEW r \in Slots, ResendFails(r) PROVE IngestInv'
<1>1. SlotsQuiet /\ wait' = NoSlot
  BY StopIsQuiet DEF ResendFails, IngestInv
<1>2. TypeOK'
  BY <1>1, ScheduleAssumption
     DEF ResendFails, storeVars, IngestInv, TypeOK, PCs, SlotsQuiet
<1>3. WaitsForSlot' /\ seqMem' = issued
  BY <1>1, SlotAssumption
     DEF ResendFails, IngestInv, WaitsForSlot, Waiting, CountersAgree
<1> QED BY <1>1, <1>2, <1>3, PublisherStep DEF ResendFails

LEMMA PushOkKeeps ==
    ASSUME IngestInv, NEW r \in Slots, PushOk(r) PROVE IngestInv'
<1>1. SlotsQuiet /\ wait' = NoSlot
  BY StopIsQuiet DEF PushOk, IngestInv
<1>2. TypeOK'
  BY <1>1 DEF PushOk, storeVars, IngestInv, TypeOK, PCs, SlotsQuiet
<1>3. WaitsForSlot' /\ seqMem' = issued
  BY <1>1, SlotAssumption
     DEF PushOk, IngestInv, WaitsForSlot, Waiting, CountersAgree
<1> QED BY <1>1, <1>2, <1>3, PublisherStep DEF PushOk

LEMMA PushFailsKeeps ==
    ASSUME IngestInv, NEW r \in Slots, PushFails(r) PROVE IngestInv'
<1>1. SlotsQuiet /\ wait' = NoSlot
  BY StopIsQuiet DEF PushFails, IngestInv
<1>2. spool' \subseteq spool \cup {slot[r].body}
  BY DEF PushFails, Spooled
<1>3. TypeOK'
  BY <1>1, <1>2, SlotFields DEF PushFails, storeVars, IngestInv, TypeOK, PCs, SlotsQuiet
<1>4. WaitsForSlot' /\ seqMem' = issued
  BY <1>1, SlotAssumption
     DEF PushFails, IngestInv, WaitsForSlot, Waiting, CountersAgree
<1> QED BY <1>1, <1>2, <1>3, <1>4, PublisherStep DEF PushFails

LEMMA CrashKeeps == ASSUME IngestInv, Crash PROVE IngestInv'
<1>1. SlotsQuiet /\ wait' = NoSlot
  <2>1. CASE wait = NoSlot
    BY <2>1 DEF Crash, SlotsQuiet, IngestInv, TypeOK
  <2>2. CASE wait # NoSlot
    <3>1. wait \in Slots
      BY <2>2 DEF IngestInv, TypeOK
    <3> QED BY <2>2, <3>1, StopIsQuiet DEF Crash, IngestInv
  <2> QED BY <2>1, <2>2
<1>2. TypeOK'
  BY <1>1, ScheduleAssumption
     DEF Crash, storeVars, IngestInv, TypeOK, PCs, SlotsQuiet
<1>3. WaitsForSlot' /\ pc' = "down"
  BY <1>1, SlotAssumption DEF Crash, WaitsForSlot, Waiting
<1> QED BY <1>1, <1>2, <1>3, PublisherStep DEF Crash

LEMMA ResendKeeps ==
    ASSUME IngestInv, NEW r \in Slots, NEW b \in drainQ, Resend(r, b)
    PROVE  IngestInv'
<1>1. b \in Body /\ Genuine(b)
  BY DEF IngestInv, TypeOK, BodiesGenuine
<1>2. /\ slot' \in [Slots -> [body: Body, stage: Stages]]
      /\ slot'[r] = [body |-> b, stage |-> "sent"]
      /\ \A q \in Slots : q # r => slot'[q] = slot[q]
      /\ wait' = r
  BY <1>1, PostKeeps DEF Resend, IngestInv
<1>3. TypeOK'
  BY <1>2 DEF Resend, storeVars, IngestInv, TypeOK, PCs
<1>4. BodiesGenuine'
  <2>1. \A q \in Slots : slot'[q].body = b \/ slot'[q].body = slot[q].body
    BY <1>2
  <2>2. issued' = issued /\ spool' = spool /\ drainQ' = drainQ
    BY DEF Resend
  <2> QED BY <1>1, <2>1, <2>2 DEF IngestInv, BodiesGenuine, Genuine
<1>5. CountersAgree' /\ GuardCovers' /\ WaitsForSlot'
  BY <1>2 DEF Resend, storeVars, IngestInv, CountersAgree, GuardCovers, WaitsForSlot,
              Waiting
<1>6. HandlersHoldAccepted'
  <2>1. \A q \in Slots : slot'[q].stage = "accepted" => slot'[q] = slot[q]
    BY <1>2
  <2> QED BY <2>1 DEF Resend, storeVars, IngestInv, HandlersHoldAccepted
<1> QED BY <1>3, <1>4, <1>5, <1>6 DEF IngestInv

LEMMA PushKeeps ==
    ASSUME IngestInv, PersistMayFail = FALSE, NEW r \in Slots,
           NEW i \in 1..Len(Schedule), NEW persisted \in BOOLEAN, Push(i, r, persisted)
    PROVE  IngestInv'
<1>1. seqMem = issued /\ issued \in Nat
  BY DEF Push, IngestInv, TypeOK, CountersAgree
<1>2. PICK b \in Body : /\ b = [kind |-> Schedule[i], seq |-> seqMem + 1,
                                stamp |-> issued + 1]
                        /\ b.seq = b.stamp
                        /\ b.stamp = issued + 1
  <2>1. Schedule[i] \in Kinds
    BY ScheduleAssumption
  <2>2. [kind |-> Schedule[i], seq |-> seqMem + 1, stamp |-> issued + 1] \in Body
    BY <1>1, <2>1 DEF Body
  <2> QED BY <1>1, <2>2
<1>3. seqMem' = issued + 1 /\ seqDisk' = issued + 1 /\ issued' = issued + 1
  BY <1>1 DEF Push, NextSeq
<1>4. /\ slot' \in [Slots -> [body: Body, stage: Stages]]
      /\ slot'[r] = [body |-> b, stage |-> "sent"]
      /\ \A q \in Slots : q # r => slot'[q] = slot[q]
      /\ wait' = r
  BY <1>2, PostKeeps DEF Push, IngestInv
<1>5. TypeOK'
  <2>1. pos' \in 1..(Len(Schedule) + 1)
    <3>1. Len(Schedule) \in Nat
      BY ScheduleAssumption
    <3> QED BY <3>1 DEF Push
  <2> QED BY <1>1, <1>3, <1>4, <2>1 DEF Push, storeVars, IngestInv, TypeOK, PCs
<1>6. BodiesGenuine'
  <2>1. \A q \in Slots : slot'[q].body = b \/ slot'[q].body = slot[q].body
    BY <1>4
  <2>2. \A o \in Body : o = b \/ Genuine(o) => Genuine(o)'
    BY <1>1, <1>2, <1>3 DEF Genuine, Body
  <2>3. spool' = spool /\ drainQ' = drainQ
    BY DEF Push
  <2>4. \A q \in Slots : slot[q].body \in Body /\ Genuine(slot[q].body)
    BY SlotFields DEF IngestInv, BodiesGenuine
  <2>5. \A q \in Slots : Genuine(slot[q].body)'
    BY <2>1, <2>2, <2>4 DEF Genuine
  <2>6. \A o \in spool' \cup drainQ' : Genuine(o)'
    BY <2>2, <2>3 DEF IngestInv, TypeOK, BodiesGenuine
  <2> QED BY <2>5, <2>6 DEF BodiesGenuine
<1>7. CountersAgree' /\ GuardCovers' /\ WaitsForSlot'
  BY <1>1, <1>3, <1>4 DEF Push, storeVars, IngestInv, TypeOK, CountersAgree, GuardCovers,
                          WaitsForSlot, Waiting
<1>8. HandlersHoldAccepted'
  <2>1. \A q \in Slots : slot'[q].stage = "accepted" => slot'[q] = slot[q]
    BY <1>4
  <2> QED BY <2>1 DEF Push, storeVars, IngestInv, HandlersHoldAccepted
<1> QED BY <1>5, <1>6, <1>7, <1>8 DEF IngestInv

------------------------------------------------------------------------------

\* The handlers that answer without having accepted anything.
LEMMA TurnedAwayKeeps ==
    ASSUME IngestInv, NEW r \in Slots, TurnedAway(r) \/ Drop(r) \/ ApplyError(r)
    PROVE  IngestInv'
<1>1. SlotsQuiet
  BY AnswerIsQuiet DEF TurnedAway, Drop, ApplyError, Answers, IngestInv
<1>2. UNCHANGED <<publisherVars, storeVars, crashes, reboots>>
  BY DEF TurnedAway, Drop, ApplyError
<1>3. TypeOK'
  BY <1>1, <1>2 DEF publisherVars, storeVars, SlotsQuiet, IngestInv, TypeOK
<1>4. \A q \in Slots : slot'[q].stage = "accepted" => slot'[q].body.stamp \notin applied'
  BY <1>1, <1>2, QuietUnstored DEF storeVars
<1>5. lastSeq <= lastSeq' /\ lastSeq' <= issued /\ accepted' = accepted
      /\ applied' \subseteq accepted
  BY <1>2 DEF storeVars, IngestInv, TypeOK, CountersAgree, GuardCovers
<1> QED BY <1>1, <1>2, <1>3, <1>4, <1>5, ServerStep

LEMMA AcceptErrorKeeps ==
    ASSUME IngestInv, NEW r \in Slots, NEW bumped \in BOOLEAN, AcceptError(r, bumped)
    PROVE  IngestInv'
<1>1. SlotsQuiet
  BY AnswerIsQuiet DEF AcceptError, Answers, IngestInv
<1>2. slot[r].body.seq \in Nat /\ slot[r].body.stamp \in Nat /\ slot[r].body.seq <= issued
  BY SlotFields DEF IngestInv, BodiesGenuine, Genuine
<1>3. lastSeq' \in Nat /\ lastSeq <= lastSeq' /\ lastSeq' <= issued
  BY <1>2 DEF AcceptError, Fresh, IngestInv, TypeOK, CountersAgree
<1>4. TypeOK'
  BY <1>1, <1>2, <1>3 DEF AcceptError, publisherVars, SlotsQuiet, IngestInv, TypeOK
<1>5. \A q \in Slots : slot'[q].stage = "accepted" => slot'[q].body.stamp \notin applied'
  BY <1>1, QuietUnstored DEF AcceptError
<1>6. UNCHANGED publisherVars /\ accepted' = accepted /\ applied' \subseteq accepted
  BY DEF AcceptError, IngestInv, GuardCovers
<1> QED BY <1>1, <1>3, <1>4, <1>5, <1>6, ServerStep

\* After storing, no handler past the guard holds a stored body.
LEMMA StoredElsewhere ==
    ASSUME IngestInv, SlotsQuiet, NEW r \in Slots, slot[r].stage = "accepted",
           slot'[r].stage # "accepted",
           applied' \subseteq applied \cup {slot[r].body.stamp}
    PROVE  /\ applied' \subseteq accepted
           /\ \A q \in Slots : slot'[q].stage = "accepted" =>
                  slot'[q].body.stamp \notin applied'
<1>1. applied' \subseteq accepted
  BY DEF IngestInv, GuardCovers, HandlersHoldAccepted
<1>2. ASSUME NEW q \in Slots, slot'[q].stage = "accepted"
      PROVE  slot'[q].body.stamp \notin applied'
  <2>1. slot'[q] = slot[q] /\ slot[q].body.stamp \notin applied /\ q # r
    BY <1>2, QuietUnstored
  <2>2. slot[q].body.stamp # slot[r].body.stamp
    BY <1>2, <2>1 DEF IngestInv, HandlersHoldAccepted
  <2> QED BY <2>1, <2>2
<1> QED BY <1>1, <1>2

\* A handler that ends, or goes on to the mirror, is past storing.
LEMMA AdvanceLeaves ==
    ASSUME TypeOK, NEW r \in Slots, NEW st \in {"cached", "ok"}, Advance(r, st)
    PROVE  slot'[r].stage # "accepted"
<1>1. slot[r] \in [body: Body, stage: Stages]
  BY SlotFields
<1>2. CASE st = "ok"
  BY <1>1, <1>2 DEF Advance, Answer, TypeOK, FreeSlot
<1>3. CASE st = "cached"
  BY <1>1, <1>3 DEF Advance, Proceed, TypeOK
<1> QED BY <1>2, <1>3

LEMMA SetCacheKeeps ==
    ASSUME IngestInv, NEW r \in Slots, NEW stored \in BOOLEAN, SetCache(r, stored)
    PROVE  IngestInv'
<1>1. AfterCache(slot[r].body.kind) \in {"cached", "ok"}
  BY DEF AfterCache
<1>2. SlotsQuiet /\ slot'[r].stage # "accepted"
  BY <1>1, AdvanceIsQuiet, AdvanceLeaves DEF SetCache, IngestInv
<1>3. slot[r].body.stamp \in Nat
  BY SlotFields DEF IngestInv
<1>4. TypeOK'
  BY <1>2, <1>3 DEF SetCache, publisherVars, SlotsQuiet, IngestInv, TypeOK
<1>5. applied' \subseteq applied \cup {slot[r].body.stamp} /\ slot[r].stage = "accepted"
  BY DEF SetCache
<1>6. UNCHANGED publisherVars /\ accepted' = accepted /\ lastSeq <= lastSeq'
      /\ lastSeq' <= issued
  BY DEF SetCache, IngestInv, TypeOK, CountersAgree
<1> QED BY <1>2, <1>4, <1>5, <1>6, StoredElsewhere, ServerStep

LEMMA UpsertKeeps ==
    ASSUME IngestInv, NEW r \in Slots, Upsert(r) PROVE IngestInv'
<1>1. Advance(r, "ok")
  BY DEF Upsert, Advance
<1>2. SlotsQuiet /\ slot'[r].stage # "accepted"
  BY <1>1, AdvanceIsQuiet, AdvanceLeaves DEF IngestInv
<1>3. slot[r].body.stamp \in Nat
  BY SlotFields DEF IngestInv
<1>4. TypeOK'
  BY <1>2, <1>3 DEF Upsert, publisherVars, SlotsQuiet, IngestInv, TypeOK
<1>5. applied' \subseteq applied \cup {slot[r].body.stamp} /\ slot[r].stage = "accepted"
  BY DEF Upsert
<1>6. UNCHANGED publisherVars /\ accepted' = accepted /\ lastSeq <= lastSeq'
      /\ lastSeq' <= issued
  BY DEF Upsert, IngestInv, TypeOK, CountersAgree
<1> QED BY <1>2, <1>4, <1>5, <1>6, StoredElsewhere, ServerStep

LEMMA RecordMirrorKeeps ==
    ASSUME IngestInv, NEW r \in Slots, RecordMirror(r) PROVE IngestInv'
<1>1. SlotsQuiet
  BY AnswerIsQuiet DEF RecordMirror, Answers, IngestInv
<1>2. slot[r].body.stamp \in Nat
  BY SlotFields DEF IngestInv
<1>3. TypeOK'
  BY <1>1, <1>2 DEF RecordMirror, publisherVars, SlotsQuiet, IngestInv, TypeOK
<1>4. \A q \in Slots : slot'[q].stage = "accepted" => slot'[q].body.stamp \notin applied'
  BY <1>1, QuietUnstored DEF RecordMirror
<1>5. UNCHANGED publisherVars /\ accepted' = accepted /\ lastSeq <= lastSeq'
      /\ lastSeq' <= issued /\ applied' \subseteq accepted
  BY DEF RecordMirror, IngestInv, TypeOK, CountersAgree, GuardCovers
<1> QED BY <1>1, <1>3, <1>4, <1>5, ServerStep

LEMMA RebootKeeps == ASSUME IngestInv, Reboot PROVE IngestInv'
<1>1. SlotsQuiet
  BY RebootIsQuiet DEF IngestInv
<1>2. TypeOK'
  BY <1>1 DEF Reboot, publisherVars, SlotsQuiet, IngestInv, TypeOK
<1>3. \A q \in Slots : slot'[q].stage = "accepted" => slot'[q].body.stamp \notin applied'
  <2>1. applied' = applied
    BY DEF Reboot
  <2> QED BY <1>1, <2>1, QuietUnstored
<1>4. UNCHANGED publisherVars /\ accepted' = accepted /\ lastSeq <= lastSeq'
      /\ lastSeq' <= issued /\ applied' \subseteq accepted
  BY DEF Reboot, IngestInv, TypeOK, CountersAgree, GuardCovers
<1> QED BY <1>1, <1>2, <1>3, <1>4, ServerStep

\* Passing the guard: the seq, being the place in the order of issue, is above
\* every accepted body.
LEMMA AcceptFacts ==
    ASSUME IngestInv, NEW r \in Slots, Accept(r)
    PROVE  /\ slot[r].body.stamp \in Nat
           /\ lastSeq' = slot[r].body.stamp
           /\ lastSeq < lastSeq'
           /\ lastSeq' <= issued
           /\ \A n \in accepted : n < slot[r].body.stamp
           /\ accepted' = accepted \cup {slot[r].body.stamp}
           /\ takes' = takes + 1
           /\ slot' = [slot EXCEPT ![r].stage = "accepted"]
           /\ UNCHANGED <<publisherVars, cache, mirror, applied, swallowed,
                          crashes, reboots>>
<1>1. slot[r].body.seq = slot[r].body.stamp /\ slot[r].body.stamp <= issued
      /\ slot[r].body.stamp \in Nat
  BY SlotFields DEF IngestInv, BodiesGenuine, Genuine
<1>2. lastSeq \in Nat /\ accepted \subseteq Nat /\ \A n \in accepted : n <= lastSeq
  BY DEF IngestInv, TypeOK, GuardCovers
<1>3. lastSeq' = slot[r].body.seq /\ slot[r].body.seq > lastSeq
  BY DEF Accept, Fresh
<1>4. lastSeq < lastSeq' /\ lastSeq' <= issued
  BY <1>1, <1>2, <1>3
<1>5. \A n \in accepted : n < slot[r].body.stamp
  BY <1>1, <1>2, <1>3
<1> QED BY <1>1, <1>3, <1>4, <1>5 DEF Accept, Proceed

LEMMA AcceptKeeps ==
    ASSUME IngestInv, NEW r \in Slots, Accept(r) PROVE IngestInv'
<1> DEFINE n == slot[r].body.stamp
<1>1. /\ n \in Nat
      /\ lastSeq' = n
      /\ lastSeq < lastSeq'
      /\ lastSeq' <= issued
      /\ \A m \in accepted : m < n
      /\ accepted' = accepted \cup {n}
      /\ takes' = takes + 1
      /\ slot' = [slot EXCEPT ![r].stage = "accepted"]
      /\ UNCHANGED <<publisherVars, cache, mirror, applied, swallowed,
                     crashes, reboots>>
  BY AcceptFacts
<1>2. slot[r] \in [body: Body, stage: Stages]
  BY SlotFields DEF IngestInv
<1>3. [slot[r] EXCEPT !.stage = "accepted"] \in [body: Body, stage: Stages]
  BY <1>2 DEF Stages
<1>4. slot' \in [Slots -> [body: Body, stage: Stages]]
  BY <1>1, <1>3 DEF IngestInv, TypeOK
<1>5. \A q \in Slots : slot'[q].body = slot[q].body /\ (q # r => slot'[q] = slot[q])
  BY <1>1, <1>2 DEF IngestInv, TypeOK
<1>6. TypeOK'
  BY <1>1, <1>4 DEF publisherVars, IngestInv, TypeOK
<1>7. BodiesGenuine'
  BY <1>1, <1>5 DEF publisherVars, IngestInv, BodiesGenuine, Genuine
<1>8. CountersAgree' /\ WaitsForSlot'
  BY <1>1 DEF publisherVars, IngestInv, CountersAgree, WaitsForSlot
<1>9. GuardCovers'
  <2>1. \A m \in accepted' : m <= lastSeq'
    <3>1. accepted \subseteq Nat
      BY DEF IngestInv, TypeOK
    <3> QED BY <1>1, <3>1
  <2> QED BY <1>1, <2>1 DEF IngestInv, GuardCovers
<1>10. n \notin accepted /\ n \notin applied
  BY <1>1 DEF IngestInv, GuardCovers
<1>11. HandlersHoldAccepted'
  <2> SUFFICES ASSUME NEW q \in Slots, slot'[q].stage = "accepted"
               PROVE  /\ slot'[q].body.stamp \in accepted'
                      /\ slot'[q].body.stamp \notin applied'
                      /\ \A o \in Slots : slot'[o].stage = "accepted"
                           /\ slot'[o].body.stamp = slot'[q].body.stamp => o = q
    BY DEF HandlersHoldAccepted
  <2>1. \A o \in Slots : o # r /\ slot'[o].stage = "accepted" =>
            slot'[o] = slot[o] /\ slot'[o].body.stamp \in accepted
            /\ slot'[o].body.stamp \notin applied
    BY <1>5 DEF IngestInv, HandlersHoldAccepted
  <2>2. slot'[r].body.stamp = n /\ applied' = applied
    BY <1>1, <1>5
  <2>3. CASE q = r
    BY <1>1, <1>10, <2>1, <2>2, <2>3
  <2>4. CASE q # r
    BY <1>1, <1>10, <2>1, <2>2, <2>4 DEF IngestInv, HandlersHoldAccepted
  <2> QED BY <2>3, <2>4
<1> QED BY <1>6, <1>7, <1>8, <1>9, <1>11 DEF IngestInv

------------------------------------------------------------------------------

LEMMA PublisherKeeps ==
    ASSUME IngestInv, PersistMayFail = FALSE, Publisher PROVE IngestInv'
  BY StartDrainKeeps, EndDrainKeeps, EndCycleKeeps, RestartKeeps, ResendKeeps,
     ResendOkKeeps, ResendFailsKeeps, PushOkKeeps, PushFailsKeeps, PushKeeps
     DEF Publisher

LEMMA HandlerKeeps ==
    ASSUME IngestInv, NEW r \in Slots, Handler(r) PROVE IngestInv'
  BY TurnedAwayKeeps, AcceptKeeps, AcceptErrorKeeps, SetCacheKeeps, RecordMirrorKeeps,
     UpsertKeeps DEF Handler

LEMMA IngestInvStep ==
    ASSUME PersistMayFail = FALSE PROVE IngestInv /\ [Next]_vars => IngestInv'
<1> SUFFICES ASSUME IngestInv, [Next]_vars PROVE IngestInv'
  OBVIOUS
<1>1. CASE UNCHANGED vars
  BY <1>1 DEF vars, publisherVars, storeVars, IngestInv, TypeOK, BodiesGenuine, Genuine,
              CountersAgree, GuardCovers, HandlersHoldAccepted, WaitsForSlot
<1>2. CASE Next
  BY <1>2, PublisherKeeps, HandlerKeeps, CrashKeeps, RebootKeeps DEF Next
<1> QED BY <1>1, <1>2

\* The inductive invariant of the push data plane.
THEOREM IngestInvariant == ASSUME PersistMayFail = FALSE PROVE Spec => []IngestInv
  BY IngestInvInit, IngestInvStep, PTL DEF Spec

\* The state file is never behind the guard.
THEOREM StateFileNeverBehind ==
    ASSUME PersistMayFail = FALSE PROVE Spec => []StateFileKeepsUp
<1>1. IngestInv => StateFileKeepsUp
  BY DEF IngestInv, TypeOK, CountersAgree, StateFileKeepsUp
<1> QED BY <1>1, IngestInvariant, PTL


------------------------------------------------------------------------------
(* The refinement.                                                          *)

\* A step that neither accepts nor stores is invisible to the ledger.
LEMMA IngestLedgerSteps ==
    ASSUME IngestInv, [Next]_vars
    PROVE  [Ledger!PushLedgerNext]_(Ledger!pushLedgerVars)
<1>1. CASE UNCHANGED vars
  BY <1>1 DEF vars, storeVars, Ledger!pushLedgerVars
<1>2. CASE Publisher \/ Crash
  BY <1>2 DEF Publisher, StartDrain, EndDrain, EndCycle, Restart, Resend, ResendOk,
              ResendFails, PushOk, PushFails, Push, Crash, storeVars,
              Ledger!pushLedgerVars
<1>3. CASE Reboot
  BY <1>3 DEF Reboot, Ledger!pushLedgerVars
<1>4. ASSUME NEW r \in Slots, Accept(r)
      PROVE  Ledger!PushLedgerNext
  <2>1. Ledger!TakeIn(slot[r].body.stamp)
    BY <1>4, AcceptFacts DEF Ledger!TakeIn
  <2>2. slot[r].body.stamp \in accepted'
    BY <1>4, AcceptFacts
  <2> QED BY <2>1, <2>2 DEF Ledger!PushLedgerNext
<1>5. ASSUME NEW r \in Slots, slot[r].stage = "accepted", UNCHANGED <<accepted, takes>>,
             applied' = applied \cup {slot[r].body.stamp}
      PROVE  Ledger!PushLedgerNext
  <2>1. slot[r].body.stamp \in accepted \ applied
    BY <1>5 DEF IngestInv, HandlersHoldAccepted
  <2>2. Ledger!StoreOne(slot[r].body.stamp)
    BY <1>5, <2>1 DEF Ledger!StoreOne
  <2> QED BY <2>1, <2>2 DEF Ledger!PushLedgerNext
<1>6. ASSUME NEW r \in Slots, Upsert(r)
      PROVE  Ledger!PushLedgerNext
  BY <1>5, <1>6 DEF Upsert
<1>7. ASSUME NEW r \in Slots, NEW stored \in BOOLEAN, SetCache(r, stored)
      PROVE  Ledger!PushLedgerNext \/ UNCHANGED Ledger!pushLedgerVars
  <2>1. CASE stored
    BY <1>5, <1>7, <2>1 DEF SetCache
  <2>2. CASE ~stored
    BY <1>7, <2>2 DEF SetCache, Ledger!pushLedgerVars
  <2> QED BY <2>1, <2>2
<1>8. ASSUME NEW r \in Slots, NEW bumped \in BOOLEAN,
             \/ TurnedAway(r) \/ Drop(r) \/ AcceptError(r, bumped)
             \/ RecordMirror(r) \/ ApplyError(r)
      PROVE  UNCHANGED Ledger!pushLedgerVars
  BY <1>8 DEF TurnedAway, Drop, AcceptError, RecordMirror, ApplyError, storeVars,
              Ledger!pushLedgerVars
<1> QED BY <1>1, <1>2, <1>3, <1>4, <1>6, <1>7, <1>8 DEF Next, Handler

\* The seq guard implements the ledger, resends, restarts and store errors
\* included, as long as the state file is written.
THEOREM IngestImplementsLedger ==
    ASSUME PersistMayFail = FALSE PROVE Spec => ImplementsPushLedger
<1>1. Init => Ledger!PushLedgerInit
  BY DEF Init, Ledger!PushLedgerInit
<1>2. IngestInv /\ [Next]_vars => [Ledger!PushLedgerNext]_(Ledger!pushLedgerVars)
  BY IngestLedgerSteps
<1> QED BY <1>1, <1>2, IngestInvariant, PTL
        DEF Spec, ImplementsPushLedger, Ledger!PushLedgerSpec

------------------------------------------------------------------------------
(* The freshest body.                                                       *)

\* While the publisher waits for a body it sent for the first time, that body is
\* the newest of all, so nothing can have closed the guard to it.
Newest ==
    pc = "awaiting" =>
        /\ issued > 0
        /\ slot[wait].body.stamp = issued
        /\ \A r \in Slots : r # wait => slot[r].body.stamp < issued
        /\ \A b \in spool : b.stamp < issued
        /\ slot[wait].stage = "sent" => lastSeq < issued
        /\ slot[wait].stage # "dropped"
        /\ slot[wait].stage \in {"cached", "ok"} => slot[wait].body.stamp \in applied

\* A step of the server in which no slot but r changes.
LEMMA NewestServer ==
    ASSUME IngestInv, Newest, UNCHANGED publisherVars, applied \subseteq applied',
           SlotsQuiet,
           pc = "awaiting" =>
             /\ slot'[wait].body = slot[wait].body
             /\ slot'[wait].stage = "sent" => slot[wait].stage = "sent" /\ lastSeq' = lastSeq
             /\ slot'[wait].stage # "dropped"
             /\ slot'[wait].stage \in {"cached", "ok"} => slot[wait].body.stamp \in applied'
    PROVE  Newest'
<1> SUFFICES ASSUME pc' = "awaiting"
             PROVE  /\ issued' > 0
                    /\ slot'[wait'].body.stamp = issued'
                    /\ \A r \in Slots : r # wait' => slot'[r].body.stamp < issued'
                    /\ \A b \in spool' : b.stamp < issued'
                    /\ slot'[wait'].stage = "sent" => lastSeq' < issued'
                    /\ slot'[wait'].stage # "dropped"
                    /\ slot'[wait'].stage \in {"cached", "ok"} =>
                          slot'[wait'].body.stamp \in applied'
  BY DEF Newest
<1>1. pc = "awaiting" /\ wait' = wait /\ issued' = issued /\ spool' = spool
  BY DEF publisherVars
<1>2. \A r \in Slots : r # wait => slot'[r].body.stamp < issued
  <2>1. \A r \in Slots : slot'[r].body = slot[r].body \/ slot'[r].body = NoBody
    BY DEF SlotsQuiet, FreeSlot
  <2> QED BY <1>1, <2>1 DEF Newest, NoBody
<1> QED BY <1>1, <1>2 DEF Newest

LEMMA NewestStep ==
    ASSUME PersistMayFail = FALSE, StoreMayFail = FALSE, IngestInv, Newest, [Next]_vars
    PROVE  Newest'
<1>1. CASE UNCHANGED vars
  BY <1>1 DEF vars, publisherVars, storeVars, Newest
<1>2. CASE StartDrain \/ EndDrain \/ EndCycle \/ Restart \/ Crash
  BY <1>2 DEF StartDrain, EndDrain, EndCycle, Restart, Crash, Newest
<1>3. ASSUME NEW r \in Slots,
             \/ ResendOk(r) \/ ResendFails(r) \/ PushOk(r) \/ PushFails(r)
             \/ \E b \in drainQ : Resend(r, b)
      PROVE  Newest'
  BY <1>3 DEF ResendOk, ResendFails, PushOk, PushFails, Resend, Newest
<1>4. ASSUME NEW r \in Slots, NEW i \in 1..Len(Schedule), NEW persisted \in BOOLEAN,
             Push(i, r, persisted)
      PROVE  Newest'
  <2>1. issued \in Nat /\ lastSeq \in Nat /\ lastSeq <= issued /\ issued' = issued + 1
        /\ lastSeq' = lastSeq /\ spool' = spool
    BY <1>4 DEF Push, storeVars, IngestInv, TypeOK, CountersAgree
  <2>2. /\ wait' = r
        /\ slot'[r].body.stamp = issued + 1
        /\ slot'[r].stage = "sent"
        /\ \A q \in Slots : q # r => slot'[q] = slot[q]
    BY <1>4 DEF Push, Post, IngestInv, TypeOK
  <2>3. \A q \in Slots : slot[q].body.stamp \in Nat /\ slot[q].body.stamp <= issued
    BY SlotFields DEF IngestInv, BodiesGenuine, Genuine
  <2>4. \A b \in spool : b.stamp \in Nat /\ b.stamp <= issued
    BY DEF IngestInv, BodiesGenuine, Genuine, Body
  <2> QED BY <2>1, <2>2, <2>3, <2>4 DEF Newest
<1>5. ASSUME NEW r \in Slots, TurnedAway(r) \/ ApplyError(r)
      PROVE  Newest'
  <2>1. Answer(r, "failed") /\ UNCHANGED <<publisherVars, storeVars>>
    BY <1>5 DEF TurnedAway, ApplyError
  <2>2. SlotsQuiet
    BY <2>1, AnswerIsQuiet DEF Answers, IngestInv
  <2>3. r = wait => slot'[r].body = slot[r].body /\ slot'[r].stage = "failed"
    BY <2>1, SlotFields DEF Answer, IngestInv, TypeOK
  <2>4. r # wait => slot'[wait] = slot[wait]
    BY <2>1 DEF Answer, IngestInv, TypeOK
  <2> QED BY <2>1, <2>2, <2>3, <2>4, NewestServer DEF storeVars, Newest
<1>6. ASSUME NEW r \in Slots, Drop(r)
      PROVE  Newest'
  <2>1. Answer(r, "dropped") /\ UNCHANGED <<publisherVars, storeVars>>
        /\ slot[r].stage = "sent" /\ ~Fresh(slot[r].body)
    BY <1>6 DEF Drop
  <2>2. SlotsQuiet
    BY <2>1, AnswerIsQuiet DEF Answers, IngestInv
  <2>3. pc = "awaiting" => r # wait
    <3>1. slot[r].body.seq = slot[r].body.stamp
      BY DEF IngestInv, BodiesGenuine, Genuine
    <3> QED BY <2>1, <3>1 DEF Fresh, Newest, IngestInv, TypeOK
  <2>4. r # wait => slot'[wait] = slot[wait]
    BY <2>1 DEF Answer, IngestInv, TypeOK
  <2> QED BY <2>1, <2>2, <2>3, <2>4, NewestServer DEF storeVars, Newest
<1>7. ASSUME NEW r \in Slots, NEW bumped \in BOOLEAN, AcceptError(r, bumped)
      PROVE  FALSE
  BY <1>7 DEF AcceptError
<1>8. ASSUME NEW r \in Slots, NEW stored \in BOOLEAN, SetCache(r, stored)
      PROVE  Newest'
  <2>1. stored /\ applied' = applied \cup {slot[r].body.stamp} /\ UNCHANGED publisherVars
        /\ lastSeq' = lastSeq
    BY <1>8 DEF SetCache
  <2>2. Advance(r, AfterCache(slot[r].body.kind))
        /\ AfterCache(slot[r].body.kind) \in {"cached", "ok"}
    BY <1>8 DEF SetCache, AfterCache
  <2>3. SlotsQuiet
    BY <2>2, AdvanceIsQuiet DEF IngestInv
  <2>4. r = wait => slot'[r].body = slot[r].body /\ slot'[r].stage \in {"cached", "ok"}
    BY <2>2, SlotFields DEF Advance, Answer, Proceed, IngestInv, TypeOK
  <2>5. pc = "awaiting" /\ r # wait => slot'[wait] = slot[wait]
    <3> SUFFICES ASSUME wait \in Slots, r # wait PROVE slot'[wait] = slot[wait]
      BY DEF IngestInv, WaitsForSlot, Waiting
    <3>1. CASE AfterCache(slot[r].body.kind) = "ok"
      BY <2>2, <3>1 DEF Advance, Answer, IngestInv, TypeOK
    <3>2. CASE AfterCache(slot[r].body.kind) = "cached"
      BY <2>2, <3>2 DEF Advance, Proceed, IngestInv, TypeOK
    <3> QED BY <2>2, <3>1, <3>2
  <2> QED BY <2>1, <2>3, <2>4, <2>5, NewestServer DEF Newest
<1>9. ASSUME NEW r \in Slots, Upsert(r)
      PROVE  Newest'
  <2>1. applied' = applied \cup {slot[r].body.stamp} /\ UNCHANGED publisherVars
        /\ lastSeq' = lastSeq /\ Answer(r, "ok")
    BY <1>9 DEF Upsert
  <2>2. SlotsQuiet
    BY <2>1, AnswerIsQuiet DEF Answers, IngestInv
  <2>3. r = wait => slot'[r].body = slot[r].body /\ slot'[r].stage = "ok"
    BY <2>1, SlotFields DEF Answer, IngestInv, TypeOK
  <2>4. r # wait => slot'[wait] = slot[wait]
    BY <2>1 DEF Answer, IngestInv, TypeOK
  <2> QED BY <2>1, <2>2, <2>3, <2>4, NewestServer DEF Newest
<1>10. ASSUME NEW r \in Slots, RecordMirror(r)
       PROVE  Newest'
  <2>1. applied' = applied /\ UNCHANGED publisherVars /\ lastSeq' = lastSeq
        /\ Answer(r, "ok") /\ slot[r].stage = "cached"
    BY <1>10 DEF RecordMirror
  <2>2. SlotsQuiet
    BY <2>1, AnswerIsQuiet DEF Answers, IngestInv
  <2>3. r = wait => slot'[r].body = slot[r].body /\ slot'[r].stage = "ok"
    BY <2>1, SlotFields DEF Answer, IngestInv, TypeOK
  <2>4. r # wait => slot'[wait] = slot[wait]
    BY <2>1 DEF Answer, IngestInv, TypeOK
  <2> QED BY <2>1, <2>2, <2>3, <2>4, NewestServer DEF Newest
<1>11. CASE Reboot
  <2>1. SlotsQuiet /\ UNCHANGED publisherVars /\ applied' = applied
    BY <1>11, RebootIsQuiet DEF Reboot, IngestInv
  <2>2. pc = "awaiting" =>
          /\ slot'[wait].body = slot[wait].body
          /\ slot'[wait].stage = slot[wait].stage \/ slot'[wait].stage = "failed"
          /\ slot'[wait].stage # "sent"
    <3> SUFFICES ASSUME pc = "awaiting"
                 PROVE  /\ slot'[wait].body = slot[wait].body
                        /\ slot'[wait].stage = slot[wait].stage
                           \/ slot'[wait].stage = "failed"
                        /\ slot'[wait].stage # "sent"
      OBVIOUS
    <3>1. wait \in Slots
      BY DEF IngestInv, WaitsForSlot, Waiting
    <3>2. slot'[wait] = [slot[wait] EXCEPT !.stage = IF @ \in Answers THEN @ ELSE "failed"]
      BY <1>11, <3>1 DEF Reboot
    <3>3. slot[wait] \in [body: Body, stage: Stages]
      BY <3>1, SlotFields DEF IngestInv
    <3> QED BY <3>2, <3>3 DEF Answers
  <2> QED BY <2>1, <2>2, NewestServer DEF Newest
<1>12. ASSUME NEW r \in Slots, Accept(r)
       PROVE  Newest'
  <2>1. /\ lastSeq' = slot[r].body.stamp
        /\ slot' = [slot EXCEPT ![r].stage = "accepted"]
        /\ UNCHANGED publisherVars /\ applied' = applied
    BY <1>12, AcceptFacts
  <2>2. \A q \in Slots : slot'[q].body = slot[q].body
    BY <2>1, SlotFields DEF IngestInv, TypeOK
  <2>3. slot'[r].stage = "accepted" /\ \A q \in Slots : q # r => slot'[q] = slot[q]
    BY <2>1, SlotFields DEF IngestInv, TypeOK
  <2>4. CASE pc = "awaiting"
    <3>1. wait \in Slots
      BY <2>4 DEF IngestInv, WaitsForSlot, Waiting
    <3> QED BY <2>1, <2>2, <2>3, <2>4, <3>1 DEF Newest, publisherVars
  <2>5. CASE pc # "awaiting"
    BY <2>1, <2>5 DEF Newest, publisherVars
  <2> QED BY <2>4, <2>5
<1> QED BY <1>1, <1>2, <1>3, <1>4, <1>5, <1>6, <1>7, <1>8, <1>9, <1>10, <1>11, <1>12
        DEF Next, Publisher, Handler

\* A body that is answered 2xx at its first sending was stored.
THEOREM FreshBodiesAreStored ==
    ASSUME PersistMayFail = FALSE, StoreMayFail = FALSE
    PROVE  Spec => []FreshConfirmedStored
<1>1. Init => Newest
  BY DEF Init, Newest
<1>2. IngestInv /\ Newest /\ [Next]_vars => Newest'
  BY NewestStep
<1>3. Newest => FreshConfirmedStored
  BY DEF Newest, FreshConfirmedStored, Acknowledged
<1> QED BY <1>1, <1>2, <1>3, IngestInvariant, PTL DEF Spec

\* Slots, bodies and counters of the data plane keep to their types.
THEOREM IngestTypeCorrect ==
    ASSUME PersistMayFail = FALSE PROVE Spec => []TypeOK
<1>1. IngestInv => TypeOK
  BY DEF IngestInv
<1> QED BY IngestInvariant, <1>1, PTL

------------------------------------------------------------------------------
\* The rows of the spool, and that a body on its first sending is newer than all
\* of them: it is this body that Spool.add may put beside them.
RowsInv ==
    /\ OneRowPerKind
    /\ pc = "awaiting" => \A o \in spool : o.seq < slot[wait].body.seq

\* No step of the server touches the body that the publisher waits for.
LEMMA ServerLeavesAwaited ==
    ASSUME IngestInv, wait \in Slots,
           Reboot \/ \E r \in Slots : Handler(r)
    PROVE  UNCHANGED publisherVars /\ slot'[wait].body = slot[wait].body
<1>1. slot[wait] \in [body: Body, stage: Stages]
  BY SlotFields DEF IngestInv
<1>2. CASE Reboot
  <2>1. slot'[wait] = [slot[wait] EXCEPT !.stage = IF @ \in Answers THEN @ ELSE "failed"]
    BY <1>2 DEF Reboot
  <2> QED BY <1>1, <1>2, <2>1 DEF Reboot
<1>3. ASSUME NEW r \in Slots, NEW a \in Stages, Answer(r, a)
      PROVE  slot'[wait].body = slot[wait].body
  BY <1>1, <1>3 DEF Answer, IngestInv, TypeOK
<1>4. ASSUME NEW r \in Slots, NEW a \in Stages, Proceed(r, a)
      PROVE  slot'[wait].body = slot[wait].body
  BY <1>1, <1>4 DEF Proceed, IngestInv, TypeOK
<1>5. ASSUME NEW r \in Slots, Handler(r)
      PROVE  /\ UNCHANGED publisherVars
             /\ \E a \in Stages : Answer(r, a) \/ Proceed(r, a)
  <2>1. "accepted" \in Stages /\ "cached" \in Stages /\ "ok" \in Stages
        /\ "dropped" \in Stages /\ "failed" \in Stages
    BY DEF Stages
  <2>2. ASSUME TurnedAway(r) \/ ApplyError(r)
        PROVE  UNCHANGED publisherVars /\ Answer(r, "failed")
    BY <2>2 DEF TurnedAway, ApplyError
  <2>3. ASSUME Drop(r) PROVE UNCHANGED publisherVars /\ Answer(r, "dropped")
    BY <2>3 DEF Drop
  <2>4. ASSUME Upsert(r) \/ RecordMirror(r)
        PROVE  UNCHANGED publisherVars /\ Answer(r, "ok")
    BY <2>4 DEF Upsert, RecordMirror
  <2>5. ASSUME Accept(r) PROVE UNCHANGED publisherVars /\ Proceed(r, "accepted")
    BY <2>5 DEF Accept
  <2>6. ASSUME NEW bumped \in BOOLEAN, AcceptError(r, bumped)
        PROVE  UNCHANGED publisherVars /\ (Answer(r, "dropped") \/ Answer(r, "failed"))
    BY <2>6 DEF AcceptError
  <2>7. ASSUME NEW stored \in BOOLEAN, SetCache(r, stored)
        PROVE  UNCHANGED publisherVars /\ (Answer(r, "ok") \/ Proceed(r, "cached"))
    BY <2>7 DEF SetCache, Advance, AfterCache
  <2> QED BY <1>5, <2>1, <2>2, <2>3, <2>4, <2>5, <2>6, <2>7 DEF Handler
<1>6. ASSUME NEW r \in Slots, Handler(r)
      PROVE  UNCHANGED publisherVars /\ slot'[wait].body = slot[wait].body
  BY <1>3, <1>4, <1>5, <1>6
<1> QED BY <1>2, <1>6

LEMMA RowsInvStep ==
    ASSUME PersistMayFail = FALSE
    PROVE  IngestInv /\ RowsInv /\ [Next]_vars => RowsInv'
<1> SUFFICES ASSUME IngestInv, RowsInv, [Next]_vars PROVE RowsInv'
  OBVIOUS
<1>1. CASE UNCHANGED vars
  BY <1>1 DEF vars, publisherVars, RowsInv, OneRowPerKind
<1>2. CASE Reboot \/ \E r \in Slots : Handler(r)
  <2>1. UNCHANGED publisherVars
    BY <1>2 DEF Reboot, Handler, TurnedAway, Accept, Drop, AcceptError, SetCache,
                RecordMirror, Upsert, ApplyError
  <2>2. pc = "awaiting" => wait \in Slots
    BY DEF IngestInv, WaitsForSlot, Waiting
  <2> QED BY <1>2, <2>1, <2>2, ServerLeavesAwaited
             DEF publisherVars, RowsInv, OneRowPerKind
<1>3. CASE StartDrain \/ EndDrain \/ EndCycle \/ Restart \/ Crash
  BY <1>3 DEF StartDrain, EndDrain, EndCycle, Restart, Crash, RowsInv, OneRowPerKind
<1>4. ASSUME NEW r \in Slots, NEW b \in drainQ, Resend(r, b)
      PROVE  RowsInv'
  BY <1>4 DEF Resend, RowsInv, OneRowPerKind
<1>5. ASSUME NEW r \in Slots, ResendOk(r) \/ ResendFails(r) \/ PushOk(r)
      PROVE  RowsInv'
  BY <1>5 DEF ResendOk, ResendFails, PushOk, RowsInv, OneRowPerKind
<1>6. ASSUME NEW r \in Slots, PushFails(r)
      PROVE  RowsInv'
  <2>1. pc = "awaiting" /\ r = wait /\ pc' = "pushing"
    BY <1>6 DEF PushFails
  <2>2. CASE slot[r].body.kind \notin Buffered
    BY <1>6, <2>1, <2>2 DEF PushFails, RowsInv, OneRowPerKind
  <2>3. CASE slot[r].body.kind \in Buffered
    <3>1. spool' = {o \in spool : o.kind # slot[r].body.kind} \cup {slot[r].body}
      BY <1>6, <2>3 DEF PushFails, Spooled
    <3>2. \A o \in spool : o.seq \in Nat /\ o.seq < slot[r].body.seq
      BY <2>1 DEF RowsInv, IngestInv, TypeOK, Body
    <3>3. \A o \in spool : o.seq # slot[r].body.seq
      BY <3>2, SlotFields DEF IngestInv
    <3> QED BY <2>1, <2>3, <3>1, <3>3 DEF RowsInv, OneRowPerKind
  <2> QED BY <2>2, <2>3
<1>7. ASSUME NEW i \in 1..Len(Schedule), NEW r \in Slots, NEW persisted \in BOOLEAN,
             Push(i, r, persisted)
      PROVE  RowsInv'
  <2>1. spool' = spool /\ wait' = r /\ slot'[r].body.seq = seqMem + 1
    BY <1>7 DEF Push, Post, IngestInv, TypeOK
  <2>2. seqMem = issued
    BY <1>7 DEF Push, IngestInv, CountersAgree
  <2>3. \A o \in spool : o.seq \in Nat /\ o.seq <= issued
    BY DEF IngestInv, BodiesGenuine, Genuine, Body
  <2>4. issued \in Nat
    BY DEF IngestInv, TypeOK
  <2> QED BY <2>1, <2>2, <2>3, <2>4 DEF RowsInv, OneRowPerKind
<1> QED BY <1>1, <1>2, <1>3, <1>4, <1>5, <1>6, <1>7 DEF Next, Publisher

\* The spool has one row a kind, and no two rows of one seq, at every moment.
THEOREM SpoolHasOneRowPerKind ==
    ASSUME PersistMayFail = FALSE PROVE Spec => []OneRowPerKind
<1>1. Init => RowsInv
  BY DEF Init, RowsInv, OneRowPerKind
<1>2. IngestInv /\ RowsInv /\ [Next]_vars => RowsInv'
  BY RowsInvStep
<1>3. RowsInv => OneRowPerKind
  BY DEF RowsInv
<1> QED BY <1>1, <1>2, <1>3, IngestInvariant, PTL DEF Spec

==============================================================================
