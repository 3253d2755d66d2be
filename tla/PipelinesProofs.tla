--------------------------- MODULE PipelinesProofs ---------------------------
(***************************************************************************)
(* What is proved of Pipelines for all constants: the promise of the       *)
(* indexer's fingerprints, and the types and bounds of every part.         *)
(***************************************************************************)
EXTENDS Pipelines, FiniteSetTheorems, TLAPS

------------------------------------------------------------------------------
(* The fingerprint's promise holds for any number of meteors, nights, writes *)
(* and restarts, as long as files that are there can be read: time stamps   *)
(* only grow, so that a session whose stamp is still the current one has    *)
(* read the files as they are.                                              *)

StampsGrow ==
    \A n \in Nights :
        /\ rms[n].mtime <= edits /\ recorded[n] <= rms[n].mtime
        /\ rms[n].mtime = 0 => rms[n].ftp = {} /\ rms[n].rad = {}

SessionIsTrue ==
    \A s \in scan.cur :
        /\ s.fp <= rms[s.night].mtime
        /\ s.step = "rad" /\ s.fp = rms[s.night].mtime => s.ftp = rms[s.night].ftp

Reading == [night: Nights, fp: Nat, ftp: SUBSET Meteors, step: {"ftp", "rad"}]
Scans(sessions) == [pc: {"down", "idle", "scan"}, todo: SUBSET Nights, cur: sessions]

IndexedInv ==
    /\ edits \in Nat
    /\ rms \in [Nights -> [ftp: SUBSET Meteors, rad: SUBSET Meteors, mtime: Nat]]
    /\ recorded \in [Nights -> Nat]
    /\ index \in [Nights -> [Keys -> Nat]]
    /\ scan \in Scans(SUBSET Reading)
    /\ StampsGrow /\ SessionIsTrue /\ RecordedIsIndexed

LEMMA IndexedInvInit == IndexInit => IndexedInv
<1> SUFFICES ASSUME IndexInit PROVE IndexedInv
  OBVIOUS
<1> USE DEF IndexInit, NoFiles, NoRows, Down
<1>1. StampsGrow /\ SessionIsTrue
  BY DEF StampsGrow, SessionIsTrue
<1>2. RecordedIsIndexed
  BY DEF RecordedIsIndexed, Joined
<1> QED BY <1>1, <1>2 DEF IndexedInv, Scans

\* What changes neither the files nor the index, and no session in hand.
LEMMA ElsewhereInv ==
    ASSUME IndexedInv, UNCHANGED <<edits, rms, index, recorded>>,
           scan' \in Scans({scan.cur, {}})
    PROVE  IndexedInv'
BY DEF IndexedInv, Scans, StampsGrow, SessionIsTrue, RecordedIsIndexed

\* RMS's write gets a time stamp nobody has seen.
LEMMA RmsWritesInv ==
    ASSUME IndexedInv, NEW n \in Nights, NEW ftp \in SUBSET Meteors, NEW rad \in SUBSET Meteors,
           RmsWrites(n, ftp, rad)
    PROVE  IndexedInv'
<1>1. /\ edits' = edits + 1 /\ edits' \in Nat
      /\ rms' = [rms EXCEPT ![n] = [ftp |-> ftp, rad |-> rad, mtime |-> edits + 1]]
      /\ UNCHANGED <<index, recorded, scan>>
  BY DEF RmsWrites, indexVars, IndexedInv
<1>2. /\ rms'[n].mtime = edits + 1
      /\ \A m \in Nights \ {n} : rms'[m] = rms[m]
      /\ rms' \in [Nights -> [ftp: SUBSET Meteors, rad: SUBSET Meteors, mtime: Nat]]
  BY <1>1 DEF IndexedInv
<1>3. StampsGrow'
  BY <1>1, <1>2 DEF IndexedInv, StampsGrow
<1>4. SessionIsTrue'
  <2> SUFFICES ASSUME NEW s \in scan.cur
               PROVE  /\ s.fp <= rms'[s.night].mtime
                      /\ s.step = "rad" /\ s.fp = rms'[s.night].mtime => s.ftp = rms'[s.night].ftp
    BY <1>1 DEF SessionIsTrue
  <2>1. s \in Reading /\ s.fp \in Nat /\ s.night \in Nights /\ s.fp <= edits
    BY DEF IndexedInv, SessionIsTrue, StampsGrow, Scans, Reading
  <2>2. CASE s.night = n
    <3>1. edits \in Nat /\ rms'[s.night].mtime = edits + 1
      BY <1>2, <2>2 DEF IndexedInv
    <3>2. s.fp <= rms'[s.night].mtime /\ s.fp # rms'[s.night].mtime
      BY <2>1, <3>1
    <3> QED BY <3>2
  <2>3. CASE s.night # n
    BY <1>2, <2>1, <2>3 DEF IndexedInv, SessionIsTrue
  <2> QED BY <2>2, <2>3
<1>5. RecordedIsIndexed'
  <2>1. recorded[n] # rms'[n].mtime
    BY <1>2 DEF IndexedInv, StampsGrow
  <2> QED BY <1>1, <1>2, <2>1 DEF IndexedInv, RecordedIsIndexed
<1> QED BY <1>1, <1>2, <1>3, <1>4, <1>5 DEF IndexedInv

LEMMA OpenSessionInv ==
    ASSUME IndexedInv, NEW n \in Nights, OpenSession(n)
    PROVE  IndexedInv'
<1>1. /\ scan' = [scan EXCEPT !.todo = @ \ {n}, !.cur = {Opened(n)}]
      /\ UNCHANGED <<edits, rms, index, recorded>>
  BY DEF OpenSession, filesVars, indexVars
<1>2. /\ Opened(n) \in Reading
      /\ Opened(n).night = n /\ Opened(n).fp = rms[n].mtime /\ Opened(n).step = "ftp"
  BY DEF Opened, IndexedInv, Reading
<1>3. scan'.cur = {Opened(n)} /\ scan' \in Scans(SUBSET Reading)
  BY <1>1, <1>2 DEF IndexedInv, Scans
<1>4. SessionIsTrue'
  BY <1>1, <1>2, <1>3 DEF SessionIsTrue, IndexedInv
<1> QED BY <1>1, <1>3, <1>4 DEF IndexedInv, StampsGrow, RecordedIsIndexed

LEMMA ReadFtpInv ==
    ASSUME ReadMayFail = FALSE, IndexedInv, ReadFtp
    PROVE  IndexedInv'
<1>1. PICK s \in scan.cur :
        /\ scan' = [scan EXCEPT !.cur = {[s EXCEPT !.ftp = rms[s.night].ftp, !.step = "rad"]}]
        /\ UNCHANGED <<edits, rms, index, recorded>>
  BY DEF ReadFtp, Readable, filesVars, indexVars
<1> DEFINE t == [s EXCEPT !.ftp = rms[s.night].ftp, !.step = "rad"]
<1>2. s \in Reading
  BY DEF IndexedInv, Scans
<1>3. t \in Reading /\ t.night = s.night /\ t.fp = s.fp /\ t.ftp = rms[s.night].ftp
  BY <1>2 DEF IndexedInv, Reading
<1>4. scan'.cur = {t} /\ scan' \in Scans(SUBSET Reading)
  BY <1>1, <1>3 DEF IndexedInv, Scans
<1>5. SessionIsTrue'
  BY <1>1, <1>3, <1>4 DEF SessionIsTrue, IndexedInv
<1> QED BY <1>1, <1>4, <1>5 DEF IndexedInv, StampsGrow, RecordedIsIndexed

\* The rows a session writes are those of its files; if the files have changed since it took
\* their time stamp, that is not the current one.
LEMMA WriteSessionInv ==
    ASSUME ReadMayFail = FALSE, IndexedInv, WriteSession
    PROVE  IndexedInv'
<1>1. PICK s \in scan.cur :
        /\ s.step = "rad"
        /\ index' = Upserted(index, s.night, Joined(s.ftp, rms[s.night].rad), s.fp)
        /\ recorded' = [recorded EXCEPT ![s.night] = s.fp]
        /\ scan' = [scan EXCEPT !.cur = {}] /\ UNCHANGED <<edits, rms>>
  BY DEF WriteSession, Readable, Fingerprint, filesVars
<1>2. s \in Reading /\ s.night \in Nights /\ s.fp \in Nat /\ s.fp <= rms[s.night].mtime
  BY DEF IndexedInv, SessionIsTrue, Scans, Reading
<1>3. /\ recorded' \in [Nights -> Nat] /\ recorded'[s.night] = s.fp
      /\ \A n \in Nights \ {s.night} : recorded'[n] = recorded[n]
  BY <1>1, <1>2 DEF IndexedInv
<1> DEFINE row == [k \in Keys |-> IF k \in Joined(s.ftp, rms[s.night].rad)
                                  THEN s.fp ELSE index[s.night][k]]
<1>4. index' = [index EXCEPT ![s.night] = row]
  BY <1>1 DEF Upserted
<1>5. row \in [Keys -> Nat]
  BY <1>2 DEF IndexedInv
<1>6. index' \in [Nights -> [Keys -> Nat]] /\ index'[s.night] = row
      /\ \A n \in Nights \ {s.night} : index'[n] = index[n]
  BY <1>2, <1>4, <1>5 DEF IndexedInv
<1>7. RecordedIsIndexed'
  <2> SUFFICES ASSUME NEW n \in Nights, recorded'[n] = rms[n].mtime,
                      NEW k \in Joined(rms[n].ftp, rms[n].rad)
               PROVE  index'[n][k] = rms[n].mtime
    BY <1>1 DEF RecordedIsIndexed
  <2>1. CASE n = s.night
    <3>1. s.fp = rms[n].mtime /\ s.ftp = rms[n].ftp
      BY <1>1, <1>3, <2>1 DEF IndexedInv, SessionIsTrue
    <3>2. k \in Keys
      BY DEF Joined, Keys, IndexedInv
    <3> QED BY <1>6, <2>1, <3>1, <3>2
  <2>2. CASE n # s.night
    BY <1>3, <1>6, <2>2 DEF IndexedInv, RecordedIsIndexed
  <2> QED BY <2>1, <2>2
<1>8. scan'.cur = {} /\ scan' \in Scans(SUBSET Reading)
  BY <1>1 DEF IndexedInv, Scans
<1>9. StampsGrow' /\ SessionIsTrue'
  BY <1>1, <1>2, <1>3, <1>8 DEF IndexedInv, StampsGrow, SessionIsTrue
<1> QED BY <1>1, <1>3, <1>6, <1>7, <1>8, <1>9 DEF IndexedInv

LEMMA IndexedInvStep ==
    ASSUME ReadMayFail = FALSE, IndexedInv, [IndexNext]_indexingVars
    PROVE  IndexedInv'
<1>0. scan \in Scans({scan.cur, {}})
  BY DEF IndexedInv, Scans
<1>1. CASE UNCHANGED indexingVars
  BY <1>0, <1>1, ElsewhereInv DEF indexingVars, indexerVars
<1>2. CASE IndexerStart \/ StartScan \/ EndScan \/ FailSession \/ IndexerStops
  <2>1. UNCHANGED <<edits, rms, index, recorded>>
    BY <1>2 DEF IndexerStart, StartScan, EndScan, FailSession, IndexerStops, filesVars, indexVars
  <2>2. CASE IndexerStart \/ StartScan \/ IndexerStops
    <3>1. scan' \in Scans({{}})
      BY <2>2 DEF IndexerStart, StartScan, IndexerStops, Down, Scans
    <3>2. scan' \in Scans({scan.cur, {}})
      BY <3>1 DEF Scans
    <3> QED BY <2>1, <3>2, ElsewhereInv
  <2>3. CASE EndScan \/ FailSession
    <3>1. scan' \in Scans({scan.cur, {}})
      BY <1>0, <2>3 DEF EndScan, FailSession, Scans
    <3> QED BY <2>1, <3>1, ElsewhereInv
  <2> QED BY <1>2, <2>2, <2>3
<1>3. ASSUME NEW n \in Nights, SkipSession(n) \/ OpenSession(n)
      PROVE  IndexedInv'
  <2>1. CASE SkipSession(n)
    <3>1. scan' \in Scans({scan.cur, {}})
      BY <1>0, <2>1 DEF SkipSession, Scans
    <3> QED BY <2>1, <3>1, ElsewhereInv DEF SkipSession, filesVars, indexVars
  <2> QED BY <1>3, <2>1, OpenSessionInv
<1>4. CASE ReadFtp
  BY <1>4, ReadFtpInv
<1>5. CASE WriteSession
  BY <1>5, WriteSessionInv
<1>6. CASE Poller \/ Fetch \/ PollFails \/ PollerStops
  <2>1. UNCHANGED <<edits, rms, index, recorded, scan>>
    BY <1>6 DEF Poller, SkipCycle, NotReady, SetPollState, Fetch, PollFails, PollerStops,
       indexerVars, filesVars, indexVars
  <2> QED BY <1>0, <2>1, ElsewhereInv
<1>7. CASE Environment
  <2>1. CASE NextDay \/ \E n \in Nights : Upload(n) \/ Bootstrap(n)
    <3>1. UNCHANGED <<edits, rms, index, recorded, scan>>
      BY <2>1 DEF NextDay, Upload, Bootstrap, indexerVars, filesVars, indexVars
    <3> QED BY <1>0, <3>1, ElsewhereInv
  <2> QED BY <1>7, <2>1, RmsWritesInv DEF Environment
<1> QED BY <1>1, <1>2, <1>3, <1>4, <1>5, <1>6, <1>7 DEF IndexNext, Indexer

\* A session that is recorded with the time stamp its files have now is wholly in the
\* station's index, whatever RMS wrote while the indexer was reading (_index_session).
THEOREM RecordedSessionsAreIndexed ==
    ASSUME ReadMayFail = FALSE PROVE IndexSpec => []RecordedIsIndexed
<1>1. IndexedInv => RecordedIsIndexed
  BY DEF IndexedInv
<1> QED BY IndexedInvInit, IndexedInvStep, <1>1, PTL DEF IndexSpec

------------------------------------------------------------------------------
(* DetectionIndex: the types.                                               *)

LEMMA IndexTypesInit == IndexInit => IndexTypeOK
<1>1. 0 \in Nights /\ 0 \in Versions /\ 0 \in 0..MaxStops /\ 0 \in 0..MaxErrors /\ 0 \in 0..BackoffFactor
  BY IndexAssumption DEF Nights, Versions
<1>2. NoFiles \in Files /\ NoRows \in Rows /\ Down \in Scan
  BY <1>1 DEF NoFiles, Files, NoRows, Rows, Down, Scan
<1> QED BY <1>1, <1>2 DEF IndexInit, IndexTypeOK

\* The steps of the calendar, of RMS and of the upload.
LEMMA FilesTypes ==
    ASSUME IndexTypeOK, NextDay \/ (\E n \in Nights : Upload(n))
                        \/ \E n \in Nights, ftp, rad \in SUBSET Meteors : RmsWrites(n, ftp, rad)
    PROVE  IndexTypeOK'
<1>1. CASE NextDay
  BY <1>1, IndexAssumption DEF NextDay, IndexTypeOK, filesVars, indexVars, vpsVars, Nights
<1>2. ASSUME NEW n \in Nights, Upload(n) PROVE IndexTypeOK'
  BY <1>2 DEF Upload, IndexTypeOK, indexVars, vpsVars
<1>3. ASSUME NEW n \in Nights, NEW ftp \in SUBSET Meteors, NEW rad \in SUBSET Meteors,
             RmsWrites(n, ftp, rad)
      PROVE  IndexTypeOK'
  <2>1. edits + 1 \in Versions /\ edits' = edits + 1
    BY <1>3, IndexAssumption DEF RmsWrites, IndexTypeOK, Versions
  <2>2. [ftp |-> ftp, rad |-> rad, mtime |-> edits + 1] \in Files
    BY <2>1 DEF Files
  <2>3. rms' \in [Nights -> Files]
    BY <1>3, <2>2 DEF RmsWrites, IndexTypeOK
  <2> QED BY <1>3, <2>1, <2>3 DEF RmsWrites, IndexTypeOK, indexVars, vpsVars
<1> QED BY <1>1, <1>2, <1>3

\* What a session writes is a row of its night for every key.
LEMMA UpsertedTypes ==
    ASSUME NEW rowsOf \in Rows, NEW n \in Nights, NEW keys, NEW v \in Versions
    PROVE  Upserted(rowsOf, n, keys, v) \in Rows
BY DEF Upserted, Rows

LEMMA IndexerTypes ==
    ASSUME IndexTypeOK, Indexer \/ WriteSession \/ FailSession \/ IndexerStops
    PROVE  IndexTypeOK'
<1>1. scan \in Scan /\ scan.cur \subseteq Session /\ scan.todo \subseteq Nights
  BY DEF IndexTypeOK, Scan
<1>2. CASE IndexerStart \/ StartScan \/ EndScan \/ FailSession
  <2>1. scan' \in Scan
    BY <1>1, <1>2 DEF IndexerStart, StartScan, EndScan, FailSession, Scan
  <2> QED BY <1>2, <2>1 DEF IndexerStart, StartScan, EndScan, FailSession, IndexTypeOK, filesVars,
         indexVars, vpsVars
<1>3. CASE IndexerStops
  BY <1>3, IndexAssumption DEF IndexerStops, Down, IndexTypeOK, Scan, filesVars, indexVars, vpsVars
<1>4. ASSUME NEW n \in Nights, SkipSession(n) \/ OpenSession(n) PROVE IndexTypeOK'
  <2>1. Opened(n) \in Session
    BY DEF Opened, Session, IndexTypeOK, Files
  <2>2. {Opened(n)} \in SUBSET Session /\ scan.todo \ {n} \in SUBSET Nights
    BY <1>1, <2>1
  <2>3. scan' \in Scan
    BY <1>1, <1>4, <2>2 DEF SkipSession, OpenSession, Scan
  <2> QED BY <1>4, <2>3 DEF SkipSession, OpenSession, IndexTypeOK, filesVars, indexVars, vpsVars
<1>5. CASE ReadFtp
  <2>1. PICK s \in scan.cur : \E ftp \in Readable(rms[s.night].ftp) :
          /\ scan' = [scan EXCEPT !.cur = {[s EXCEPT !.ftp = ftp, !.step = "rad"]}]
          /\ UNCHANGED <<day, filesVars, indexVars, stops, vpsVars>>
    BY <1>5 DEF ReadFtp
  <2>2. s \in Session /\ Readable(rms[s.night].ftp) \subseteq SUBSET Meteors
    BY <1>1 DEF Readable, Session, IndexTypeOK, Files
  <2>3. PICK ftp \in SUBSET Meteors :
          scan' = [scan EXCEPT !.cur = {[s EXCEPT !.ftp = ftp, !.step = "rad"]}]
    BY <2>1, <2>2
  <2>4. scan' \in Scan
    <3>1. [s EXCEPT !.ftp = ftp, !.step = "rad"] \in Session
      BY <2>2 DEF Session
    <3> DEFINE t == [s EXCEPT !.ftp = ftp, !.step = "rad"]
    <3>2. {t} \in SUBSET Session /\ scan' = [scan EXCEPT !.cur = {t}]
      BY <2>3, <3>1
    <3> HIDE DEF t
    <3> QED BY <1>1, <3>2 DEF Scan
  <2> QED BY <2>1, <2>4 DEF IndexTypeOK, filesVars, indexVars, vpsVars
<1>6. CASE WriteSession
  <2>1. PICK s \in scan.cur : \E rad \in Readable(rms[s.night].rad) :
          /\ index' = Upserted(index, s.night, Joined(s.ftp, rad), s.fp)
          /\ recorded' = [recorded EXCEPT ![s.night] = s.fp]
          /\ scan' = [scan EXCEPT !.cur = {}]
          /\ UNCHANGED <<day, filesVars, ready, stops, vpsVars>>
    BY <1>6 DEF WriteSession, Fingerprint
  <2>2. s.night \in Nights /\ s.fp \in Versions
    BY <1>1 DEF Session
  <2>3. index' \in Rows /\ recorded' \in [Nights -> Versions] /\ scan' \in Scan
    BY <1>1, <2>1, <2>2, UpsertedTypes DEF IndexTypeOK, Scan
  <2> QED BY <2>1, <2>3 DEF IndexTypeOK, filesVars, vpsVars
<1> QED BY <1>2, <1>3, <1>4, <1>5, <1>6 DEF Indexer

\* The poller's counts stay within their bounds, and what is fetched are rows.
LEMMA PollerTypes ==
    ASSUME IndexTypeOK,
           Poller \/ Fetch \/ PollFails \/ PollerStops \/ \E n \in Nights : Bootstrap(n)
    PROVE  IndexTypeOK'
<1>1. CASE SkipCycle \/ NotReady \/ SetPollState
  <2>1. CASE SkipCycle
    <3>1. skip' \in 0..BackoffFactor /\ errors' \in 0..MaxErrors
      BY <2>1, IndexAssumption DEF SkipCycle, Countdown, IndexTypeOK
    <3> QED BY <2>1, <3>1 DEF SkipCycle, IndexTypeOK, indexerVars
  <2>2. CASE NotReady
    BY <2>2, IndexAssumption DEF NotReady, IndexTypeOK, indexerVars
  <2>3. CASE SetPollState
    BY <2>3, IndexAssumption DEF SetPollState, IndexTypeOK, indexerVars
  <2> QED BY <1>1, <2>1, <2>2, <2>3
<1>2. CASE Fetch
  <2>1. vps' \in Rows
    BY <1>2 DEF Fetch, Rows, IndexTypeOK
  <2> QED BY <1>2, <2>1 DEF Fetch, IndexTypeOK, indexerVars
<1>3. CASE PollFails
  BY <1>3, IndexAssumption DEF PollFails, IndexTypeOK, indexerVars
<1>4. CASE PollerStops
  BY <1>4, IndexAssumption DEF PollerStops, IndexTypeOK, filesVars, indexVars
<1>5. ASSUME NEW n \in Nights, Bootstrap(n) PROVE IndexTypeOK'
  <2>1. copy[n].mtime \in Versions
    BY DEF IndexTypeOK, Files
  <2>2. vps' \in Rows /\ ingested' \in [Nights -> Versions]
    BY <1>5, <2>1, UpsertedTypes DEF Bootstrap, IndexTypeOK
  <2> QED BY <1>5, <2>2 DEF Bootstrap, IndexTypeOK, indexerVars
<1> QED BY <1>1, <1>2, <1>3, <1>4, <1>5 DEF Poller

LEMMA IndexTypesStep == ASSUME IndexTypeOK, IndexNext PROVE IndexTypeOK'
BY FilesTypes, IndexerTypes, PollerTypes DEF IndexNext, Environment

LEMMA IndexTypesStay == ASSUME IndexTypeOK, UNCHANGED indexingVars PROVE IndexTypeOK'
BY DEF IndexTypeOK, indexingVars, indexerVars, vpsVars

------------------------------------------------------------------------------
(* StationWatch: an entry's counts stay within grace, delay and cooldown.   *)

LEMMA AlertsTypesInit == Alerts!WatchInit => Alerts!WatchTypeOK
BY AlertsAssumption, ArchiveAssumption DEF Alerts!WatchInit, Alerts!WatchTypeOK

LEMMA ReportedTypes ==
    ASSUME NEW k \in Alerts!Keys, NEW e \in Alerts!Entry
    PROVE  Alerts!Reported(k, e) \in Alerts!Entry
<1>1. Alerts!Least(e.problem + 1, GraceOffline) \in 1..GraceOffline
  BY AlertsAssumption DEF Alerts!Least, Alerts!Entry
<1>2. e.told \in Alerts!Never..Cooldown /\ (e.told # Alerts!Never /\ e.told < Cooldown
                                            => e.told + 1 \in Alerts!Never..Cooldown)
      /\ 0 \in Alerts!Never..Cooldown /\ Alerts!Never \in Alerts!Never..Cooldown
      /\ 0 \in 0..ResolveDelay
  BY AlertsAssumption DEF Alerts!Never, Alerts!Entry
<1> QED BY <1>1, <1>2, AlertsAssumption DEF Alerts!Reported, Alerts!Entry, Alerts!Never

LEMMA OlderTypes ==
    ASSUME NEW e \in Alerts!Entry PROVE Alerts!Older(e) \in Alerts!Never..Cooldown
BY AlertsAssumption DEF Alerts!Older, Alerts!Least, Alerts!Never, Alerts!Entry

LEMMA CheckTypes ==
    ASSUME Alerts!WatchTypeOK, NEW asked \in SUBSET Faults, Alerts!CheckStation(asked)
    PROVE  Alerts!WatchTypeOK'
<1>1. \A k \in Alerts!Keys : active[k] \in SUBSET Alerts!Entry
  BY DEF Alerts!WatchTypeOK
<1>2. \A k \in Alerts!Keys : Alerts!Problem(k) \in SUBSET Alerts!Entry
  <2> TAKE k \in Alerts!Keys
  <2>1. CASE active[k] = {}
    <3>1. Alerts!NewEntry(k) \in Alerts!Entry
      BY AlertsAssumption DEF Alerts!NewEntry, Alerts!Entry, Alerts!Never
    <3> QED BY <2>1, <3>1 DEF Alerts!Problem
  <2>2. CASE active[k] # {}
    <3>1. (CHOOSE e \in active[k] : TRUE) \in Alerts!Entry
      BY <1>1, <2>2
    <3> QED BY <2>2, <3>1, ReportedTypes DEF Alerts!Problem
  <2> QED BY <2>1, <2>2
<1>3. \A k \in Alerts!Keys : Alerts!Fine(k) \in SUBSET Alerts!Entry
  <2> TAKE k \in Alerts!Keys
  <2>1. ASSUME NEW e \in active[k], e.ok + 1 < ResolveDelay
        PROVE  [e EXCEPT !.ok = @ + 1, !.told = Alerts!Older(e)] \in Alerts!Entry
    <3>1. e \in Alerts!Entry /\ e.ok + 1 \in 0..ResolveDelay
      BY <1>1, <2>1, AlertsAssumption DEF Alerts!Entry
    <3> QED BY <3>1, OlderTypes DEF Alerts!Entry
  <2> QED BY <2>1 DEF Alerts!Fine
<1>4. \A k \in Alerts!Keys : Alerts!Unseen(k) \in SUBSET Alerts!Entry
  <2> TAKE k \in Alerts!Keys
  <2>1. ASSUME NEW e \in active[k] PROVE [e EXCEPT !.told = Alerts!Older(e)] \in Alerts!Entry
    BY <1>1, <2>1, OlderTypes DEF Alerts!Entry
  <2> QED BY <2>1 DEF Alerts!Unseen
<1>5. \A k \in Alerts!Keys : active'[k] \in SUBSET Alerts!Entry
  BY <1>2, <1>3, <1>4 DEF Alerts!CheckStation
<1>6. pending' \in SUBSET (Alerts!Kinds \X Alerts!Keys)
  BY DEF Alerts!CheckStation, Alerts!Kinds, Alerts!Keys
<1> QED BY <1>5, <1>6 DEF Alerts!CheckStation, Alerts!WatchTypeOK

LEMMA AlertsTypesStep == ASSUME Alerts!WatchTypeOK, Alerts!WatchNext PROVE Alerts!WatchTypeOK'
<1>1. ASSUME NEW k \in Alerts!Keys, NEW there \in BOOLEAN, Alerts!SickChanges(k, there)
      PROVE  Alerts!WatchTypeOK'
  BY <1>1 DEF Alerts!SickChanges, Alerts!WatchTypeOK
<1>2. CASE Alerts!DawnEnds \/ Alerts!CheckDawn
  BY <1>2 DEF Alerts!DawnEnds, Alerts!CheckDawn, Alerts!WatchTypeOK
<1>3. ASSUME NEW sent \in SUBSET Alerts!Kinds, Alerts!Dispatch(sent) PROVE Alerts!WatchTypeOK'
  <2>1. heard' \in [Alerts!Keys -> Alerts!Kinds \cup {"nothing"}]
    BY <1>3 DEF Alerts!Dispatch, Alerts!WatchTypeOK, Alerts!Kinds
  <2> QED BY <1>3, <2>1 DEF Alerts!Dispatch, Alerts!WatchTypeOK
<1>4. CASE Alerts!Restart
  BY <1>4, ArchiveAssumption DEF Alerts!Restart, Alerts!WatchTypeOK
<1> QED BY <1>1, <1>2, <1>3, <1>4, CheckTypes DEF Alerts!WatchNext, Alerts!Cycle

LEMMA AlertsTypesStay == ASSUME Alerts!WatchTypeOK, UNCHANGED alertVars PROVE Alerts!WatchTypeOK'
BY DEF Alerts!WatchTypeOK, alertVars

------------------------------------------------------------------------------
(* StatusCache: no queue and no number of listeners goes over its limit.    *)
(* What is under way is a status, for the queues hold nothing else.         *)

StatusInv ==
    /\ Status!StatusTypeOK /\ client \in [Clients -> Status!Client]
    /\ writer.step # "idle" => writer.value \in Status!Status

Listeners == {c \in Clients : Status!Listening(c)}

LEMMA StatusCardinality == ASSUME NEW S PROVE Status!Cardinality(S) = Cardinality(S)
BY DEF Status!Cardinality, Cardinality

LEMMA StatusInvInit == Status!StatusInit => StatusInv
<1> SUFFICES ASSUME Status!StatusInit PROVE StatusInv
  OBVIOUS
<1>1. Status!Away("nothing") \in Status!Client /\ Status!IdleWriter \in Status!Writer
  BY DEF Status!Away, Status!Client, Status!Shown, Status!Status, Status!IdleWriter, Status!Writer
<1>2. Listeners = {}
  BY DEF Listeners, Status!StatusInit, Status!Listening, Status!Away
<1>3. \A c \in Clients : client[c] \in Status!Client /\ Len(client[c].queue) = 0
  BY <1>1 DEF Status!StatusInit, Status!Away
<1>4. Status!Cardinality({c \in Clients : Status!Listening(c)}) <= MaxListeners
  BY <1>2, FS_EmptySet, StatusCardinality, StatusAssumption DEF Listeners
<1>5. client \in [Clients -> Status!Client]
  BY <1>1 DEF Status!StatusInit
<1>6. 0 \in 0..OfflineAfter /\ "offline" \in Status!Status /\ "nothing" \in Status!Shown
  BY StatusAssumption DEF Status!Status, Status!Shown
<1>7. \A c \in Clients : Len(client[c].queue) <= QueueMax
  BY <1>3, StatusAssumption
<1>8. writer = Status!IdleWriter /\ writer.step = "idle"
  BY DEF Status!StatusInit, Status!IdleWriter
<1> QED BY <1>1, <1>4, <1>5, <1>6, <1>7, <1>8 DEF StatusInv, Status!StatusTypeOK, Status!StatusInit

LEMMA ListenersCounted ==
    /\ IsFiniteSet(Listeners) /\ Cardinality(Listeners) \in Nat
    /\ \A S \in SUBSET Listeners : Cardinality(S) <= Cardinality(Listeners)
    /\ \A c : c \notin Listeners => Cardinality(Listeners \cup {c}) = Cardinality(Listeners) + 1
<1>1. IsFiniteSet(Listeners)
  BY StatusAssumption, FS_Subset DEF Listeners
<1> QED BY <1>1, FS_CardinalityType, FS_Subset, FS_AddElement

\* What a browser's stream does to its own entry; only one that finds room begins to listen.
LEMMA BecomesInv ==
    ASSUME StatusInv, NEW c \in Clients, NEW new \in Status!Client, Status!Becomes(c, new),
           Len(new.queue) <= QueueMax, snap' \in SUBSET Status!Shown,
           \/ new.step = "away" \/ Status!Listening(c)
           \/ ~Status!Listening(c) /\ Cardinality(Listeners) < MaxListeners
    PROVE  StatusInv'
<1>1. /\ client' = [client EXCEPT ![c] = new] /\ client' \in [Clients -> Status!Client]
      /\ UNCHANGED <<station, streak, sig, store, writer>>
  BY DEF StatusInv, Status!Becomes
<1>2. \A d \in Clients : client'[d] \in Status!Client /\ Len(client'[d].queue) <= QueueMax
  BY <1>1 DEF StatusInv, Status!StatusTypeOK
<1>3. Cardinality(Listeners) <= MaxListeners
  BY StatusCardinality DEF StatusInv, Status!StatusTypeOK, Listeners
<1>4. Cardinality(Listeners') <= MaxListeners
  <2>1. CASE new.step = "away" \/ Status!Listening(c)
    <3>1. Listeners' \in SUBSET Listeners
      BY <1>1, <2>1 DEF Listeners, Status!Listening, StatusInv
    <3>2. Cardinality(Listeners') \in Nat
      BY <3>1, ListenersCounted, FS_Subset, FS_CardinalityType
    <3> QED BY <1>3, <3>1, <3>2, ListenersCounted, StatusAssumption
  <2>2. CASE ~Status!Listening(c) /\ Cardinality(Listeners) < MaxListeners /\ new.step # "away"
    <3>1. Listeners' = Listeners \cup {c} /\ c \notin Listeners
      BY <1>1, <2>2 DEF Listeners, Status!Listening, StatusInv
    <3> QED BY <2>2, <3>1, ListenersCounted, StatusAssumption
  <2> QED BY <2>1, <2>2
<1>5. Status!Cardinality({d \in Clients : Status!Listening(d)})' <= MaxListeners
  BY <1>4, StatusCardinality DEF Listeners
<1> QED BY <1>1, <1>2, <1>5 DEF StatusInv, Status!StatusTypeOK

\* What the writer does: whoever listened goes on listening.
LEMMA WriterInv ==
    ASSUME StatusInv, client' \in [Clients -> Status!Client],
           \A c \in Clients : /\ client'[c].step = client[c].step
                              /\ Len(client'[c].queue) <= QueueMax,
           station' \in Status!Status, streak' \in 0..OfflineAfter, sig' \in Status!Shown,
           store' \in Status!Shown, snap' \in SUBSET Status!Shown, writer' \in Status!Writer,
           writer'.step # "idle" => writer'.value \in Status!Status
    PROVE  StatusInv'
<1>1. {d \in Clients : Status!Listening(d)}' = {d \in Clients : Status!Listening(d)}
  BY DEF Status!Listening
<1>2. Status!Cardinality({d \in Clients : Status!Listening(d)})' <= MaxListeners
  BY <1>1, StatusCardinality DEF StatusInv, Status!StatusTypeOK
<1> QED BY <1>2 DEF StatusInv, Status!StatusTypeOK

LEMMA SetStatusInv ==
    ASSUME StatusInv, NEW v \in Status!Status, Status!SetStatus(v),
           streak' \in 0..OfflineAfter, UNCHANGED <<station, store>>
    PROVE  StatusInv'
<1>1. \A c \in Clients : [client[c] EXCEPT !.outdated = TRUE] \in Status!Client
  BY DEF StatusInv, Status!Client
<1>2. client' \in [Clients -> Status!Client]
  BY <1>1 DEF Status!SetStatus
<1>3. \A c \in Clients : /\ client'[c].step = client[c].step
                         /\ client'[c].queue = client[c].queue
  BY DEF Status!SetStatus, StatusInv, Status!Client
<1>4. \A c \in Clients : Len(client'[c].queue) <= QueueMax
  BY <1>3 DEF StatusInv, Status!StatusTypeOK
<1>5. writer' \in Status!Writer /\ sig' \in Status!Shown /\ snap' \in SUBSET Status!Shown
  BY DEF Status!SetStatus, Status!DroppedSnapshot, Status!Writer, Status!Shown
<1>6. station' \in Status!Status /\ store' \in Status!Shown /\ writer'.value \in Status!Status
  BY DEF StatusInv, Status!StatusTypeOK, Status!SetStatus
<1> QED BY <1>2, <1>3, <1>4, <1>5, <1>6, WriterInv

LEMMA PollInv ==
    ASSUME StatusInv,
           \/ \E v \in Status!Status : Status!StationChanges(v)
           \/ Status!PollOnline \/ Status!PollOffline \/ Status!StoreStatus \/ Status!Broadcast
    PROVE  StatusInv'
<1>1. /\ station \in Status!Status /\ streak \in 0..OfflineAfter /\ sig \in Status!Shown
      /\ store \in Status!Shown /\ snap \in SUBSET Status!Shown /\ writer \in Status!Writer
      /\ client \in [Clients -> Status!Client]
      /\ \A c \in Clients : Len(client[c].queue) <= QueueMax
      /\ writer.step # "idle" => writer.value \in Status!Status
  BY DEF StatusInv, Status!StatusTypeOK
<1>2. ASSUME NEW v \in Status!Status, Status!StationChanges(v) PROVE StatusInv'
  BY <1>1, <1>2, WriterInv DEF Status!StationChanges
<1>3. CASE Status!PollOnline
  <2>1. Status!SetStatus(station) /\ streak' = 0 /\ UNCHANGED <<station, store>>
    BY <1>3 DEF Status!PollOnline
  <2> QED BY <1>1, <2>1, SetStatusInv, StatusAssumption
<1>4. CASE Status!PollOffline
  <2>1. streak' \in 0..OfflineAfter /\ UNCHANGED <<station, store>>
    BY <1>1, <1>4, StatusAssumption DEF Status!PollOffline
  <2>2. CASE Status!SetStatus("offline")
    BY <2>1, <2>2, SetStatusInv DEF Status!Status
  <2>3. CASE UNCHANGED <<sig, snap, writer, client>>
    BY <1>1, <2>1, <2>3, WriterInv
  <2> QED BY <1>4, <2>2, <2>3 DEF Status!PollOffline
<1>5. CASE Status!StoreStatus
  <2>1. writer' \in Status!Writer /\ store' \in Status!Shown
    BY <1>1, <1>5 DEF Status!StoreStatus, Status!Writer, Status!IdleWriter, Status!Shown
  <2>2. writer'.step # "idle" => writer'.value \in Status!Status
    BY <1>1, <1>5 DEF Status!StoreStatus, Status!Writer, Status!IdleWriter
  <2>3. UNCHANGED <<station, streak, sig, snap, client>>
    BY <1>5 DEF Status!StoreStatus
  <2> QED BY <1>1, <2>1, <2>2, <2>3, WriterInv
<1>6. CASE Status!Broadcast
  <2>1. writer.value \in Status!Status /\ writer' = Status!IdleWriter
    BY <1>1, <1>6 DEF Status!Broadcast
  <2>2. \A c \in Clients :
          /\ client'[c].step = client[c].step /\ client'[c] \in Status!Client
          /\ Len(client'[c].queue) <= QueueMax
    <3> TAKE c \in Clients
    <3>1. CASE Status!Listening(c) /\ Len(client[c].queue) < QueueMax
      <4>1. client'[c] = [client[c] EXCEPT !.queue = Append(client[c].queue, writer.value)]
        BY <1>6, <3>1 DEF Status!Broadcast
      <4>2. client[c] \in Status!Client /\ client[c].queue \in Seq(Status!Status)
        BY <1>1 DEF Status!Client
      <4>3. /\ Append(client[c].queue, writer.value) \in Seq(Status!Status)
            /\ Len(Append(client[c].queue, writer.value)) <= QueueMax
        BY <2>1, <3>1, <4>2, StatusAssumption
      <4> QED BY <4>1, <4>2, <4>3 DEF Status!Client
    <3>2. CASE ~(Status!Listening(c) /\ Len(client[c].queue) < QueueMax)
      BY <1>1, <1>6, <3>2 DEF Status!Broadcast
    <3> QED BY <3>1, <3>2
  <2>3. client' \in [Clients -> Status!Client]
    BY <1>6, <2>2 DEF Status!Broadcast
  <2>4. writer' \in Status!Writer /\ writer'.step = "idle"
    BY <2>1 DEF Status!IdleWriter, Status!Writer, Status!Shown
  <2>5. UNCHANGED <<station, streak, sig, store, snap>>
    BY <1>6 DEF Status!Broadcast
  <2> QED BY <1>1, <2>2, <2>3, <2>4, <2>5, WriterInv
<1> QED BY <1>2, <1>3, <1>4, <1>5, <1>6

\* The generator of a stream.
LEMMA StreamInv ==
    ASSUME StatusInv, NEW c \in Clients,
           Status!Join(c) \/ Status!Stream(c) \/ Status!Leave(c)
    PROVE  StatusInv'
<1>1. /\ client[c] \in Status!Client /\ Len(client[c].queue) <= QueueMax
      /\ snap \in SUBSET Status!Shown /\ store \in Status!Shown
  BY DEF StatusInv, Status!StatusTypeOK
<1>2. client[c].queue \in Seq(Status!Status) /\ client[c].read \in Status!Shown /\ client[c].view \in Status!Shown
  BY <1>1 DEF Status!Client
<1>3. CASE Status!Join(c)
  <2> DEFINE new == [client[c] EXCEPT !.step = "joined"]
  <2>1. new \in Status!Client /\ new.queue = client[c].queue
    BY <1>1 DEF Status!Client
  <2>2. Status!Becomes(c, new) /\ snap' = snap /\ ~Status!Listening(c) /\ Cardinality(Listeners) < MaxListeners
    BY <1>3, StatusCardinality DEF Status!Join, Listeners
  <2> HIDE DEF new
  <2> QED BY <1>1, <2>1, <2>2, BecomesInv
<1>4. ASSUME NEW v \in snap, client[c].step = "joined",
             Status!Becomes(c, [client[c] EXCEPT !.step = "live", !.view = v]), UNCHANGED snap
      PROVE  StatusInv'
  <2> DEFINE new == [client[c] EXCEPT !.step = "live", !.view = v]
  <2>1. new \in Status!Client /\ new.queue = client[c].queue
    BY <1>1 DEF Status!Client
  <2>2. Status!Becomes(c, new) /\ snap' = snap /\ Status!Listening(c)
    BY <1>4 DEF Status!Listening
  <2> HIDE DEF new
  <2> QED BY <1>1, <2>1, <2>2, BecomesInv
<1>5. CASE Status!StartSnapshot(c)
  <2> DEFINE new == [client[c] EXCEPT !.step = "building", !.outdated = FALSE]
  <2>1. new \in Status!Client /\ new.queue = client[c].queue
    BY <1>1 DEF Status!Client
  <2>2. Status!Becomes(c, new) /\ snap' = snap /\ Status!Listening(c)
    BY <1>5 DEF Status!StartSnapshot, Status!Listening
  <2> HIDE DEF new
  <2> QED BY <1>1, <2>1, <2>2, BecomesInv
<1>6. CASE Status!ReadStore(c)
  <2> DEFINE new == [client[c] EXCEPT !.step = "storing", !.read = store]
  <2>1. new \in Status!Client /\ new.queue = client[c].queue
    BY <1>1 DEF Status!Client
  <2>2. Status!Becomes(c, new) /\ snap' = snap /\ Status!Listening(c)
    BY <1>6 DEF Status!ReadStore, Status!Listening
  <2> HIDE DEF new
  <2> QED BY <1>1, <2>1, <2>2, BecomesInv
<1>7. CASE Status!KeepSnapshot(c)
  <2> DEFINE new == [client[c] EXCEPT !.step = "live", !.view = client[c].read, !.read = "nothing"]
  <2>1. new \in Status!Client /\ new.queue = client[c].queue
    BY <1>1, <1>2 DEF Status!Client, Status!Shown
  <2>2. Status!Becomes(c, new) /\ snap' \in SUBSET Status!Shown /\ Status!Listening(c)
    BY <1>2, <1>7 DEF Status!KeepSnapshot, Status!Listening
  <2> HIDE DEF new
  <2> QED BY <1>1, <2>1, <2>2, BecomesInv
<1>8. CASE Status!Receive(c)
  <2> DEFINE new == [client[c] EXCEPT !.view = Head(client[c].queue), !.queue = Tail(client[c].queue)]
  <2>1. /\ Head(client[c].queue) \in Status!Shown /\ Tail(client[c].queue) \in Seq(Status!Status)
        /\ Len(Tail(client[c].queue)) <= QueueMax
    BY <1>1, <1>2, <1>8, StatusAssumption DEF Status!Receive, Status!Shown
  <2>2. new \in Status!Client /\ new.queue = Tail(client[c].queue)
    BY <1>1, <2>1 DEF Status!Client
  <2>3. Status!Becomes(c, new) /\ snap' = snap /\ Status!Listening(c)
    BY <1>8 DEF Status!Receive, Status!Listening
  <2> HIDE DEF new
  <2> QED BY <1>1, <2>1, <2>2, <2>3, BecomesInv
<1>9. CASE Status!Leave(c)
  <2>1. /\ Status!Away(client[c].view) \in Status!Client /\ Status!Away(client[c].view).queue = <<>>
        /\ Status!Away(client[c].view).step = "away"
    BY <1>2 DEF Status!Away, Status!Client, Status!Shown
  <2>2. Status!Becomes(c, Status!Away(client[c].view)) /\ snap' = snap
    BY <1>9 DEF Status!Leave
  <2> QED BY <1>1, <2>1, <2>2, BecomesInv, StatusAssumption
<1> QED BY <1>3, <1>4, <1>5, <1>6, <1>7, <1>8, <1>9 DEF Status!Stream, Status!CachedSnapshot

LEMMA StatusInvStep == ASSUME StatusInv, Status!StatusNext PROVE StatusInv'
BY PollInv, StreamInv DEF Status!StatusNext, Status!Poll

LEMMA StatusInvStays == ASSUME StatusInv, UNCHANGED statusVars PROVE StatusInv'
<1>1. {d \in Clients : Status!Listening(d)}' = {d \in Clients : Status!Listening(d)}
  BY DEF Status!Listening, statusVars
<1>2. Status!Cardinality({d \in Clients : Status!Listening(d)})' <= MaxListeners
  BY <1>1, StatusCardinality DEF StatusInv, Status!StatusTypeOK
<1> QED BY <1>2 DEF StatusInv, Status!StatusTypeOK, statusVars


(* The archive index and the page of nights (ArchiveIndex).                *)

LEMMA Listings ==
    /\ Archive!Nothing \in Archive!Listing /\ Archive!None = -1
    /\ \A t \in Archive!ScanThreads : Archive!Rounds(t) \subseteq {"full", "recent"}
    /\ \A l \in Archive!Listing : Archive!Hot(l) \in Archive!Listing
BY ArchiveAssumption DEF Archive!Nothing, Archive!Listing, Archive!Versions, Archive!None,
   Archive!Rounds, Archive!Hot, Archive!ScanThreads

LEMMA ArchiveTypesInit == Archive!ArchiveInit => Archive!ArchiveTypeOK
<1> SUFFICES ASSUME Archive!ArchiveInit PROVE Archive!ArchiveTypeOK
  OBVIOUS
<1>1. archive \in Archive!Listing /\ changes \in 0..MaxChanges
  BY ArchiveAssumption DEF Archive!ArchiveInit, Archive!Listing, Archive!Versions
<1>2. ondemand \in [ArchivedNights -> Archive!Versions \cup {Archive!None}]
  BY DEF Archive!ArchiveInit
<1>3. scanning \in [Archive!ScanThreads ->
                      [step: {"asleep", "full", "recent", "over"}, seen: Archive!Listing]]
  BY Listings DEF Archive!ArchiveInit, Archive!Asleep
<1>4. faults \in 0..MaxFaults /\ reboots \in 0..MaxRestarts
  BY ArchiveAssumption DEF Archive!ArchiveInit
<1> QED BY <1>1, <1>2, <1>3, <1>4, Listings DEF Archive!ArchiveTypeOK, Archive!ArchiveInit

LEMMA ArchiveTypesStay ==
    ASSUME Archive!ArchiveTypeOK, UNCHANGED archiveVars PROVE Archive!ArchiveTypeOK'
BY DEF archiveVars, Archive!ArchiveTypeOK

LEMMA FaultTypes ==
    ASSUME faults \in 0..MaxFaults, Archive!Fault PROVE faults' \in 0..MaxFaults
BY ArchiveAssumption DEF Archive!Fault

\* What the two threads do.
LEMMA ScansTypes ==
    ASSUME Archive!ArchiveTypeOK, NEW t \in Archive!ScanThreads,
           (\E round \in Archive!Rounds(t) : Archive!Scan(t, round)) \/ Archive!Publish(t)
    PROVE  Archive!ArchiveTypeOK'
<1> DEFINE Walks == [step: {"asleep", "full", "recent", "over"}, seen: Archive!Listing]
<1>1. /\ scanning \in [Archive!ScanThreads -> Walks] /\ scanning[t].seen \in Archive!Listing
      /\ archive \in Archive!Listing /\ faults \in 0..MaxFaults
      /\ dates \in SUBSET ArchivedNights /\ data \in Archive!Listing
      /\ Archive!Found(t) \in SUBSET ArchivedNights
  BY DEF Archive!ArchiveTypeOK, Archive!Found
<1>2. ASSUME NEW round \in Archive!Rounds(t), Archive!Scan(t, round) PROVE Archive!ArchiveTypeOK'
  <2>1. round \in {"full", "recent"}
    BY Listings
  <2>2. /\ [step |-> round, seen |-> archive] \in Walks
        /\ [step |-> round, seen |-> Archive!Nothing] \in Walks
    BY <1>1, <2>1, Listings
  <2>3. scanning' \in [Archive!ScanThreads -> Walks]
    BY <1>1, <1>2, <2>2 DEF Archive!Scan
  <2>4. faults' \in 0..MaxFaults
    BY <1>1, <1>2, FaultTypes DEF Archive!Scan
  <2>5. UNCHANGED <<archive, dates, data, ondemand, savedIndex, page, savedPage, refresh, changes, reboots>>
    BY <1>2 DEF Archive!Scan, Archive!indexVars, Archive!pageVars
  <2> QED BY <2>3, <2>4, <2>5 DEF Archive!ArchiveTypeOK
<1>3. ASSUME Archive!AfterScan(t) PROVE scanning' \in [Archive!ScanThreads -> Walks]
  <2>1. \A s \in {"asleep", "over"} : [Archive!Asleep EXCEPT !.step = s] \in Walks
    BY Listings DEF Archive!Asleep
  <2> QED BY <1>1, <1>3, <2>1 DEF Archive!AfterScan
<1>4. ASSUME NEW counted \in BOOLEAN, Archive!Save(counted), dates' \in SUBSET ArchivedNights,
             data' \in Archive!Listing
      PROVE  savedIndex' \in [dates: SUBSET ArchivedNights, data: Archive!Listing]
  BY <1>4 DEF Archive!Save, Archive!ArchiveTypeOK
<1>5. CASE Archive!BuildFull(t)
  <2>1. /\ dates' \in SUBSET ArchivedNights /\ data' \in Archive!Listing
        /\ ondemand' = [n \in ArchivedNights |-> Archive!None]
    BY <1>1, <1>5, Listings DEF Archive!BuildFull
  <2>2. ondemand' \in [ArchivedNights -> Archive!Versions \cup {Archive!None}]
    BY <2>1
  <2>3. scanning' \in [Archive!ScanThreads -> Walks]
    BY <1>3, <1>5 DEF Archive!BuildFull
  <2>4. savedIndex' \in [dates: SUBSET ArchivedNights, data: Archive!Listing]
    BY <1>4, <1>5, <2>1 DEF Archive!BuildFull
  <2>5. UNCHANGED <<archive, page, savedPage, refresh, changes, faults, reboots>>
    BY <1>5 DEF Archive!BuildFull, Archive!pageVars
  <2> QED BY <2>1, <2>2, <2>3, <2>4, <2>5 DEF Archive!ArchiveTypeOK
<1>6. CASE Archive!RefreshRecent(t)
  <2>1. dates' \in SUBSET ArchivedNights /\ data' \in Archive!Listing
    BY <1>1, <1>6 DEF Archive!RefreshRecent, Archive!Listing
  <2>2. scanning' \in [Archive!ScanThreads -> Walks]
    BY <1>3, <1>6 DEF Archive!RefreshRecent
  <2>3. savedIndex' \in [dates: SUBSET ArchivedNights, data: Archive!Listing]
    BY <1>4, <1>6, <2>1 DEF Archive!RefreshRecent
  <2>4. UNCHANGED <<archive, ondemand, page, savedPage, refresh, changes, faults, reboots>>
    BY <1>6 DEF Archive!RefreshRecent, Archive!pageVars
  <2> QED BY <2>1, <2>2, <2>3, <2>4 DEF Archive!ArchiveTypeOK
<1> QED BY <1>2, <1>5, <1>6 DEF Archive!Publish

\* What the archive itself, the on-demand cache and the page do.
LEMMA PagesTypes ==
    ASSUME Archive!ArchiveTypeOK,
           \/ \E n \in ArchivedNights : Archive!ArchiveChanges(n) \/ Archive!OnDemandExpires(n)
           \/ Archive!View \/ Archive!BuildPage \/ Archive!StorePage \/ Archive!BuildTimesOut
           \/ Archive!PageExpires
    PROVE  Archive!ArchiveTypeOK'
<1> DEFINE OnDemand == [ArchivedNights -> Archive!Versions \cup {Archive!None}]
           Pages == [state: {"none", "fresh", "stale"}, rows: Archive!Listing]
           Refreshes == [step: {"none", "building", "built"}, rows: Archive!Listing]
<1>1. /\ archive \in Archive!Listing /\ data \in Archive!Listing /\ ondemand \in OnDemand
      /\ page \in Pages /\ refresh \in Refreshes /\ faults \in 0..MaxFaults
      /\ changes \in 0..MaxChanges
  BY DEF Archive!ArchiveTypeOK
<1>2. ASSUME NEW n \in ArchivedNights, Archive!ArchiveChanges(n) PROVE Archive!ArchiveTypeOK'
  <2>1. changes' \in 0..MaxChanges /\ changes' \in Archive!Versions /\ 0 \in Archive!Versions
    BY <1>1, <1>2, ArchiveAssumption DEF Archive!ArchiveChanges, Archive!Versions
  <2>2. \A v \in Archive!Versions : [archive EXCEPT ![n] = v] \in Archive!Listing
    BY <1>1 DEF Archive!Listing
  <2>3. archive' \in Archive!Listing
    BY <1>2, <2>1, <2>2 DEF Archive!ArchiveChanges
  <2>4. UNCHANGED <<dates, data, ondemand, savedIndex, scanning, page, savedPage, refresh, faults, reboots>>
    BY <1>2 DEF Archive!ArchiveChanges, Archive!indexVars, Archive!pageVars
  <2> QED BY <2>1, <2>3, <2>4 DEF Archive!ArchiveTypeOK
<1>3. ASSUME NEW n \in ArchivedNights, Archive!OnDemandExpires(n) PROVE Archive!ArchiveTypeOK'
  <2>1. ondemand' \in OnDemand
    BY <1>1, <1>3 DEF Archive!OnDemandExpires
  <2>2. UNCHANGED <<archive, dates, data, savedIndex, scanning, page, savedPage, refresh, changes,
                    faults, reboots>>
    BY <1>3 DEF Archive!OnDemandExpires, Archive!pageVars
  <2> QED BY <2>1, <2>2 DEF Archive!ArchiveTypeOK
<1>4. CASE Archive!View
  <2>1. refresh' \in Refreshes
    BY <1>1, <1>4 DEF Archive!View
  <2>2. UNCHANGED <<archive, dates, data, ondemand, savedIndex, scanning, page, savedPage, changes,
                    faults, reboots>>
    BY <1>4 DEF Archive!View, Archive!indexVars
  <2> QED BY <2>1, <2>2 DEF Archive!ArchiveTypeOK
<1>5. ASSUME NEW missed, Archive!Build(missed), faults' \in 0..MaxFaults
      PROVE  Archive!ArchiveTypeOK'
  <2>1. \A n \in ArchivedNights : /\ archive[n] \in Archive!Versions /\ data[n] \in Archive!Versions
                                  /\ ondemand[n] # Archive!None => ondemand[n] \in Archive!Versions
                                  /\ ondemand[n] \in Archive!Versions \cup {Archive!None}
    BY <1>1 DEF Archive!Listing
  <2>2. ondemand' \in OnDemand
    BY <1>5, <2>1 DEF Archive!Build
  <2>3. 0 \in Archive!Versions
    BY ArchiveAssumption DEF Archive!Versions
  <2> DEFINE rows == [n \in ArchivedNights |-> CASE n \notin dates \/ n \in missed -> 0
                                               [] data[n] # 0 -> data[n]
                                               [] ondemand[n] # Archive!None -> ondemand[n]
                                               [] OTHER -> archive[n]]
  <2>4. rows \in Archive!Listing
    BY <2>1, <2>3 DEF Archive!Listing
  <2>5. refresh' = [step |-> "built", rows |-> rows]
    BY <1>5 DEF Archive!Build
  <2>6. refresh' \in Refreshes
    <3> HIDE DEF rows
    <3> QED BY <2>4, <2>5
  <2>7. UNCHANGED <<archive, dates, data, savedIndex, scanning, page, savedPage, changes, reboots>>
    BY <1>5 DEF Archive!Build
  <2> QED BY <1>5, <2>2, <2>6, <2>7 DEF Archive!ArchiveTypeOK
<1>6. CASE Archive!BuildPage
  BY <1>1, <1>5, <1>6, FaultTypes DEF Archive!BuildPage
<1>7. CASE Archive!StorePage
  <2>1. [state |-> "fresh", rows |-> refresh.rows] \in Pages
    BY <1>1
  <2>2. page' \in Pages /\ savedPage' \in Pages /\ refresh' \in Refreshes
    BY <1>7, <2>1, Listings DEF Archive!StorePage
  <2>3. UNCHANGED <<archive, dates, data, ondemand, savedIndex, scanning, changes, faults, reboots>>
    BY <1>7 DEF Archive!StorePage, Archive!indexVars
  <2> QED BY <2>2, <2>3 DEF Archive!ArchiveTypeOK
<1>8. CASE Archive!BuildTimesOut
  <2>1. refresh' \in Refreshes /\ faults' \in 0..MaxFaults
    BY <1>1, <1>8, Listings, FaultTypes DEF Archive!BuildTimesOut
  <2>2. UNCHANGED <<archive, dates, data, ondemand, savedIndex, scanning, page, savedPage, changes, reboots>>
    BY <1>8 DEF Archive!BuildTimesOut, Archive!indexVars
  <2> QED BY <2>1, <2>2 DEF Archive!ArchiveTypeOK
<1>9. CASE Archive!PageExpires
  <2>1. page' \in Pages
    BY <1>1, <1>9 DEF Archive!PageExpires
  <2>2. UNCHANGED <<archive, dates, data, ondemand, savedIndex, scanning, savedPage, refresh, changes,
                    faults, reboots>>
    BY <1>9 DEF Archive!PageExpires, Archive!indexVars
  <2> QED BY <2>1, <2>2 DEF Archive!ArchiveTypeOK
<1> QED BY <1>2, <1>3, <1>4, <1>6, <1>7, <1>8, <1>9

LEMMA ReloadsTypes ==
    ASSUME Archive!ArchiveTypeOK, Archive!DashboardReloads PROVE Archive!ArchiveTypeOK'
<1> DEFINE Pages == [state: {"none", "fresh", "stale"}, rows: Archive!Listing]
<1>1. /\ savedIndex \in [dates: SUBSET ArchivedNights, data: Archive!Listing]
      /\ savedPage \in Pages /\ reboots \in 0..MaxRestarts
  BY DEF Archive!ArchiveTypeOK
<1>2. dates' \in SUBSET ArchivedNights /\ data' \in Archive!Listing
  BY <1>1, Listings DEF Archive!DashboardReloads
<1>3. ondemand' = [n \in ArchivedNights |-> Archive!None]
  BY DEF Archive!DashboardReloads
<1>4. scanning' = [t \in Archive!ScanThreads |-> Archive!Asleep]
  BY DEF Archive!DashboardReloads
<1>5. Archive!Asleep \in [step: {"asleep", "full", "recent", "over"}, seen: Archive!Listing]
  BY Listings DEF Archive!Asleep
<1>6. [savedPage EXCEPT !.state = IF savedPage.state = "none" THEN savedPage.state ELSE "stale"] \in Pages
  BY <1>1
<1>7. page' \in Pages
  BY <1>1, <1>6 DEF Archive!DashboardReloads
<1>8. /\ refresh' \in [step: {"none", "building", "built"}, rows: Archive!Listing]
      /\ reboots' \in 0..MaxRestarts
  BY <1>1, Listings, ArchiveAssumption DEF Archive!DashboardReloads
<1>9. UNCHANGED <<archive, savedIndex, savedPage, changes, faults>>
  BY DEF Archive!DashboardReloads
<1> QED BY <1>2, <1>3, <1>4, <1>5, <1>7, <1>8, <1>9 DEF Archive!ArchiveTypeOK

LEMMA ArchiveTypesStep ==
    ASSUME Archive!ArchiveTypeOK, Archive!ArchiveNext PROVE Archive!ArchiveTypeOK'
BY ScansTypes, PagesTypes, ReloadsTypes DEF Archive!ArchiveNext

(* The seq guard (RedisSeqBump).                                           *)

LEMMA GuardTypesInit == Guard!Init => Guard!TypeOK
BY DEF Guard!Init, Guard!TypeOK, Guard!Commands, Guard!Results

LEMMA GuardTypesStay == ASSUME Guard!TypeOK, UNCHANGED guardVars PROVE Guard!TypeOK'
BY DEF guardVars, Guard!TypeOK

LEMMA GuardTypesStep == ASSUME Guard!TypeOK, Guard!Next PROVE Guard!TypeOK'
<1> SUFFICES ASSUME NEW p \in Handlers, Guard!SeqBump(p) PROVE Guard!TypeOK'
  BY DEF Guard!Next
<1>1. call[p].station \in Stations /\ call[p].seq \in Seqs
  BY DEF Guard!TypeOK
<1>2. CASE Guard!Watch(p)
  BY <1>2 DEF Guard!Watch, Guard!Goto, Guard!TypeOK, Guard!Commands
<1>3. CASE Guard!Read(p)
  <2>1. hash[call[p].station] \in Seqs \cup {0}
    BY <1>1 DEF Guard!TypeOK
  <2>2. Guard!Return(p, "replay") \/ Guard!Goto(p, "exec")
    BY <1>3 DEF Guard!Read
  <2> QED BY <1>3, <2>1, <2>2 DEF Guard!Read, Guard!Return, Guard!Goto, Guard!TypeOK, Guard!Commands,
                                  Guard!Results, Guard!StationOf
<1>4. ASSUME Guard!Write(p), UNCHANGED <<call, cur>>,
             NEW a \in {"accepted", "error"}, Guard!Return(p, a)
      PROVE  Guard!TypeOK'
  BY <1>1, <1>4 DEF Guard!Write, Guard!Return, Guard!TypeOK, Guard!Commands, Guard!Results,
                    Guard!StationOf, Guard!SeqOf
<1>5. CASE Guard!Exec(p)
  BY <1>4, <1>5 DEF Guard!Exec
<1>6. CASE Guard!Retry(p)
  BY <1>6 DEF Guard!Retry, Guard!Goto, Guard!TypeOK, Guard!Commands
<1>7. ASSUME NEW executed \in BOOLEAN, Guard!Error(p, executed) PROVE Guard!TypeOK'
  <2>1. CASE executed
    BY <1>4, <1>7, <2>1 DEF Guard!Error
  <2>2. CASE ~executed
    BY <1>7, <2>2 DEF Guard!Error, Guard!Return, Guard!TypeOK, Guard!Commands, Guard!Results
  <2> QED BY <2>1, <2>2
<1> QED BY <1>2, <1>3, <1>5, <1>6, <1>7 DEF Guard!SeqBump

(* The parts together.                                                     *)

\* Every part keeps its invariant, whichever of them runs.
PipelinesInv ==
    /\ part \in Parts
    /\ IndexTypeOK /\ (ReadMayFail = FALSE => IndexedInv)
    /\ Alerts!WatchTypeOK /\ StatusInv /\ Archive!ArchiveTypeOK /\ Guard!TypeOK

\* A step, as each part sees it.
LEMMA PipelineSteps ==
    ASSUME [PipelinesNext]_pipelineVars
    PROVE  /\ part' = part
           /\ IndexNext \/ UNCHANGED indexingVars
           /\ Alerts!WatchNext \/ UNCHANGED alertVars
           /\ Status!StatusNext \/ UNCHANGED statusVars
           /\ Archive!ArchiveNext \/ UNCHANGED archiveVars
           /\ Guard!Next \/ UNCHANGED guardVars
<1>1. CASE PipelinesNext
  BY <1>1 DEF PipelinesNext, Rest
<1>2. CASE UNCHANGED pipelineVars
  BY <1>2 DEF pipelineVars
<1> QED BY <1>1, <1>2

LEMMA PipelinesInvInit == ASSUME PipelinesInit PROVE PipelinesInv
BY IndexTypesInit, IndexedInvInit, AlertsTypesInit, StatusInvInit, ArchiveTypesInit, GuardTypesInit
   DEF PipelinesInit, PipelinesInv

LEMMA PipelinesInvStep ==
    ASSUME PipelinesInv, [PipelinesNext]_pipelineVars PROVE PipelinesInv'
<1>1. part' \in Parts
  BY PipelineSteps DEF PipelinesInv
<1>2. IndexTypeOK' /\ (ReadMayFail = FALSE => IndexedInv')
  BY PipelineSteps, IndexTypesStep, IndexTypesStay, IndexedInvStep DEF PipelinesInv
<1>3. Alerts!WatchTypeOK' /\ StatusInv'
  BY PipelineSteps, AlertsTypesStep, AlertsTypesStay, StatusInvStep, StatusInvStays DEF PipelinesInv
<1>4. Archive!ArchiveTypeOK' /\ Guard!TypeOK'
  BY PipelineSteps, ArchiveTypesStep, ArchiveTypesStay, GuardTypesStep, GuardTypesStay DEF PipelinesInv
<1> QED BY <1>1, <1>2, <1>3, <1>4 DEF PipelinesInv

THEOREM PipelinesInvariant == PipelinesSpec => []PipelinesInv
BY PipelinesInvInit, PipelinesInvStep, PTL DEF PipelinesSpec

\* Every pipeline keeps to its types and bounds, however many stations, nights, browsers and
\* handlers there are: no browser's queue outgrows its size and never do more browsers listen
\* than there is room for (detection_indexer, station_watchdog, StationCache, _ArchiveIndex).
THEOREM PipelinesTypes == PipelinesSpec => []TypeOK
<1>1. ASSUME PipelinesInv PROVE TypeOK
  BY <1>1 DEF PipelinesInv, StatusInv, TypeOK
<1> QED BY <1>1, PipelinesInvariant, PTL

\* What the checked runs rely on, in every pipeline: as long as no FTP file has to be skipped,
\* the meteors of a file that was recorded as indexed are in the index (detection_indexer).
THEOREM PipelinesIndexIsComplete ==
    ASSUME ReadMayFail = FALSE PROVE PipelinesSpec => []RecordedIsIndexed
<1>1. ASSUME PipelinesInv PROVE RecordedIsIndexed
  BY <1>1 DEF PipelinesInv, IndexedInv
<1> QED BY <1>1, PipelinesInvariant, PTL

==============================================================================
