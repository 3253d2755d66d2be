--------------------------- MODULE DetectionIndex ---------------------------
(***************************************************************************)
(* How a night's meteors get from RMS's text files into the dashboard's    *)
(* detections.db: detection_indexer scans the sessions of one camera into  *)
(* the station's index, index_poller pulls a window of that index every    *)
(* few minutes, and bootstrap_index reads copies of the same files in the  *)
(* archive.                                                                *)
(*                                                                         *)
(* A night is the day it began.  RMS may write a night's two files at any  *)
(* time; a row is the version of the files it was parsed from, 0 for none. *)
(***************************************************************************)
EXTENDS Integers

CONSTANTS
    Meteors,
    HotDays, RepollDays, BootstrapDays,
    MaxErrors, BackoffFactor,
    ReadMayFail,    \* a text file that is there may fail to be read
    LastDay, MaxEdits, MaxStops     \* bounds: days, file writes, restarts

VARIABLES
    day,            \* today, by UTC
    edits,          \* the latest modification time
    rms,            \* rms[n]: FTPdetectinfo, radiants and the newer one's mtime
    copy,           \* copy[n]: what was uploaded to the archive
    index, recorded, ready,     \* the station's index: rows, fingerprints, file exists
    scan,           \* the indexer: what is left of the scan and the session in hand
    vps, ingested,  \* detections.db: rows, bootstrap's fingerprints
    synced,         \* poll_state has a since_date
    poll,           \* the poller's cycle
    errors, skip,   \* its counts for this station, in memory
    stops

indexVars  == <<index, recorded, ready>>
pollerVars == <<synced, poll, errors, skip>>
filesVars  == <<edits, rms, copy>>
indexerVars == <<day, edits, rms, copy, index, recorded, ready, scan, stops>>
vpsVars == <<vps, ingested, synced, poll, errors, skip>>
indexingVars == <<indexerVars, vpsVars>>

Nights   == 0..LastDay
Versions == 0..MaxEdits

\* Identity of a row: the FF file and meteor number, or RAD_<time> without one.
Keys == Meteors \X {"FF", "RAD"}
Files == [ftp: SUBSET Meteors, rad: SUBSET Meteors, mtime: Versions]
NoFiles == [ftp |-> {}, rad |-> {}, mtime |-> 0]
Rows == [Nights -> [Keys -> Versions]]
NoRows == [n \in Nights |-> [k \in Keys |-> 0]]

\* The session in hand: its fingerprint and what was read of it so far.
Session == [night: Nights, fp: Versions, ftp: SUBSET Meteors, step: {"ftp", "rad"}]
Scan == [pc: {"down", "idle", "scan"}, todo: SUBSET Nights, cur: SUBSET Session]
Down == [pc |-> "down", todo |-> {}, cur |-> {}]

IndexInit ==
    /\ day = 0 /\ edits = 0 /\ stops = 0
    /\ rms = [n \in Nights |-> NoFiles]
    /\ copy = [n \in Nights |-> NoFiles]
    /\ index = NoRows /\ ready = FALSE
    /\ recorded = [n \in Nights |-> 0]
    /\ scan = Down
    /\ vps = NoRows
    /\ ingested = [n \in Nights |-> 0]
    /\ synced = FALSE /\ poll = "idle"
    /\ errors = 0 /\ skip = 0

------------------------------------------------------------------------------
(* RMS and the calendar, which the code only observes.                      *)

NextDay ==
    /\ day < LastDay
    /\ day' = day + 1
    /\ UNCHANGED <<filesVars, indexVars, scan, stops, vpsVars>>

\* RMS writes FTPdetectinfo or radiants of a night, or rewrites it later.
RmsWrites(n, ftp, rad) ==
    /\ n <= day /\ edits < MaxEdits
    /\ ftp = rms[n].ftp \/ rad = rms[n].rad
    /\ edits' = edits + 1
    /\ rms' = [rms EXCEPT ![n] = [ftp |-> ftp, rad |-> rad, mtime |-> edits + 1]]
    /\ UNCHANGED <<day, copy, indexVars, scan, stops, vpsVars>>

\* The night's text files are uploaded when it is over, their times kept.
Upload(n) ==
    /\ n < day /\ copy[n] # rms[n]
    /\ copy' = [copy EXCEPT ![n] = rms[n]]
    /\ UNCHANGED <<day, edits, rms, indexVars, scan, stops, vpsVars>>

------------------------------------------------------------------------------
(* detection_indexer on the station.                                        *)

\* _open_db, then a scan of all sessions whatever their age.
IndexerStart ==
    /\ scan.pc = "down"
    /\ ready' = TRUE
    /\ scan' = [pc |-> "scan", todo |-> Nights, cur |-> {}]
    /\ UNCHANGED <<day, filesVars, index, recorded, stops, vpsVars>>

Hot(n) == n >= day - HotDays

\* The main loop's scan of the hot window.
StartScan ==
    /\ scan.pc = "idle"
    /\ scan' = [pc |-> "scan", todo |-> {n \in Nights : Hot(n)}, cur |-> {}]
    /\ UNCHANGED <<day, filesVars, indexVars, stops, vpsVars>>

EndScan ==
    /\ scan.pc = "scan" /\ scan.todo = {} /\ scan.cur = {}
    /\ scan' = [scan EXCEPT !.pc = "idle"]
    /\ UNCHANGED <<day, filesVars, indexVars, stops, vpsVars>>

Take(n) == scan.pc = "scan" /\ scan.cur = {} /\ n \in scan.todo

\* No files yet, or the fingerprint is the recorded one.
SkipSession(n) ==
    /\ Take(n)
    /\ rms[n].mtime \in {0, recorded[n]}
    /\ scan' = [scan EXCEPT !.todo = @ \ {n}]
    /\ UNCHANGED <<day, filesVars, indexVars, stops, vpsVars>>

Opened(n) ==
    [night |-> n, fp |-> rms[n].mtime, ftp |-> {}, step |-> "ftp"]

OpenSession(n) ==
    /\ Take(n)
    /\ rms[n].mtime \notin {0, recorded[n]}
    /\ scan' = [scan EXCEPT !.todo = @ \ {n}, !.cur = {Opened(n)}]
    /\ UNCHANGED <<day, filesVars, indexVars, stops, vpsVars>>

\* A file that cannot be read counts as an empty one.
Readable(content) == {content} \cup (IF ReadMayFail THEN {{}} ELSE {})

\* _ftp_rows of the filtered FTPdetectinfo files.
ReadFtp ==
    \E s \in scan.cur : \E ftp \in Readable(rms[s.night].ftp) :
        /\ s.step = "ftp"
        /\ scan' = [scan EXCEPT !.cur = {[s EXCEPT !.ftp = ftp, !.step = "rad"]}]
        /\ UNCHANGED <<day, filesVars, indexVars, stops, vpsVars>>

\* A row for every FTP block; radiants without a partner get a placeholder.
Joined(ftp, rad) == (ftp \X {"FF"}) \cup ((rad \ ftp) \X {"RAD"})

\* INSERT OR REPLACE, nothing is ever deleted.
Upserted(rows, n, keys, v) ==
    [rows EXCEPT ![n] = [k \in Keys |-> IF k \in keys THEN v ELSE rows[n][k]]]

\* Faulty variant: the fingerprint is taken after the files have been read.
FingerprintAfter(s) == rms[s.night].mtime

Fingerprint(s) == s.fp

\* _radiant_rows, the join, and one transaction for the rows and the fingerprint, which
\* is also recorded for a session without rows.
WriteSession ==
    \E s \in scan.cur : \E rad \in Readable(rms[s.night].rad) :
        /\ s.step = "rad"
        /\ index' = Upserted(index, s.night, Joined(s.ftp, rad), s.fp)
        /\ recorded' = [recorded EXCEPT ![s.night] = Fingerprint(s)]
        /\ scan' = [scan EXCEPT !.cur = {}]
        /\ UNCHANGED <<day, filesVars, ready, stops, vpsVars>>

\* The write fails: logged, and the next scan comes back to it.
FailSession ==
    /\ \E s \in scan.cur : s.step = "rad"
    /\ scan' = [scan EXCEPT !.cur = {}]
    /\ UNCHANGED <<day, filesVars, indexVars, stops, vpsVars>>

IndexerStops ==
    /\ scan.pc # "down" /\ stops < MaxStops
    /\ stops' = stops + 1
    /\ scan' = Down
    /\ UNCHANGED <<day, filesVars, indexVars, vpsVars>>

------------------------------------------------------------------------------
(* index_poller on the VPS; the station serves /api/detections-index.       *)

\* Faulty variant: a backed-off cycle forgets to count down.
SkipForever == skip

Countdown == skip - 1

\* A backed-off cycle takes the branch of a station that is not ready.
SkipCycle ==
    /\ poll = "idle" /\ skip > 0
    /\ skip' = Countdown
    /\ errors' = 0
    /\ UNCHANGED <<indexerVars, vps, ingested, synced, poll>>

\* first_contact or the rolling window.
Since == day - (IF synced THEN RepollDays ELSE BootstrapDays)

\* /api/detections-index: the rows since that night.
Served == {p \in Nights \X Keys : p[1] >= Since /\ index[p[1]][p[2]] # 0}

\* What the station answers is upserted.
Fetch ==
    /\ poll = "idle" /\ skip = 0 /\ ready
    /\ vps' = [n \in Nights |-> [k \in Keys |->
                 IF <<n, k>> \in Served THEN index[n][k] ELSE vps[n][k]]]
    /\ poll' = "upserted"
    /\ UNCHANGED <<indexerVars, ingested, synced, errors, skip>>

NotReady ==
    /\ poll = "idle" /\ skip = 0 /\ ~ready
    /\ errors' = 0
    /\ UNCHANGED <<indexerVars, vps, ingested, synced, poll, skip>>

SetPollState ==
    /\ poll = "upserted"
    /\ poll' = "idle"
    /\ errors' = 0
    /\ synced' = TRUE
    /\ UNCHANGED <<indexerVars, vps, ingested, skip>>

\* No answer, or detections.db is locked.  Bound: errors stop at MaxErrors.
PollFails ==
    /\ poll = "idle" /\ skip = 0
    /\ errors' = IF errors < MaxErrors THEN errors + 1 ELSE errors
    /\ skip' = IF errors + 1 >= MaxErrors THEN BackoffFactor ELSE 0
    /\ UNCHANGED <<indexerVars, vps, ingested, synced, poll>>

PollerStops ==
    /\ stops < MaxStops
    /\ stops' = stops + 1
    /\ poll' = "idle" /\ errors' = 0 /\ skip' = 0
    /\ UNCHANGED <<day, filesVars, indexVars, scan, vps, ingested, synced>>

\* bootstrap_index._scan_session on the archive's copy of a night.
Bootstrap(n) ==
    /\ copy[n].mtime \notin {0, ingested[n]}
    /\ vps' = Upserted(vps, n, Joined(copy[n].ftp, copy[n].rad), copy[n].mtime)
    /\ ingested' = [ingested EXCEPT ![n] = copy[n].mtime]
    /\ UNCHANGED <<indexerVars, synced, poll, errors, skip>>

------------------------------------------------------------------------------
Indexer ==
    \/ IndexerStart \/ StartScan \/ EndScan
    \/ \E n \in Nights : SkipSession(n) \/ OpenSession(n)
    \/ ReadFtp

Poller == SkipCycle \/ NotReady \/ SetPollState

Environment ==
    \/ NextDay
    \/ \E n \in Nights, ftp, rad \in SUBSET Meteors : RmsWrites(n, ftp, rad)
    \/ \E n \in Nights : Upload(n) \/ Bootstrap(n)

IndexNext ==
    \/ Indexer \/ WriteSession \/ FailSession \/ IndexerStops
    \/ Poller \/ Fetch \/ PollFails \/ PollerStops
    \/ Environment

\* Both services go on and are restarted; a write of the index succeeds now and then
\* (its 30 s of busy time-out), and so does a request to the station.
IndexFairness ==
    /\ WF_indexingVars(Indexer) /\ SF_indexingVars(WriteSession)
    /\ WF_indexingVars(Poller) /\ SF_indexingVars(Fetch)

IndexSpec == IndexInit /\ [][IndexNext]_indexingVars /\ IndexFairness

------------------------------------------------------------------------------
IndexTypeOK ==
    /\ day \in Nights /\ edits \in Versions /\ stops \in 0..MaxStops
    /\ rms \in [Nights -> Files] /\ copy \in [Nights -> Files]
    /\ index \in Rows /\ vps \in Rows /\ poll \in {"idle", "upserted"} /\ scan \in Scan
    /\ recorded \in [Nights -> Versions] /\ ingested \in [Nights -> Versions]
    /\ ready \in BOOLEAN /\ synced \in BOOLEAN
    /\ errors \in 0..MaxErrors /\ skip \in 0..BackoffFactor

\* A session whose files are not newer than its fingerprint is wholly in the index: every
\* detection of the files, as they are now.  The indexer reads the time stamp and the two
\* files at different moments, and RMS may write in between (_index_session).
RecordedIsIndexed ==
    \A n \in Nights :
        recorded[n] = rms[n].mtime =>
            \A k \in Joined(rms[n].ftp, rms[n].rad) : index[n][k] = rms[n].mtime

Arrived(n) == \A k \in Joined(rms[n].ftp, rms[n].rad) : vps[n][k] = rms[n].mtime

\* Again and again detections.db has every night of the rolling window as RMS left it:
\* corrections and late nights get through, whatever fails on the way (index_poller).
WindowArrives ==
    \A n \in Nights :
        []<>(Arrived(n) \/ n < day - RepollDays \/ n < day - HotDays)

==============================================================================
