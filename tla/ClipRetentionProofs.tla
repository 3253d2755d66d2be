------------------------ MODULE ClipRetentionProofs ------------------------
(***************************************************************************)
(* For any number of clips and of API threads: an uploaded flag means an   *)
(* archived clip, a confirmed meteor stays on the disk or is archived, and *)
(* the dawn process archives no raw clip.                                  *)
(***************************************************************************)
EXTENDS ClipRetention, TLAPS

\* What the properties need of the threads that are on their way.
MarksAreArchived ==
    /\ \A k \in Tasks : \A c, d \in task[k].clip : c = d
    /\ \A k \in Tasks : task[k].step = "mark" =>
          \A c \in task[k].clip \ unlocked : archive[c] # "none"
    /\ \A k \in Tasks : task[k].step \in {"rm", "unmark"} => task[k].clip \subseteq unlocked
    /\ pc = "mark" => \A c \in todo \ unlocked : archive[c] # "none"

\* A run that has renamed leaves no raw clip, and what is to be sent is not raw or
\* was asked for.
SendsAreEncoded ==
    /\ \A c \in Clips : reenc[c] => file[c] # "raw"
    /\ \A w \in Workers : \A e \in enc[w] : e.renamed => file[e.clip] # "raw"
    /\ pc = "upload" => \A c \in todo : file[c] # "raw"
    /\ \A k \in Tasks : task[k].step \in {"check", "encode", "send"} =>
          task[k].clip \subseteq asked

\* The detection pass unlocks no hit, and works on a young night.
PassSparesHits ==
    /\ confirmed \subseteq hits
    /\ pc = "confirm" => todo \subseteq hits
    /\ pc = "unlock" => todo \cap hits = {}
    /\ pc \in {"confirm", "unlock"} => age = "young"

\* Retention and disk pressure do not yet force a locked clip out.
Calm == age # "expired" /\ pressure \in {"none", "warn"}

ConfirmedAreLocked == Calm => \A c \in confirmed \ unlocked : Locked(c)

\* In a calm night a clip that is gone or chosen is archived: all of them while the
\* night is young, since one of them may still be confirmed, the confirmed ones later.
GoneIsArchived ==
    Calm => \A c \in Clips \ unlocked :
        (~OnDisk(c) \/ c \in victim) /\ (c \in confirmed \/ age = "young")
        => archive[c] # "none"

ClipInv ==
    /\ TypeOK
    /\ MarksAreArchived /\ UploadedIsArchived
    /\ SendsAreEncoded /\ RawOnlyOnRequest
    /\ PassSparesHits /\ ConfirmedAreLocked /\ GoneIsArchived

------------------------------------------------------------------------------
LEMMA StartRunType ==
    ASSUME TypeOK, NEW w \in Workers, NEW c \in Clips, StartRun(w, c)
    PROVE  enc' \in [Workers -> SUBSET Run]
<1>1. [clip |-> c, renamed |-> FALSE] \in Run
  BY DEF Run
<1> QED BY <1>1 DEF TypeOK, StartRun

\* A step keeps the types.
LEMMA TypeStep ==
    ASSUME TypeOK, [Next]_vars
    PROVE  TypeOK'
<1> USE DEF TypeOK, Workers, Contents, Locks, Steps, PCs, Ages, Levels, Run, Task
<1>1. ASSUME NEW k \in Tasks, NEW c \in Clips, ApiLock(k, c) PROVE TypeOK'
  BY <1>1 DEF ApiLock, Call, flagVars, apiVars, dawnVars, nightVars
<1>2. ASSUME NEW k \in Tasks, NEW c \in Clips, ApiUnlock(k, c) PROVE TypeOK'
  BY <1>2 DEF ApiUnlock, Call, flagVars, apiVars, dawnVars, nightVars
<1>3. CASE ApiStops
  BY <1>3 DEF ApiStops, Free, flagVars, apiVars, dawnVars, nightVars
<1>4. ASSUME NEW k \in Tasks, UploadEncoded(k) PROVE TypeOK'
  <2>1. enc' = [enc EXCEPT ![k] = {}] /\ task' = [task EXCEPT ![k].step = "send"]
    BY <1>4 DEF UploadEncoded, MarkReencoded, FailRun, Goto
  <2>2. reenc' \in [Clips -> BOOLEAN]
    BY <1>4 DEF UploadEncoded, MarkReencoded, FailRun, flagVars
  <2>3. enc' \in [Workers -> SUBSET Run] /\ task' \in [Tasks -> Task]
    BY <2>1
  <2> QED BY <1>4, <2>2, <2>3 DEF UploadEncoded, MarkReencoded, FailRun,
       flagVars, dawnVars, nightVars
<1>5. ASSUME NEW k \in Tasks, NEW c \in Clips, UploadCheck(k, c) PROVE TypeOK'
  <2>1. enc' \in [Workers -> SUBSET Run]
    BY <1>5, StartRunType DEF UploadCheck
  <2>2. task' \in [Tasks -> Task]
    BY <1>5 DEF UploadCheck, Goto
  <2> QED BY <1>5, <2>1, <2>2 DEF UploadCheck, flagVars, dawnVars, nightVars
<1>6. ASSUME NEW k \in Tasks, NEW c \in Clips, NEW arrived \in BOOLEAN, NEW ok \in BOOLEAN,
            UploadSend(k, c, arrived, ok)
      PROVE  TypeOK'
  BY <1>6 DEF UploadSend, OnDisk, Free, flagVars, apiVars, dawnVars, nightVars
<1>7. ASSUME NEW k \in Tasks, NEW c \in Clips, UploadMark(k, c) PROVE TypeOK'
  BY <1>7 DEF UploadMark, MarkUploaded, Free, flagVars, apiVars, dawnVars, nightVars
<1>8. ASSUME NEW k \in Tasks, NEW c \in Clips, DeleteUnmark(k, c) PROVE TypeOK'
  BY <1>8 DEF DeleteUnmark, Free, flagVars, apiVars, dawnVars, nightVars
<1>9. CASE DiskFills
  BY <1>9 DEF DiskFills, flagVars, apiVars, dawnVars, nightVars
<1>10. CASE NuclearWipesState
  BY <1>10 DEF NuclearWipesState, flagVars, apiVars, dawnVars, nightVars
<1>11. CASE DawnEncoded
  BY <1>11 DEF DawnEncoded, MarkReencoded, FailRun, flagVars, apiVars, dawnVars, nightVars
<1>12. ASSUME NEW c \in Clips, DawnEncode(c) PROVE TypeOK'
  <2>1. enc' \in [Workers -> SUBSET Run]
    BY <1>12, StartRunType DEF DawnEncode
  <2> QED BY <1>12, <2>1 DEF DawnEncode, Started, flagVars, apiVars, nightVars
<1>13. ASSUME NEW arrived \in SUBSET todo, NEW returned \in SUBSET todo,
            DawnUpload(arrived, returned)
      PROVE  TypeOK'
  BY <1>13 DEF DawnUpload, Phase, OnDisk, flagVars, apiVars, dawnVars, nightVars
<1>14. ASSUME NEW w \in Workers, FinishRun(w) PROVE TypeOK'
  <2>1. PICK e \in enc[w] : /\ file' = [file EXCEPT ![e.clip] = "enc"]
                            /\ enc' = [enc EXCEPT ![w] = {[e EXCEPT !.renamed = TRUE]}]
    BY <1>14 DEF FinishRun
  <2>2. e \in Run
    OBVIOUS
  <2>3. e.clip \in Clips /\ [e EXCEPT !.renamed = TRUE] \in Run
    BY <2>2
  <2>4. /\ file' \in [Clips -> Contents \cup {"gone"}]
        /\ enc' \in [Workers -> SUBSET Run]
    BY <2>1, <2>3
  <2> QED BY <1>14, <2>4 DEF FinishRun, flagVars, apiVars, dawnVars, nightVars
<1>15. ASSUME NEW k \in Tasks, NEW c \in Clips, NEW done \in BOOLEAN,
            DeleteRemote(k, c, done)
      PROVE  TypeOK'
  BY <1>15 DEF DeleteRemote, Goto, flagVars, apiVars, dawnVars, nightVars
<1>16. CASE DawnStart \/ FindFalse
  BY <1>16 DEF DawnStart, Phase, FindFalse, flagVars, apiVars, dawnVars, nightVars
<1>17. CASE PickLocked \/ ScanUploads
  BY <1>17 DEF PickLocked, Phase, ScanUploads, Pending, flagVars, apiVars, dawnVars,
     nightVars
<1>18. CASE StartBackfill \/ StartBulk
  BY <1>18 DEF StartBackfill, Phase, Pending, StartBulk, flagVars, apiVars, dawnVars,
     nightVars
<1>19. CASE DawnDone \/ DawnKilled
  BY <1>19 DEF DawnDone, Phase, DawnKilled, flagVars, apiVars, dawnVars, nightVars
<1>20. CASE SweepStale \/ GrowOld
  BY <1>20 DEF SweepStale, GrowOld, flagVars, apiVars, dawnVars, nightVars
<1>21. ASSUME NEW c \in Clips, Confirm(c) \/ RemoveFalse(c) PROVE TypeOK'
  BY <1>21 DEF Confirm, Started, RemoveFalse, flagVars, apiVars, dawnVars, nightVars
<1>22. ASSUME NEW c \in Clips, DawnMark(c) \/ JanitorPicks(c) PROVE TypeOK'
  BY <1>22 DEF DawnMark, Started, MarkUploaded, JanitorPicks, OnDisk, Outdated, PressedOut,
     flagVars, apiVars, dawnVars, nightVars
<1>23. ASSUME NEW c \in Clips, JanitorUnlinks(c) PROVE TypeOK'
  BY <1>23 DEF JanitorUnlinks, flagVars, apiVars, dawnVars, nightVars
<1>24. CASE UNCHANGED vars
  BY <1>24 DEF vars, flagVars, apiVars, dawnVars, nightVars
<1> HIDE DEF TypeOK, Workers, Contents, Locks, Steps, PCs, Ages, Levels, Run, Task
<1> QED BY <1>1, <1>2, <1>3, <1>4, <1>5, <1>6, <1>7, <1>8, <1>9, <1>10, <1>11, <1>12,
     <1>13, <1>14, <1>15, <1>16, <1>17, <1>18, <1>19, <1>20, <1>21, <1>22, <1>23, <1>24 DEF
     Next, Api, DawnProcess, Janitor

\* No flag is on its way without its archived clip.
LEMMA MarksStep ==
    ASSUME ClipInv, [Next]_vars
    PROVE  MarksAreArchived'
<1> USE DEF ClipInv, MarksAreArchived, TypeOK, Workers, Contents, Steps, PCs, Run, Task
<1>1. ASSUME NEW k \in Tasks, NEW c \in Clips, ApiLock(k, c) PROVE MarksAreArchived'
  BY <1>1 DEF ApiLock, Call, flagVars, apiVars, dawnVars, nightVars
<1>2. ASSUME NEW k \in Tasks, NEW c \in Clips, ApiUnlock(k, c) PROVE MarksAreArchived'
  BY <1>2 DEF ApiUnlock, Call, flagVars, apiVars, dawnVars, nightVars
<1>3. ASSUME NEW k \in Tasks, NEW c \in Clips, NEW arrived \in BOOLEAN, NEW ok \in BOOLEAN,
            UploadSend(k, c, arrived, ok)
      PROVE  MarksAreArchived'
  <2>1. /\ archive' \in [Clips -> Contents \cup {"none"}]
        /\ \A d \in Clips : archive[d] # "none" => archive'[d] # "none"
        /\ ok => archive'[c] # "none"
    BY <1>3 DEF UploadSend, OnDisk
  <2>2. c \in task[k].clip /\ task[k].clip = {c}
    BY <1>3 DEF UploadSend
  <2>3. /\ \A j \in Tasks \ {k} : task'[j] = task[j]
        /\ ok => task'[k].step = "mark" /\ task'[k].clip = {c}
        /\ ~ok => task'[k].step = "free"
    BY <1>3, <2>2 DEF UploadSend, Free
  <2>4. /\ \A j \in Tasks : task'[j].step = "mark" =>
             \A d \in task'[j].clip \ unlocked : archive'[d] # "none"
        /\ \A j \in Tasks : task'[j].step \in {"rm", "unmark"} =>
             task'[j].clip \subseteq unlocked
        /\ \A j \in Tasks : \A d, e \in task'[j].clip : d = e
    <3>1. CASE ok
      BY <2>1, <2>3, <3>1
    <3>2. CASE ~ok
      <4>1. task'[k].step = "free" /\ task'[k].clip = {}
        BY <1>3, <3>2 DEF UploadSend, Free
      <4> QED BY <2>1, <2>3, <4>1
    <3> QED BY <1>3, <3>1, <3>2
  <2>5. pc' = "mark" => \A d \in todo' \ unlocked : archive'[d] # "none"
    BY <1>3, <2>1 DEF UploadSend, dawnVars
  <2> QED BY <1>3, <2>4, <2>5 DEF UploadSend, dawnVars
<1>4. ASSUME NEW k \in Tasks, NEW c \in Clips, UploadMark(k, c) PROVE MarksAreArchived'
  BY <1>4 DEF UploadMark, MarkUploaded, Free, flagVars, apiVars, dawnVars, nightVars
<1>5. ASSUME NEW k \in Tasks, NEW c \in Clips, NEW done \in BOOLEAN,
            DeleteRemote(k, c, done)
      PROVE  MarksAreArchived'
  BY <1>5 DEF DeleteRemote, Goto, flagVars, apiVars, dawnVars, nightVars
<1>6. ASSUME NEW k \in Tasks, NEW c \in Clips, DeleteUnmark(k, c) PROVE MarksAreArchived'
  BY <1>6 DEF DeleteUnmark, Free, flagVars, apiVars, dawnVars, nightVars
<1>7. ASSUME NEW arrived \in SUBSET todo, NEW returned \in SUBSET todo,
            DawnUpload(arrived, returned)
      PROVE  MarksAreArchived'
  BY <1>7 DEF DawnUpload, Phase, OnDisk, flagVars, apiVars, dawnVars, nightVars
<1>8. ASSUME NEW c \in Clips, DawnMark(c) PROVE MarksAreArchived'
  BY <1>8 DEF DawnMark, Started, MarkUploaded, flagVars, apiVars, dawnVars, nightVars
<1>9. ASSUME NEW k \in Tasks, UploadEncoded(k) PROVE MarksAreArchived'
  BY <1>9 DEF UploadEncoded, MarkReencoded, FailRun, Goto, flagVars, apiVars, dawnVars,
     nightVars
<1>10. ASSUME NEW k \in Tasks, NEW c \in Clips, UploadCheck(k, c) PROVE MarksAreArchived'
  BY <1>10 DEF UploadCheck, StartRun, Goto, flagVars, apiVars, dawnVars, nightVars
<1>11. CASE ApiStops
           \/ DawnStart
           \/ FindFalse
           \/ PickLocked
           \/ DawnEncoded
           \/ ScanUploads
           \/ StartBackfill
           \/ StartBulk
           \/ DawnDone
  BY <1>11 DEF ApiStops, Free, DawnStart, Phase, FindFalse, PickLocked, DawnEncoded,
     MarkReencoded, FailRun, ScanUploads, Pending, StartBackfill, StartBulk, DawnDone, flagVars,
     apiVars, dawnVars, nightVars
<1>12. CASE DawnKilled \/ SweepStale \/ GrowOld \/ DiskFills \/ NuclearWipesState
  BY <1>12 DEF DawnKilled, Phase, SweepStale, GrowOld, DiskFills, NuclearWipesState,
     flagVars, apiVars, dawnVars, nightVars
<1>13. ASSUME NEW c \in Clips,
            Confirm(c) \/ RemoveFalse(c) \/ DawnEncode(c) \/ JanitorPicks(c) \/
            JanitorUnlinks(c)
      PROVE  MarksAreArchived'
  BY <1>13 DEF Confirm, Started, RemoveFalse, DawnEncode, StartRun, JanitorPicks, OnDisk,
     Outdated, PressedOut, JanitorUnlinks, flagVars, apiVars, dawnVars, nightVars
<1>14. ASSUME NEW w \in Workers, FinishRun(w) PROVE MarksAreArchived'
  BY <1>14 DEF FinishRun, flagVars, apiVars, dawnVars, nightVars
<1>15. CASE UNCHANGED vars
  BY <1>15 DEF vars, flagVars, apiVars, dawnVars, nightVars
<1> HIDE DEF ClipInv, MarksAreArchived, TypeOK, Workers, Contents, Steps, PCs, Run, Task
<1> QED BY <1>1, <1>2, <1>3, <1>4, <1>5, <1>6, <1>7, <1>8, <1>9, <1>10, <1>11, <1>12,
     <1>13, <1>14, <1>15 DEF Next, Api, DawnProcess, Janitor

\* A flag is set after the clip has arrived, and the copy goes only when a user unlocks the
\* clip.
LEMMA UploadedStep ==
    ASSUME ClipInv, [Next]_vars
    PROVE  UploadedIsArchived'
<1> USE DEF ClipInv, MarksAreArchived, UploadedIsArchived, TypeOK, Contents
<1>1. ASSUME NEW k \in Tasks, NEW c \in Clips, UploadMark(k, c) PROVE UploadedIsArchived'
  BY <1>1 DEF UploadMark, MarkUploaded, Free, flagVars, apiVars, dawnVars, nightVars
<1>2. ASSUME NEW k \in Tasks, NEW c \in Clips, NEW arrived \in BOOLEAN, NEW ok \in BOOLEAN,
            UploadSend(k, c, arrived, ok)
      PROVE  UploadedIsArchived'
  BY <1>2 DEF UploadSend, OnDisk, Free, flagVars, apiVars, dawnVars, nightVars
<1>3. ASSUME NEW k \in Tasks, NEW c \in Clips, NEW done \in BOOLEAN,
            DeleteRemote(k, c, done)
      PROVE  UploadedIsArchived'
  BY <1>3 DEF DeleteRemote, Goto, flagVars, apiVars, dawnVars, nightVars
<1>4. ASSUME NEW c \in Clips, DawnMark(c) PROVE UploadedIsArchived'
  BY <1>4 DEF DawnMark, Started, MarkUploaded, flagVars, apiVars, dawnVars, nightVars
<1>5. ASSUME NEW arrived \in SUBSET todo, NEW returned \in SUBSET todo,
            DawnUpload(arrived, returned)
      PROVE  UploadedIsArchived'
  BY <1>5 DEF DawnUpload, Phase, OnDisk, flagVars, apiVars, dawnVars, nightVars
<1>6. ASSUME NEW k \in Tasks, UploadEncoded(k) PROVE UploadedIsArchived'
  BY <1>6 DEF UploadEncoded, MarkReencoded, FailRun, Goto, flagVars, apiVars, dawnVars,
     nightVars
<1>7. ASSUME NEW k \in Tasks, NEW c \in Clips,
            ApiLock(k, c) \/ ApiUnlock(k, c) \/ UploadCheck(k, c) \/ DeleteUnmark(k, c)
      PROVE  UploadedIsArchived'
  BY <1>7 DEF ApiLock, Call, ApiUnlock, UploadCheck, StartRun, Goto, DeleteUnmark, Free,
     flagVars, apiVars, dawnVars, nightVars
<1>8. CASE ApiStops
           \/ DawnStart
           \/ FindFalse
           \/ PickLocked
           \/ DawnEncoded
           \/ ScanUploads
           \/ StartBackfill
           \/ StartBulk
           \/ DawnDone
  BY <1>8 DEF ApiStops, Free, DawnStart, Phase, FindFalse, PickLocked, DawnEncoded,
     MarkReencoded, FailRun, ScanUploads, Pending, StartBackfill, StartBulk, DawnDone, flagVars,
     apiVars, dawnVars, nightVars
<1>9. CASE DawnKilled \/ SweepStale \/ GrowOld \/ DiskFills \/ NuclearWipesState
  BY <1>9 DEF DawnKilled, Phase, SweepStale, GrowOld, DiskFills, NuclearWipesState,
     flagVars, apiVars, dawnVars, nightVars
<1>10. ASSUME NEW c \in Clips,
            Confirm(c) \/ RemoveFalse(c) \/ DawnEncode(c) \/ JanitorPicks(c) \/
            JanitorUnlinks(c)
      PROVE  UploadedIsArchived'
  BY <1>10 DEF Confirm, Started, RemoveFalse, DawnEncode, StartRun, JanitorPicks, OnDisk,
     Outdated, PressedOut, JanitorUnlinks, flagVars, apiVars, dawnVars, nightVars
<1>11. ASSUME NEW w \in Workers, FinishRun(w) PROVE UploadedIsArchived'
  BY <1>11 DEF FinishRun, flagVars, apiVars, dawnVars, nightVars
<1>12. CASE UNCHANGED vars
  BY <1>12 DEF vars, flagVars, apiVars, dawnVars, nightVars
<1> HIDE DEF ClipInv, MarksAreArchived, UploadedIsArchived, TypeOK, Contents
<1> QED BY <1>1, <1>2, <1>3, <1>4, <1>5, <1>6, <1>7, <1>8, <1>9, <1>10, <1>11, <1>12 DEF
     Next, Api, DawnProcess, Janitor

\* What is on its way to the archive is encoded or was asked for.
LEMMA SendsStep ==
    ASSUME ClipInv, [Next]_vars
    PROVE  SendsAreEncoded'
<1> USE DEF ClipInv, SendsAreEncoded, NothingToEncode, TypeOK, Workers, Contents, Steps,
       PCs, Run, Task
<1>1. ASSUME NEW k \in Tasks, UploadEncoded(k) PROVE SendsAreEncoded'
  <2>1. /\ enc' = [enc EXCEPT ![k] = {}] /\ task' = [task EXCEPT ![k].step = "send"]
        /\ \A c \in Clips : reenc'[c] => reenc[c] \/ \E e \in enc[k] : e.renamed /\ e.clip = c
    BY <1>1 DEF UploadEncoded, MarkReencoded, FailRun, Goto, flagVars
  <2>2. file' = file /\ pc' = pc /\ todo' = todo /\ asked' = asked /\ task[k].step = "encode"
    BY <1>1 DEF UploadEncoded, MarkReencoded, FailRun, dawnVars
  <2> QED BY <2>1, <2>2
<1>2. ASSUME NEW k \in Tasks, NEW c \in Clips, ApiLock(k, c) PROVE SendsAreEncoded'
  BY <1>2 DEF ApiLock, Call, flagVars, apiVars, dawnVars, nightVars
<1>3. CASE DawnEncoded
  BY <1>3 DEF DawnEncoded, MarkReencoded, FailRun, flagVars, apiVars, dawnVars, nightVars
<1>4. CASE ScanUploads
  BY <1>4 DEF ScanUploads, Phase, Pending, flagVars, apiVars, dawnVars, nightVars
<1>5. CASE StartBackfill
  BY <1>5 DEF StartBackfill, Phase, Pending, flagVars, apiVars, dawnVars, nightVars
<1>6. ASSUME NEW w \in Workers, FinishRun(w) PROVE SendsAreEncoded'
  BY <1>6 DEF FinishRun, flagVars, apiVars, dawnVars, nightVars
<1>7. ASSUME NEW k \in Tasks, NEW c \in Clips,
            ApiUnlock(k, c) \/ UploadCheck(k, c) \/ UploadMark(k, c) \/ DeleteUnmark(k, c)
      PROVE  SendsAreEncoded'
  BY <1>7 DEF ApiUnlock, Call, UploadCheck, StartRun, Goto, UploadMark, MarkUploaded, Free,
     DeleteUnmark, flagVars, apiVars, dawnVars, nightVars
<1>8. ASSUME NEW k \in Tasks, NEW c \in Clips, NEW arrived \in BOOLEAN, NEW ok \in BOOLEAN,
            UploadSend(k, c, arrived, ok)
      PROVE  SendsAreEncoded'
  BY <1>8 DEF UploadSend, OnDisk, Free, flagVars, apiVars, dawnVars, nightVars
<1>9. ASSUME NEW k \in Tasks, NEW c \in Clips, NEW done \in BOOLEAN,
            DeleteRemote(k, c, done)
      PROVE  SendsAreEncoded'
  BY <1>9 DEF DeleteRemote, Goto, flagVars, apiVars, dawnVars, nightVars
<1>10. CASE ApiStops
           \/ DawnStart
           \/ FindFalse
           \/ PickLocked
           \/ StartBulk
           \/ DawnDone
           \/ DawnKilled
           \/ SweepStale
           \/ GrowOld
  BY <1>10 DEF ApiStops, Free, DawnStart, Phase, FindFalse, PickLocked, StartBulk,
     DawnDone, DawnKilled, SweepStale, GrowOld, flagVars, apiVars, dawnVars, nightVars
<1>11. CASE DiskFills \/ NuclearWipesState
  BY <1>11 DEF DiskFills, NuclearWipesState, flagVars, apiVars, dawnVars, nightVars
<1>12. ASSUME NEW c \in Clips,
            Confirm(c) \/ RemoveFalse(c) \/ DawnEncode(c) \/ DawnMark(c) \/
            JanitorPicks(c) \/ JanitorUnlinks(c)
      PROVE  SendsAreEncoded'
  BY <1>12 DEF Confirm, Started, RemoveFalse, DawnEncode, StartRun, DawnMark, MarkUploaded,
     JanitorPicks, OnDisk, Outdated, PressedOut, JanitorUnlinks, flagVars, apiVars, dawnVars,
     nightVars
<1>13. ASSUME NEW arrived \in SUBSET todo, NEW returned \in SUBSET todo,
            DawnUpload(arrived, returned)
      PROVE  SendsAreEncoded'
  BY <1>13 DEF DawnUpload, Phase, OnDisk, flagVars, apiVars, dawnVars, nightVars
<1>14. CASE UNCHANGED vars
  BY <1>14 DEF vars, flagVars, apiVars, dawnVars, nightVars
<1> HIDE DEF ClipInv, SendsAreEncoded, NothingToEncode, TypeOK, Workers, Contents, Steps,
       PCs, Run, Task
<1> QED BY <1>1, <1>2, <1>3, <1>4, <1>5, <1>6, <1>7, <1>8, <1>9, <1>10, <1>11, <1>12,
     <1>13, <1>14 DEF Next, Api, DawnProcess, Janitor

\* What is sent raw was asked for.
LEMMA RawStep ==
    ASSUME ClipInv, [Next]_vars
    PROVE  RawOnlyOnRequest'
<1> USE DEF ClipInv, SendsAreEncoded, RawOnlyOnRequest, TypeOK
<1>1. ASSUME NEW k \in Tasks, NEW c \in Clips, NEW arrived \in BOOLEAN, NEW ok \in BOOLEAN,
            UploadSend(k, c, arrived, ok)
      PROVE  RawOnlyOnRequest'
  BY <1>1 DEF UploadSend, OnDisk, Free, flagVars, apiVars, dawnVars, nightVars
<1>2. ASSUME NEW arrived \in SUBSET todo, NEW returned \in SUBSET todo,
            DawnUpload(arrived, returned)
      PROVE  RawOnlyOnRequest'
  BY <1>2 DEF DawnUpload, Phase, OnDisk, flagVars, apiVars, dawnVars, nightVars
<1>3. ASSUME NEW k \in Tasks, NEW c \in Clips, ApiLock(k, c) PROVE RawOnlyOnRequest'
  BY <1>3 DEF ApiLock, Call, flagVars, apiVars, dawnVars, nightVars
<1>4. ASSUME NEW k \in Tasks, UploadEncoded(k) PROVE RawOnlyOnRequest'
  BY <1>4 DEF UploadEncoded, MarkReencoded, FailRun, Goto, flagVars, apiVars, dawnVars,
     nightVars
<1>5. ASSUME NEW k \in Tasks, NEW c \in Clips,
            ApiUnlock(k, c) \/ UploadCheck(k, c) \/ UploadMark(k, c) \/ DeleteUnmark(k, c)
      PROVE  RawOnlyOnRequest'
  BY <1>5 DEF ApiUnlock, Call, UploadCheck, StartRun, Goto, UploadMark, MarkUploaded, Free,
     DeleteUnmark, flagVars, apiVars, dawnVars, nightVars
<1>6. ASSUME NEW k \in Tasks, NEW c \in Clips, NEW done \in BOOLEAN,
            DeleteRemote(k, c, done)
      PROVE  RawOnlyOnRequest'
  BY <1>6 DEF DeleteRemote, Goto, flagVars, apiVars, dawnVars, nightVars
<1>7. CASE ApiStops
           \/ DawnStart
           \/ FindFalse
           \/ PickLocked
           \/ DawnEncoded
           \/ ScanUploads
           \/ StartBackfill
           \/ StartBulk
           \/ DawnDone
  BY <1>7 DEF ApiStops, Free, DawnStart, Phase, FindFalse, PickLocked, DawnEncoded,
     MarkReencoded, FailRun, ScanUploads, Pending, StartBackfill, StartBulk, DawnDone, flagVars,
     apiVars, dawnVars, nightVars
<1>8. CASE DawnKilled \/ SweepStale \/ GrowOld \/ DiskFills \/ NuclearWipesState
  BY <1>8 DEF DawnKilled, Phase, SweepStale, GrowOld, DiskFills, NuclearWipesState,
     flagVars, apiVars, dawnVars, nightVars
<1>9. ASSUME NEW c \in Clips,
            Confirm(c) \/ RemoveFalse(c) \/ DawnEncode(c) \/ DawnMark(c) \/
            JanitorPicks(c) \/ JanitorUnlinks(c)
      PROVE  RawOnlyOnRequest'
  BY <1>9 DEF Confirm, Started, RemoveFalse, DawnEncode, StartRun, DawnMark, MarkUploaded,
     JanitorPicks, OnDisk, Outdated, PressedOut, JanitorUnlinks, flagVars, apiVars, dawnVars,
     nightVars
<1>10. ASSUME NEW w \in Workers, FinishRun(w) PROVE RawOnlyOnRequest'
  BY <1>10 DEF FinishRun, flagVars, apiVars, dawnVars, nightVars
<1>11. CASE UNCHANGED vars
  BY <1>11 DEF vars, flagVars, apiVars, dawnVars, nightVars
<1> HIDE DEF ClipInv, SendsAreEncoded, RawOnlyOnRequest, TypeOK
<1> QED BY <1>1, <1>2, <1>3, <1>4, <1>5, <1>6, <1>7, <1>8, <1>9, <1>10, <1>11 DEF Next,
     Api, DawnProcess, Janitor

\* The detection pass takes the hits first, the other clips then, and the night does not age
\* meanwhile.
LEMMA PassStep ==
    ASSUME ClipInv, [Next]_vars
    PROVE  PassSparesHits'
<1> USE DEF ClipInv, PassSparesHits, TypeOK, PCs
<1>1. CASE DawnStart
  BY <1>1 DEF DawnStart, Phase, flagVars, apiVars, dawnVars, nightVars
<1>2. ASSUME NEW c \in Clips, Confirm(c) PROVE PassSparesHits'
  BY <1>2 DEF Confirm, Started, flagVars, apiVars, dawnVars, nightVars
<1>3. CASE FindFalse
  BY <1>3 DEF FindFalse, Phase, flagVars, apiVars, dawnVars, nightVars
<1>4. ASSUME NEW c \in Clips, RemoveFalse(c) PROVE PassSparesHits'
  BY <1>4 DEF RemoveFalse, Started, flagVars, apiVars, dawnVars, nightVars
<1>5. CASE GrowOld
  BY <1>5 DEF GrowOld, flagVars, apiVars, dawnVars, nightVars
<1>6. ASSUME NEW k \in Tasks, UploadEncoded(k) PROVE PassSparesHits'
  BY <1>6 DEF UploadEncoded, MarkReencoded, FailRun, Goto, flagVars, apiVars, dawnVars,
     nightVars
<1>7. ASSUME NEW k \in Tasks, NEW c \in Clips,
            ApiLock(k, c) \/ ApiUnlock(k, c) \/ UploadCheck(k, c) \/ UploadMark(k, c) \/
            DeleteUnmark(k, c)
      PROVE  PassSparesHits'
  BY <1>7 DEF ApiLock, Call, ApiUnlock, UploadCheck, StartRun, Goto, UploadMark,
     MarkUploaded, Free, DeleteUnmark, flagVars, apiVars, dawnVars, nightVars
<1>8. ASSUME NEW k \in Tasks, NEW c \in Clips, NEW arrived \in BOOLEAN, NEW ok \in BOOLEAN,
            UploadSend(k, c, arrived, ok)
      PROVE  PassSparesHits'
  BY <1>8 DEF UploadSend, OnDisk, Free, flagVars, apiVars, dawnVars, nightVars
<1>9. ASSUME NEW k \in Tasks, NEW c \in Clips, NEW done \in BOOLEAN,
            DeleteRemote(k, c, done)
      PROVE  PassSparesHits'
  BY <1>9 DEF DeleteRemote, Goto, flagVars, apiVars, dawnVars, nightVars
<1>10. CASE ApiStops
           \/ PickLocked
           \/ DawnEncoded
           \/ ScanUploads
           \/ StartBackfill
           \/ StartBulk
           \/ DawnDone
           \/ DawnKilled
           \/ SweepStale
  BY <1>10 DEF ApiStops, Free, PickLocked, Phase, DawnEncoded, MarkReencoded, FailRun,
     ScanUploads, Pending, StartBackfill, StartBulk, DawnDone, DawnKilled, SweepStale, flagVars,
     apiVars, dawnVars, nightVars
<1>11. CASE DiskFills \/ NuclearWipesState
  BY <1>11 DEF DiskFills, NuclearWipesState, flagVars, apiVars, dawnVars, nightVars
<1>12. ASSUME NEW c \in Clips,
            DawnEncode(c) \/ DawnMark(c) \/ JanitorPicks(c) \/ JanitorUnlinks(c)
      PROVE  PassSparesHits'
  BY <1>12 DEF DawnEncode, Started, StartRun, DawnMark, MarkUploaded, JanitorPicks, OnDisk,
     Outdated, PressedOut, JanitorUnlinks, flagVars, apiVars, dawnVars, nightVars
<1>13. ASSUME NEW arrived \in SUBSET todo, NEW returned \in SUBSET todo,
            DawnUpload(arrived, returned)
      PROVE  PassSparesHits'
  BY <1>13 DEF DawnUpload, Phase, OnDisk, flagVars, apiVars, dawnVars, nightVars
<1>14. ASSUME NEW w \in Workers, FinishRun(w) PROVE PassSparesHits'
  BY <1>14 DEF FinishRun, flagVars, apiVars, dawnVars, nightVars
<1>15. CASE UNCHANGED vars
  BY <1>15 DEF vars, flagVars, apiVars, dawnVars, nightVars
<1> HIDE DEF ClipInv, PassSparesHits, TypeOK, PCs
<1> QED BY <1>1, <1>2, <1>3, <1>4, <1>5, <1>6, <1>7, <1>8, <1>9, <1>10, <1>11, <1>12,
     <1>13, <1>14, <1>15 DEF Next, Api, DawnProcess, Janitor

\* In a calm night only the endpoint takes the lock of a confirmed clip.
LEMMA LockedStep ==
    ASSUME ClipInv, [Next]_vars
    PROVE  ConfirmedAreLocked'
<1> USE DEF ClipInv, PassSparesHits, ConfirmedAreLocked, Calm, Locked, TypeOK
<1>1. ASSUME NEW k \in Tasks, NEW c \in Clips, ApiLock(k, c) PROVE ConfirmedAreLocked'
  BY <1>1 DEF ApiLock, Call, flagVars, apiVars, dawnVars, nightVars
<1>2. ASSUME NEW k \in Tasks, NEW c \in Clips, ApiUnlock(k, c) PROVE ConfirmedAreLocked'
  BY <1>2 DEF ApiUnlock, Call, flagVars, apiVars, dawnVars, nightVars
<1>3. ASSUME NEW c \in Clips, Confirm(c) PROVE ConfirmedAreLocked'
  BY <1>3 DEF Confirm, Started, flagVars, apiVars, dawnVars, nightVars
<1>4. ASSUME NEW c \in Clips, RemoveFalse(c) PROVE ConfirmedAreLocked'
  BY <1>4 DEF RemoveFalse, Started, flagVars, apiVars, dawnVars, nightVars
<1>5. CASE SweepStale
  BY <1>5 DEF SweepStale, flagVars, apiVars, dawnVars, nightVars
<1>6. CASE NuclearWipesState
  BY <1>6 DEF NuclearWipesState, flagVars, apiVars, dawnVars, nightVars
<1>7. CASE GrowOld
  BY <1>7 DEF GrowOld, flagVars, apiVars, dawnVars, nightVars
<1>8. CASE DiskFills
  BY <1>8 DEF DiskFills, flagVars, apiVars, dawnVars, nightVars
<1>9. ASSUME NEW k \in Tasks, UploadEncoded(k) PROVE ConfirmedAreLocked'
  BY <1>9 DEF UploadEncoded, MarkReencoded, FailRun, Goto, flagVars, apiVars, dawnVars,
     nightVars
<1>10. ASSUME NEW k \in Tasks, NEW c \in Clips,
            UploadCheck(k, c) \/ UploadMark(k, c) \/ DeleteUnmark(k, c)
      PROVE  ConfirmedAreLocked'
  BY <1>10 DEF UploadCheck, StartRun, Goto, UploadMark, MarkUploaded, Free, DeleteUnmark,
     flagVars, apiVars, dawnVars, nightVars
<1>11. ASSUME NEW k \in Tasks, NEW c \in Clips, NEW arrived \in BOOLEAN, NEW ok \in BOOLEAN,
            UploadSend(k, c, arrived, ok)
      PROVE  ConfirmedAreLocked'
  BY <1>11 DEF UploadSend, OnDisk, Free, flagVars, apiVars, dawnVars, nightVars
<1>12. ASSUME NEW k \in Tasks, NEW c \in Clips, NEW done \in BOOLEAN,
            DeleteRemote(k, c, done)
      PROVE  ConfirmedAreLocked'
  BY <1>12 DEF DeleteRemote, Goto, flagVars, apiVars, dawnVars, nightVars
<1>13. CASE ApiStops
           \/ DawnStart
           \/ FindFalse
           \/ PickLocked
           \/ DawnEncoded
           \/ ScanUploads
           \/ StartBackfill
           \/ StartBulk
           \/ DawnDone
  BY <1>13 DEF ApiStops, Free, DawnStart, Phase, FindFalse, PickLocked, DawnEncoded,
     MarkReencoded, FailRun, ScanUploads, Pending, StartBackfill, StartBulk, DawnDone, flagVars,
     apiVars, dawnVars, nightVars
<1>14. CASE DawnKilled
  BY <1>14 DEF DawnKilled, Phase, flagVars, apiVars, dawnVars, nightVars
<1>15. ASSUME NEW c \in Clips,
            DawnEncode(c) \/ DawnMark(c) \/ JanitorPicks(c) \/ JanitorUnlinks(c)
      PROVE  ConfirmedAreLocked'
  BY <1>15 DEF DawnEncode, Started, StartRun, DawnMark, MarkUploaded, JanitorPicks, OnDisk,
     Outdated, PressedOut, JanitorUnlinks, flagVars, apiVars, dawnVars, nightVars
<1>16. ASSUME NEW arrived \in SUBSET todo, NEW returned \in SUBSET todo,
            DawnUpload(arrived, returned)
      PROVE  ConfirmedAreLocked'
  BY <1>16 DEF DawnUpload, Phase, OnDisk, flagVars, apiVars, dawnVars, nightVars
<1>17. ASSUME NEW w \in Workers, FinishRun(w) PROVE ConfirmedAreLocked'
  BY <1>17 DEF FinishRun, flagVars, apiVars, dawnVars, nightVars
<1>18. CASE UNCHANGED vars
  BY <1>18 DEF vars, flagVars, apiVars, dawnVars, nightVars
<1> HIDE DEF ClipInv, PassSparesHits, ConfirmedAreLocked, Calm, Locked, TypeOK
<1> QED BY <1>1, <1>2, <1>3, <1>4, <1>5, <1>6, <1>7, <1>8, <1>9, <1>10, <1>11, <1>12,
     <1>13, <1>14, <1>15, <1>16, <1>17, <1>18 DEF Next, Api, DawnProcess, Janitor

\* The janitor chooses an uploaded clip, or in an older night one that is not confirmed.
LEMMA GoneStep ==
    ASSUME ClipInv, [Next]_vars
    PROVE  GoneIsArchived'
<1> USE DEF ClipInv, PassSparesHits, UploadedIsArchived, ConfirmedAreLocked,
       GoneIsArchived, Calm, Locked, OnDisk, TypeOK, Contents
<1>1. ASSUME NEW k \in Tasks, NEW c \in Clips, ApiUnlock(k, c) PROVE GoneIsArchived'
  BY <1>1 DEF ApiUnlock, Call, flagVars, apiVars, dawnVars, nightVars
<1>2. ASSUME NEW k \in Tasks, NEW c \in Clips, NEW arrived \in BOOLEAN, NEW ok \in BOOLEAN,
            UploadSend(k, c, arrived, ok)
      PROVE  GoneIsArchived'
  BY <1>2 DEF UploadSend, OnDisk, Free, flagVars, apiVars, dawnVars, nightVars
<1>3. ASSUME NEW k \in Tasks, NEW c \in Clips, NEW done \in BOOLEAN,
            DeleteRemote(k, c, done)
      PROVE  GoneIsArchived'
  <2>1. c \in unlocked
    BY <1>3 DEF DeleteRemote, MarksAreArchived
  <2>2. \A d \in Clips \ {c} : archive'[d] = archive[d]
    BY <1>3 DEF DeleteRemote
  <2> QED BY <1>3, <2>1, <2>2 DEF DeleteRemote, flagVars, dawnVars, nightVars
<1>4. ASSUME NEW c \in Clips, Confirm(c) PROVE GoneIsArchived'
  BY <1>4 DEF Confirm, Started, flagVars, apiVars, dawnVars, nightVars
<1>5. ASSUME NEW arrived \in SUBSET todo, NEW returned \in SUBSET todo,
            DawnUpload(arrived, returned)
      PROVE  GoneIsArchived'
  BY <1>5 DEF DawnUpload, Phase, OnDisk, flagVars, apiVars, dawnVars, nightVars
<1>6. CASE GrowOld
  BY <1>6 DEF GrowOld, flagVars, apiVars, dawnVars, nightVars
<1>7. CASE DiskFills
  BY <1>7 DEF DiskFills, flagVars, apiVars, dawnVars, nightVars
<1>8. ASSUME NEW c \in Clips, JanitorPicks(c) PROVE GoneIsArchived'
  BY <1>8 DEF JanitorPicks, OnDisk, Outdated, PressedOut, flagVars, apiVars, dawnVars,
     nightVars
<1>9. ASSUME NEW c \in Clips, JanitorUnlinks(c) PROVE GoneIsArchived'
  BY <1>9 DEF JanitorUnlinks, flagVars, apiVars, dawnVars, nightVars
<1>10. ASSUME NEW w \in Workers, FinishRun(w) PROVE GoneIsArchived'
  BY <1>10 DEF FinishRun, flagVars, apiVars, dawnVars, nightVars
<1>11. ASSUME NEW k \in Tasks, UploadEncoded(k) PROVE GoneIsArchived'
  BY <1>11 DEF UploadEncoded, MarkReencoded, FailRun, Goto, flagVars, apiVars, dawnVars,
     nightVars
<1>12. ASSUME NEW k \in Tasks, NEW c \in Clips,
            ApiLock(k, c) \/ UploadCheck(k, c) \/ UploadMark(k, c) \/ DeleteUnmark(k, c)
      PROVE  GoneIsArchived'
  BY <1>12 DEF ApiLock, Call, UploadCheck, StartRun, Goto, UploadMark, MarkUploaded, Free,
     DeleteUnmark, flagVars, apiVars, dawnVars, nightVars
<1>13. CASE ApiStops
           \/ DawnStart
           \/ FindFalse
           \/ PickLocked
           \/ DawnEncoded
           \/ ScanUploads
           \/ StartBackfill
           \/ StartBulk
           \/ DawnDone
  BY <1>13 DEF ApiStops, Free, DawnStart, Phase, FindFalse, PickLocked, DawnEncoded,
     MarkReencoded, FailRun, ScanUploads, Pending, StartBackfill, StartBulk, DawnDone, flagVars,
     apiVars, dawnVars, nightVars
<1>14. CASE DawnKilled \/ SweepStale \/ NuclearWipesState
  BY <1>14 DEF DawnKilled, Phase, SweepStale, NuclearWipesState, flagVars, apiVars,
     dawnVars, nightVars
<1>15. ASSUME NEW c \in Clips,
            RemoveFalse(c) \/ DawnEncode(c) \/ DawnMark(c)
      PROVE  GoneIsArchived'
  BY <1>15 DEF RemoveFalse, Started, DawnEncode, StartRun, DawnMark, MarkUploaded,
     flagVars, apiVars, dawnVars, nightVars
<1>16. CASE UNCHANGED vars
  BY <1>16 DEF vars, flagVars, apiVars, dawnVars, nightVars
<1> HIDE DEF ClipInv, PassSparesHits, UploadedIsArchived, ConfirmedAreLocked,
       GoneIsArchived, Calm, Locked, OnDisk, TypeOK, Contents
<1> QED BY <1>1, <1>2, <1>3, <1>4, <1>5, <1>6, <1>7, <1>8, <1>9, <1>10, <1>11, <1>12,
     <1>13, <1>14, <1>15, <1>16 DEF Next, Api, DawnProcess, Janitor

------------------------------------------------------------------------------
LEMMA ClipInvInit == Init => ClipInv
<1> SUFFICES ASSUME Init PROVE ClipInv
  OBVIOUS
<1> USE DEF Init, Free
<1>1. TypeOK
  <2>1. Free \in Task
    BY DEF Steps, Task
  <2>2. task \in [Tasks -> Task]
    BY <2>1
  <2> QED BY <2>2 DEF TypeOK, Workers, Contents, Locks, PCs, Ages, Levels
<1>2. MarksAreArchived /\ UploadedIsArchived /\ RawOnlyOnRequest
  BY DEF MarksAreArchived, UploadedIsArchived, RawOnlyOnRequest
<1>3. SendsAreEncoded
  BY DEF SendsAreEncoded, Workers
<1>4. PassSparesHits /\ ConfirmedAreLocked /\ GoneIsArchived
  BY DEF PassSparesHits, ConfirmedAreLocked, GoneIsArchived, OnDisk
<1> QED BY <1>1, <1>2, <1>3, <1>4 DEF ClipInv

LEMMA ClipInvStep == ClipInv /\ [Next]_vars => ClipInv'
BY TypeStep, MarksStep, UploadedStep, SendsStep, RawStep, PassStep, LockedStep, GoneStep
   DEF ClipInv

\* Whatever fails, repeats or is killed in between, an uploaded flag means that the
\* archive has the clip, unless a user has unlocked it (archive_upload, janitor level 1).
THEOREM UploadedClipsAreArchived == Spec => []UploadedIsArchived
<1>1. ClipInv => UploadedIsArchived
  BY DEF ClipInv
<1> QED BY ClipInvInit, ClipInvStep, <1>1, PTL DEF Spec

\* A clip that the detection pass has locked leaves the disk before the end of its
\* retention and below the nuclear level only when the archive has it.
THEOREM ConfirmedMeteorsAreKept == Spec => []MeteorKept
<1>1. ClipInv => MeteorKept
  BY DEF ClipInv, MeteorKept, GoneIsArchived, Calm, TypeOK
<1> QED BY ClipInvInit, ClipInvStep, <1>1, PTL DEF Spec

\* Only an upload asked for by a user sends a clip that is not encoded.
THEOREM RawIsAskedFor == Spec => []RawOnlyOnRequest
<1>1. ClipInv => RawOnlyOnRequest
  BY DEF ClipInv
<1> QED BY ClipInvInit, ClipInvStep, <1>1, PTL DEF Spec

\* Clips, flags, runs and threads keep to their types.
THEOREM ClipTypeCorrect == Spec => []TypeOK
<1>1. ClipInv => TypeOK
  BY DEF ClipInv
<1> QED BY ClipInvInit, ClipInvStep, <1>1, PTL DEF Spec

==============================================================================
