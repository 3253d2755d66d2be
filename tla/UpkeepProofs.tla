---------------------------- MODULE UpkeepProofs ----------------------------
(***************************************************************************)
(* The jobs and pollers among the parts of Stores: for each the inductive  *)
(* invariant behind what it promises, that it holds at the start and that  *)
(* every step of the part keeps it.                                        *)
(***************************************************************************)
EXTENDS Stores, FiniteSetTheorems, WellFoundedInduction, TLAPS

\* A set of numbers that is not empty has a least one.
LEMMA LeastOf ==
    ASSUME NEW ns \in SUBSET Nat, ns # {}
    PROVE  \E d \in ns : \A e \in ns : d <= e
<1>. DEFINE Less == {pair \in Nat \X Nat : pair[1] < pair[2]}
<1>1. IsWellFoundedOn(Less, Nat)
  BY NatLessThanWellFounded DEF OpToRel
<1>2. \E d \in ns : \A e \in ns : ~(<<e, d>> \in Less)
  <2>. HIDE DEF Less
  <2>. QED  BY <1>1, WFMin
<1>3. PICK d \in ns : \A e \in ns : ~(<<e, d>> \in Less)
  BY <1>2
<1>4. ASSUME NEW e \in ns PROVE d <= e
  <2>1. <<e, d>> \in Nat \X Nat
    OBVIOUS
  <2>. QED  BY <1>3, <2>1
<1>. QED  BY <1>4

------------------------------------------------------------------------------
(* StationUpdate: the scripts of a station are whole, or a run of the       *)
(* updater keeps a whole copy.                                              *)

\* A copy of the scripts that is whole, with every setting that was acknowledged.
Good(scripts) ==
    /\ scripts # Update!Gone /\ scripts.code = scripts.version
    /\ accepted \subseteq scripts.settings

\* Where the whole copy is while a run is at a step.
Keeps(r) ==
    /\ run[r].step \notin {"syncing", "restore"} => Good(dir)
    /\ run[r].step = "syncing" => dir # Update!Gone /\ accepted \subseteq dir.settings
    /\ run[r].step = "restore" => dir = Update!Gone
    /\ run[r].step = "swap" => Good(bakNew)
    /\ run[r].step # "swap" => bakNew = Update!Gone
    /\ run[r].step \in {"sync", "syncing", "restore"} => Good(bak)
    /\ run[r].step \in {"synced", "migrate"} => dir.code # Update!None
    /\ run[r].step = "migrate" => accepted \subseteq run[r].read

\* One run at a time, as long as there was no trouble or it has been repaired.
UpdateIsWhole ==
    /\ \A r, s \in UpdaterRuns : ~Update!At(r, "idle") /\ ~Update!At(s, "idle") => r = s
    /\ \A r \in UpdaterRuns : ~Update!At(r, "idle") => Keeps(r) /\ (patch.step = "write" => ~patch.apart)
    /\ ~Update!Running => Good(dir) /\ bakNew = Update!Gone
    /\ patch.step = "write" => accepted \subseteq patch.settings
    /\ Update!LoadedWhole

UpdateInv ==
    /\ Update!UpdateTypeOK
    /\ Update!Active("rovimen-station-api") \/ patch.step = "idle"
    /\ ~torn => UpdateIsWhole

LEMMA UpdateInvInit == ASSUME Update!UpdateInit PROVE UpdateInv
<1>1. Update!UpdateTypeOK
  <2>1. 0 \in Update!Versions /\ 0 \in 0..MaxTroubles
    BY UpdateAssumption DEF Update!Versions
  <2>. QED  BY <2>1 DEF Update!UpdateInit, Update!UpdateTypeOK, Update!Whole, Update!Gone, Update!Dirs,
                        Update!NoRun, Update!NoPatch, Update!RunSteps,
                        Update!RunStates, Update!PatchStates, Update!ServiceStates
<1>2. ~Update!Running /\ Good(dir) /\ bakNew = Update!Gone
  BY DEF Update!UpdateInit, Update!Running, Update!At, Update!NoRun, Good, Update!Whole, Update!Gone, Update!None
<1>. QED
  BY <1>1, <1>2 DEF UpdateInv, UpdateIsWhole, Update!UpdateInit, Update!NoPatch, Update!LoadedWhole,
                    Update!Mixed, Update!Running, Update!At, Update!Services, Update!Active, Update!None

\* A run goes on; the others stay where they are.
LEMMA RunGoes ==
    ASSUME Update!UpdateTypeOK, NEW r \in UpdaterRuns, NEW s \in Update!RunSteps, Update!Goto(r, s)
    PROVE  /\ run' \in [UpdaterRuns -> Update!RunStates]
           /\ run'[r].step = s /\ run'[r].read = run[r].read
           /\ \A q \in UpdaterRuns : q # r => run'[q] = run[q]
BY DEF Update!UpdateTypeOK, Update!Goto, Update!RunStates

LEMMA RunEnds ==
    ASSUME Update!UpdateTypeOK, NEW r \in UpdaterRuns, Update!Ends(r)
    PROVE  /\ run' \in [UpdaterRuns -> Update!RunStates]
           /\ run'[r].step = "idle"
           /\ \A q \in UpdaterRuns : q # r => run'[q] = run[q]
BY DEF Update!UpdateTypeOK, Update!Ends, Update!NoRun, Update!RunSteps, Update!RunStates

\* Parts of a copy, and copies of which a part is changed.
LEMMA DirsParts ==
    ASSUME NEW d \in Update!Dirs
    PROVE  /\ d.version \in Update!Versions \cup {Update!None}
           /\ d.code \in Update!Versions \cup {Update!Mixed, Update!None}
           /\ d.schema \in Update!Versions \cup {Update!None}
           /\ d.settings \in SUBSET Update!PatchIds
           /\ [d EXCEPT !.code = Update!Mixed] \in Update!Dirs
BY DEF Update!Dirs

LEMMA DirsCode ==
    ASSUME NEW d \in Update!Dirs, NEW v \in Update!Versions \cup {Update!None},
           NEW c \in Update!Versions \cup {Update!Mixed, Update!None}
    PROVE  LET e == [d EXCEPT !.version = v, !.code = c] IN
           e \in Update!Dirs /\ e.version = v /\ e.code = c /\ e.settings = d.settings
BY DEF Update!Dirs

LEMMA DirsSettings ==
    ASSUME NEW d \in Update!Dirs, NEW s \in SUBSET Update!PatchIds,
           NEW v \in Update!Versions \cup {Update!None}
    PROVE  LET e == [d EXCEPT !.settings = s, !.schema = v] IN
           e \in Update!Dirs /\ e.version = d.version /\ e.code = d.code /\ e.settings = s
BY DEF Update!Dirs

LEMMA GoneType == Update!Gone \in Update!Dirs /\ Update!NoPatch \in Update!PatchStates
BY DEF Update!Gone, Update!Dirs, Update!NoPatch, Update!PatchStates

LEMMA PartialType == ASSUME Update!UpdateTypeOK PROVE Update!Partial \subseteq Update!Dirs
BY GoneType, DirsParts DEF Update!UpdateTypeOK, Update!Partial

LEMMA RestartedType ==
    ASSUME Update!UpdateTypeOK, NEW s \in Update!Services
    PROVE  Update!Restarted(s) \in [Update!Services -> Update!ServiceStates]
<1>1. dir.code \in Update!Versions \cup {Update!Mixed, Update!None}
  BY DirsParts DEF Update!UpdateTypeOK
<1>. QED  BY <1>1 DEF Update!UpdateTypeOK, Update!Restarted, Update!ServiceStates

LEMMA TroubleType ==
    ASSUME Update!UpdateTypeOK, Update!Trouble \/ Update!NoTrouble
    PROVE  mishaps' \in 0..MaxTroubles /\ torn' \in BOOLEAN
<1>1. CASE Update!Trouble
  <2>1. mishaps \in 0..MaxTroubles /\ mishaps < MaxTroubles /\ mishaps' = mishaps + 1 /\ torn' = TRUE
    BY <1>1 DEF Update!Trouble, Update!UpdateTypeOK
  <2>. QED  BY <2>1, UpdateAssumption
<1>2. CASE Update!NoTrouble
  BY <1>2 DEF Update!NoTrouble, Update!UpdateTypeOK
<1>. QED  BY <1>1, <1>2

\* No version is the mark of a mixture, or of nothing.
LEMMA VersionsApart ==
    /\ Update!Mixed \notin Update!Versions /\ Update!None \notin Update!Versions
    /\ Update!Mixed # Update!None
BY UpdateAssumption DEF Update!Mixed, Update!None, Update!Versions

LEMMA UpdateTypeStep == ASSUME Update!UpdateTypeOK, Update!UpdateNext PROVE Update!UpdateTypeOK'
<1>1. ASSUME Update!Publish PROVE Update!UpdateTypeOK'
  <2>1. bundle' \in Update!Versions
    BY <1>1, UpdateAssumption DEF Update!Publish, Update!UpdateTypeOK, Update!Versions
  <2>2. Update!Trouble \/ Update!NoTrouble
    BY <1>1 DEF Update!Publish
  <2>. QED  BY TroubleType, <1>1, <2>1, <2>2 DEF Update!Publish, Update!UpdateTypeOK
<1>2. ASSUME NEW r \in UpdaterRuns, Update!Begin(r) PROVE Update!UpdateTypeOK'
  <2>1. run' \in [UpdaterRuns -> Update!RunStates]
    <3>1. PICK c \in {FALSE, Update!Active("color-capture")} :
                 run' = [run EXCEPT ![r] = [step |-> "backup", capturing |-> c, read |-> {}]]
      BY <1>2 DEF Update!Begin
    <3>2. [step |-> "backup", capturing |-> c, read |-> {}] \in Update!RunStates
      BY DEF Update!Active, Update!RunStates, Update!RunSteps
    <3>. QED  BY <3>1, <3>2 DEF Update!UpdateTypeOK
  <2>2. patch' \in Update!PatchStates
    BY <1>2 DEF Update!Begin, Update!UpdateTypeOK, Update!PatchStates
  <2>3. Update!Trouble \/ Update!NoTrouble
    BY <1>2 DEF Update!Begin
  <2>. QED  BY TroubleType, <1>2, <2>1, <2>2, <2>3 DEF Update!Begin, Update!UpdateTypeOK
<1>3. ASSUME NEW r \in UpdaterRuns, Update!BackUp(r) PROVE Update!UpdateTypeOK'
  BY <1>3, RunGoes DEF Update!BackUp, Update!UpdateTypeOK, Update!RunSteps
<1>4. ASSUME NEW r \in UpdaterRuns, Update!Swap(r) PROVE Update!UpdateTypeOK'
  <2>1. run' \in [UpdaterRuns -> Update!RunStates]
    BY <1>4, RunGoes, RunEnds DEF Update!Swap, Update!RunSteps
  <2>. QED  BY <1>4, <2>1, GoneType DEF Update!Swap, Update!UpdateTypeOK
<1>5. ASSUME NEW r \in UpdaterRuns, Update!RsyncPart(r) PROVE Update!UpdateTypeOK'
  <2>1. run' \in [UpdaterRuns -> Update!RunStates]
    BY <1>5, RunGoes DEF Update!RsyncPart, Update!RunSteps
  <2>2. dir' \in Update!Dirs
    <3>1. PICK v \in {dir.version, bundle} : dir' = [dir EXCEPT !.version = v, !.code = Update!Mixed]
      BY <1>5 DEF Update!RsyncPart
    <3>2. v \in Update!Versions \cup {Update!None} /\ dir \in Update!Dirs
      BY DirsParts DEF Update!UpdateTypeOK
    <3>. QED  BY <3>1, <3>2, DirsCode
  <2>. QED  BY <1>5, <2>1, <2>2 DEF Update!RsyncPart, Update!UpdateTypeOK
<1>6. ASSUME NEW r \in UpdaterRuns, Update!RsyncDone(r) PROVE Update!UpdateTypeOK'
  <2>1. run' \in [UpdaterRuns -> Update!RunStates]
    BY <1>6, RunGoes DEF Update!RsyncDone, Update!RunSteps
  <2>2. dir' \in Update!Dirs
    <3>1. PICK c \in {bundle} \cup (IF torn THEN {Update!Mixed} ELSE {}) :
                 dir' = [dir EXCEPT !.version = bundle, !.code = c]
      BY <1>6 DEF Update!RsyncDone
    <3>2. /\ c \in Update!Versions \cup {Update!Mixed, Update!None}
          /\ bundle \in Update!Versions \cup {Update!None} /\ dir \in Update!Dirs
      BY DEF Update!UpdateTypeOK
    <3>. QED  BY <3>1, <3>2, DirsCode
  <2>. QED  BY <1>6, <2>1, <2>2 DEF Update!RsyncDone, Update!UpdateTypeOK
<1>7. ASSUME NEW r \in UpdaterRuns, Update!RsyncFails(r) PROVE Update!UpdateTypeOK'
  BY <1>7, RunGoes, GoneType DEF Update!RsyncFails, Update!UpdateTypeOK, Update!RunSteps, Update!Cleared
<1>8. ASSUME NEW r \in UpdaterRuns, Update!Restore(r) PROVE Update!UpdateTypeOK'
  BY <1>8, RunEnds, GoneType DEF Update!Restore, Update!UpdateTypeOK
<1>9. ASSUME NEW r \in UpdaterRuns, Update!MigrateRead(r) PROVE Update!UpdateTypeOK'
  <2>1. dir.settings \in SUBSET Update!PatchIds
    BY DirsParts DEF Update!UpdateTypeOK
  <2>2. run' \in [UpdaterRuns -> Update!RunStates]
    BY <1>9, <2>1 DEF Update!MigrateRead, Update!UpdateTypeOK, Update!RunStates, Update!RunSteps
  <2>. QED  BY <1>9, <2>2 DEF Update!MigrateRead, Update!UpdateTypeOK
<1>10. ASSUME NEW r \in UpdaterRuns, Update!MigrateWrite(r) PROVE Update!UpdateTypeOK'
  <2>1. run' \in [UpdaterRuns -> Update!RunStates]
    BY <1>10, RunGoes DEF Update!MigrateWrite, Update!RunSteps
  <2>2. run[r].read \in SUBSET Update!PatchIds /\ dir.version \in Update!Versions \cup {Update!None}
    BY DirsParts DEF Update!UpdateTypeOK, Update!RunStates
  <2>3. dir' \in Update!Dirs
    BY <1>10, <2>2, GoneType, DirsSettings DEF Update!MigrateWrite, Update!UpdateTypeOK, Update!Merged
  <2>. QED  BY <1>10, <2>1, <2>3 DEF Update!MigrateWrite, Update!UpdateTypeOK
<1>11. ASSUME NEW r \in UpdaterRuns, Update!RestartCapture(r) PROVE Update!UpdateTypeOK'
  <2>1. run' \in [UpdaterRuns -> Update!RunStates]
    BY <1>11, RunGoes DEF Update!RestartCapture, Update!RunSteps
  <2>2. service' \in [Update!Services -> Update!ServiceStates]
    BY <1>11, RestartedType DEF Update!RestartCapture, Update!UpdateTypeOK, Update!Services
  <2>. QED  BY <1>11, <2>1, <2>2 DEF Update!RestartCapture, Update!UpdateTypeOK
<1>12. ASSUME NEW r \in UpdaterRuns, Update!RestartApi(r) PROVE Update!UpdateTypeOK'
  <2>1. run' \in [UpdaterRuns -> Update!RunStates]
    BY <1>12 DEF Update!RestartApi, Update!UpdateTypeOK, Update!RunStates, Update!RunSteps, Update!NoRun
  <2>2. service' \in [Update!Services -> Update!ServiceStates]
    BY <1>12, RestartedType DEF Update!RestartApi, Update!UpdateTypeOK, Update!Services
  <2>3. patch' \in {patch, Update!NoPatch} /\ accepted' \subseteq accepted /\ torn' \in BOOLEAN
    BY <1>12 DEF Update!RestartApi, Update!UpdateTypeOK
  <2>. QED  BY GoneType, <1>12, <2>1, <2>2, <2>3 DEF Update!RestartApi, Update!UpdateTypeOK
<1>13. ASSUME NEW r \in UpdaterRuns, Update!Kill(r) PROVE Update!UpdateTypeOK'
  <2>1. bakNew' \in Update!Dirs
    BY <1>13, PartialType DEF Update!Kill
  <2>. QED  BY <1>13, <2>1, RunEnds, TroubleType DEF Update!Kill, Update!UpdateTypeOK
<1>14. ASSUME Update!PatchRead PROVE Update!UpdateTypeOK'
  <2>1. patch' \in Update!PatchStates
    BY <1>14, DirsParts DEF Update!PatchRead, Update!UpdateTypeOK, Update!Running, Update!PatchStates
  <2>. QED  BY <1>14, <2>1 DEF Update!PatchRead, Update!UpdateTypeOK
<1>15. ASSUME NEW k \in Update!PatchIds, Update!PatchWrite(k) PROVE Update!UpdateTypeOK'
  <2>1. patch.settings \cup {k} \in SUBSET Update!PatchIds /\ patch.schema \in Update!Versions \cup {Update!None}
    BY DEF Update!UpdateTypeOK, Update!PatchStates
  <2>2. dir' \in Update!Dirs
    BY <1>15, <2>1, GoneType, DirsSettings DEF Update!PatchWrite, Update!UpdateTypeOK
  <2>. QED  BY GoneType, <1>15, <2>2 DEF Update!PatchWrite, Update!UpdateTypeOK
<1>16. ASSUME NEW s \in Update!Services, Update!OperatorRestarts(s) PROVE Update!UpdateTypeOK'
  <2>1. service' \in [Update!Services -> Update!ServiceStates]
    BY <1>16, RestartedType DEF Update!OperatorRestarts
  <2>2. run' \in [UpdaterRuns -> Update!RunStates]
    <3>1. run' = run \/ run' = [run EXCEPT !["api"] = Update!NoRun]
      BY <1>16 DEF Update!OperatorRestarts
    <3>2. Update!NoRun \in Update!RunStates
      BY DEF Update!NoRun, Update!RunStates, Update!RunSteps
    <3>. QED  BY <3>1, <3>2 DEF Update!UpdateTypeOK
  <2>3. patch' \in {patch, Update!NoPatch}
    BY <1>16 DEF Update!OperatorRestarts
  <2>4. Update!Trouble \/ Update!NoTrouble
    BY <1>16 DEF Update!OperatorRestarts
  <2>. QED  BY TroubleType, GoneType, <1>16, <2>1, <2>2, <2>3, <2>4 DEF Update!OperatorRestarts, Update!UpdateTypeOK
<1>17. ASSUME NEW on \in BOOLEAN, Update!Toggle(on) PROVE Update!UpdateTypeOK'
  <2>1. service' \in [Update!Services -> Update!ServiceStates]
    BY <1>17, DirsParts DEF Update!Toggle, Update!UpdateTypeOK, Update!ServiceStates
  <2>2. Update!Trouble \/ Update!NoTrouble
    BY <1>17 DEF Update!Toggle
  <2>. QED  BY TroubleType, <1>17, <2>1, <2>2 DEF Update!Toggle, Update!UpdateTypeOK
<1>18. ASSUME Update!Reboot PROVE Update!UpdateTypeOK'
  <2>1. service' \in [Update!Services -> Update!ServiceStates]
    BY <1>18, DirsParts DEF Update!Reboot, Update!UpdateTypeOK, Update!ServiceStates
  <2>2. run' \in [UpdaterRuns -> Update!RunStates]
    BY <1>18 DEF Update!Reboot, Update!UpdateTypeOK, Update!NoRun, Update!RunStates, Update!RunSteps
  <2>3. bakNew' \in Update!Dirs
    BY <1>18, PartialType DEF Update!Reboot
  <2>4. Update!Trouble \/ Update!NoTrouble
    BY <1>18 DEF Update!Reboot
  <2>. QED  BY TroubleType, GoneType, <1>18, <2>1, <2>2, <2>3, <2>4 DEF Update!Reboot, Update!UpdateTypeOK
<1>. QED
  BY <1>1, <1>2, <1>3, <1>4, <1>5, <1>6, <1>7, <1>8, <1>9, <1>10, <1>11, <1>12, <1>13, <1>14, <1>15, <1>16,
     <1>17, <1>18 DEF Update!UpdateNext, Update!UpdaterStep

\* Trouble is what it takes to leave the copies apart: the steps taken without it keep them.
LEMMA UpdateWholeStep ==
    ASSUME UpdateInv, Update!UpdateNext, ~torn' PROVE UpdateIsWhole'
<1>. USE DEF Update!At
<1>. Update!UpdateTypeOK /\ Update!UpdateTypeOK'
  BY UpdateTypeStep DEF UpdateInv
<1>1. CASE torn
  <2>1. PICK r \in UpdaterRuns : Update!RestartApi(r)
    BY <1>1 DEF Update!UpdateNext, Update!UpdaterStep, Update!Publish, Update!Begin, Update!BackUp, Update!Swap,
         Update!RsyncPart, Update!RsyncDone, Update!RsyncFails, Update!Restore, Update!MigrateRead,
         Update!MigrateWrite, Update!RestartCapture, Update!Kill, Update!PatchRead, Update!PatchWrite,
         Update!OperatorRestarts, Update!Toggle, Update!Reboot, Update!Trouble, Update!NoTrouble
  <2>2. /\ dir # Update!Gone /\ bakNew = Update!Gone /\ dir.code = dir.version
        /\ \A other \in UpdaterRuns \ {r} : run[other].step = "idle"
        /\ service["color-capture"].loaded # Update!Mixed
        /\ accepted' = accepted \cap dir.settings
        /\ UNCHANGED <<bundle, dir, bak, bakNew, mishaps>>
    BY <1>1, <2>1 DEF Update!RestartApi
  <2>3. \A q \in UpdaterRuns : run'[q].step = "idle"
    BY <2>1, <2>2 DEF Update!RestartApi, Update!NoRun
  <2>4. dir.version # Update!Mixed
    BY VersionsApart, DirsParts DEF Update!UpdateTypeOK
  <2>5. Update!LoadedWhole' /\ patch'.step = "idle"
    BY <2>1, <2>2, <2>4, VersionsApart
       DEF Update!RestartApi, Update!LoadedWhole, Update!Services, Update!Restarted, Update!Active,
           UpdateInv, Update!NoPatch, Update!UpdateTypeOK, Update!ServiceStates
  <2>. QED  BY <2>2, <2>3, <2>5 DEF UpdateIsWhole, Good, Update!Running
<1>2. CASE ~torn
  <2>. UpdateIsWhole
    BY <1>2 DEF UpdateInv
  <2>1. ASSUME Update!Publish PROVE UpdateIsWhole'
    <3>1. ~Update!Running
      BY <2>1 DEF Update!Publish, Update!Trouble
    <3>. QED  BY <2>1, <3>1 DEF Update!Publish, UpdateIsWhole, Good, Update!Running, Update!LoadedWhole
  <2>2. ASSUME NEW r \in UpdaterRuns, Update!Begin(r) PROVE UpdateIsWhole'
    <3>1. ~Update!Running
      BY <2>2 DEF Update!Begin, Update!Trouble
    <3>2. /\ run'[r].step = "backup"
          /\ \A q \in UpdaterRuns : q # r => run'[q] = run[q]
      BY <2>2 DEF Update!Begin, Update!UpdateTypeOK
    <3>3. ~patch'.apart /\ patch'.step = patch.step /\ patch'.settings = patch.settings
      BY <2>2 DEF Update!Begin, Update!UpdateTypeOK, Update!PatchStates
    <3>4. UNCHANGED <<dir, bak, bakNew, service, accepted>>
      BY <2>2 DEF Update!Begin
    <3>. QED  BY <3>1, <3>2, <3>3, <3>4 DEF UpdateIsWhole, Keeps, Good, Update!Running, Update!LoadedWhole
  <2>. DEFINE Sole(r) == /\ \A q \in UpdaterRuns : q # r => run[q].step = "idle" /\ run'[q] = run[q]
                         /\ patch' = patch /\ accepted' = accepted /\ (patch.step = "write" => ~patch.apart)
  <2>3. ASSUME NEW r \in UpdaterRuns, Sole(r), Keeps(r)', Update!LoadedWhole',
               ~Update!At(r, "idle"), run'[r].step = "idle" => Good(dir)'
        PROVE  UpdateIsWhole'
    BY <2>3 DEF UpdateIsWhole, Update!Running, Keeps
  <2>4. ASSUME NEW r \in UpdaterRuns, ~Update!At(r, "idle"), patch' = patch, accepted' = accepted,
               Update!Ends(r) \/ \E s \in Update!RunSteps : Update!Goto(r, s)
        PROVE  Sole(r)
    BY <2>4, RunGoes, RunEnds DEF UpdateIsWhole
  <2>. HIDE DEF Sole
  <2>5. ASSUME NEW r \in UpdaterRuns, Update!BackUp(r) PROVE UpdateIsWhole'
    <3>1. run'[r].step = "swap" /\ run[r].step = "backup" /\ Sole(r)
      BY <2>4, <2>5, RunGoes DEF Update!BackUp, Update!RunSteps
    <3>2. Keeps(r)
      BY <3>1 DEF UpdateIsWhole
    <3>. QED  BY <2>3, <2>5, <3>1, <3>2 DEF Update!BackUp, Keeps, Good, Update!LoadedWhole, UpdateIsWhole
  <2>6. ASSUME NEW r \in UpdaterRuns, Update!Swap(r) PROVE UpdateIsWhole'
    <3>1. run[r].step = "swap" /\ Keeps(r)
      BY <2>6 DEF Update!Swap, UpdateIsWhole
    <3>2. Update!Goto(r, "sync")
      BY <2>6, <3>1 DEF Update!Swap, Keeps, Good
    <3>3. run'[r].step = "sync" /\ Sole(r)
      BY <2>4, <2>6, <3>1, <3>2, RunGoes DEF Update!Swap, Update!RunSteps
    <3>. QED  BY <2>3, <2>6, <3>1, <3>3 DEF Update!Swap, Keeps, Good, Update!LoadedWhole, UpdateIsWhole
  <2>7. ASSUME NEW r \in UpdaterRuns, Update!RsyncPart(r) PROVE UpdateIsWhole'
    <3>1. run'[r].step = "syncing" /\ run[r].step = "sync" /\ Sole(r)
      BY <2>4, <2>7, RunGoes DEF Update!RsyncPart, Update!RunSteps
    <3>2. Keeps(r)
      BY <3>1 DEF UpdateIsWhole
    <3>3. dir' # Update!Gone /\ dir'.settings = dir.settings
      <4>1. PICK v \in {dir.version, bundle} : dir' = [dir EXCEPT !.version = v, !.code = Update!Mixed]
        BY <2>7 DEF Update!RsyncPart
      <4>2. v \in Update!Versions \cup {Update!None} /\ dir \in Update!Dirs
        BY DirsParts DEF Update!UpdateTypeOK
      <4>3. dir'.code = Update!Mixed /\ dir'.settings = dir.settings
        BY <4>1, <4>2 DEF Update!Dirs
      <4>. QED  BY <4>3, VersionsApart DEF Update!Gone
    <3>. QED  BY <2>3, <2>7, <3>1, <3>2, <3>3 DEF Update!RsyncPart, Keeps, Good, Update!LoadedWhole, UpdateIsWhole
  <2>8. ASSUME NEW r \in UpdaterRuns, Update!RsyncDone(r) PROVE UpdateIsWhole'
    <3>1. run'[r].step = "synced" /\ run[r].step = "syncing" /\ Sole(r)
      BY <2>4, <2>8, RunGoes DEF Update!RsyncDone, Update!RunSteps
    <3>2. Keeps(r)
      BY <3>1 DEF UpdateIsWhole
    <3>3. dir'.code = bundle /\ dir'.version = bundle /\ dir' # Update!Gone /\ dir'.settings = dir.settings
      <4>1. dir' = [dir EXCEPT !.version = bundle, !.code = bundle]
        BY <1>2, <2>8 DEF Update!RsyncDone
      <4>2. /\ bundle \in Update!Versions \cup {Update!None} /\ dir \in Update!Dirs
            /\ bundle \in Update!Versions \cup {Update!Mixed, Update!None} /\ bundle # Update!None
        BY VersionsApart DEF Update!UpdateTypeOK
      <4>3. dir'.code = bundle /\ dir'.version = bundle /\ dir'.settings = dir.settings
        BY <4>1, <4>2 DEF Update!Dirs
      <4>. QED  BY <4>2, <4>3, VersionsApart DEF Update!Gone, Update!UpdateTypeOK
    <3>4. UNCHANGED <<bundle, bak, bakNew, service, accepted>>
      BY <2>8 DEF Update!RsyncDone
    <3>5. bundle # Update!None
      BY VersionsApart DEF Update!UpdateTypeOK
    <3>6. Keeps(r)'
      BY <3>1, <3>2, <3>3, <3>4, <3>5 DEF Keeps, Good
    <3>7. Update!LoadedWhole'
      BY <3>4 DEF Update!LoadedWhole, UpdateIsWhole
    <3>. QED  BY <2>3, <3>1, <3>6, <3>7
  <2>9. ASSUME NEW r \in UpdaterRuns, Update!RsyncFails(r) PROVE UpdateIsWhole'
    <3>1. run'[r].step = "restore" /\ run[r].step \in {"sync", "syncing"} /\ Sole(r)
      BY <2>4, <2>9, RunGoes DEF Update!RsyncFails, Update!RunSteps
    <3>2. Keeps(r)
      BY <3>1 DEF UpdateIsWhole
    <3>. QED  BY <2>3, <2>9, <3>1, <3>2 DEF Update!RsyncFails, Update!Cleared, Keeps, Good, Update!LoadedWhole, UpdateIsWhole
  <2>10. ASSUME NEW r \in UpdaterRuns, Update!Restore(r) PROVE UpdateIsWhole'
    <3>1. run'[r].step = "idle" /\ run[r].step = "restore" /\ Sole(r)
      BY <2>4, <2>10, RunEnds DEF Update!Restore
    <3>2. Keeps(r)
      BY <3>1 DEF UpdateIsWhole
    <3>. QED  BY <2>3, <2>10, <3>1, <3>2 DEF Update!Restore, Keeps, Good, Update!LoadedWhole, UpdateIsWhole
  <2>11. ASSUME NEW r \in UpdaterRuns, Update!MigrateRead(r) PROVE UpdateIsWhole'
    <3>1. run[r].step = "synced" /\ Keeps(r)
      BY <2>11 DEF Update!MigrateRead, UpdateIsWhole
    <3>2. /\ run'[r].step \in {"restart capture", "migrate"} /\ run'[r].read = dir.settings
          /\ \A q \in UpdaterRuns : q # r => run'[q] = run[q]
      BY <2>11 DEF Update!MigrateRead, Update!UpdateTypeOK, Update!RunStates
    <3>3. Sole(r)
      BY <2>11, <3>1, <3>2 DEF Sole, UpdateIsWhole, Update!MigrateRead
    <3>. QED  BY <2>3, <2>11, <3>1, <3>2, <3>3 DEF Update!MigrateRead, Keeps, Good, Update!LoadedWhole, UpdateIsWhole
  <2>12. ASSUME NEW r \in UpdaterRuns, Update!MigrateWrite(r) PROVE UpdateIsWhole'
    <3>1. run'[r].step = "restart capture" /\ run[r].step = "migrate" /\ Sole(r)
      BY <2>4, <2>12, RunGoes DEF Update!MigrateWrite, Update!RunSteps
    <3>2. Keeps(r)
      BY <3>1 DEF UpdateIsWhole
    <3>3. dir'.code = dir.code /\ dir'.version = dir.version /\ dir'.settings = run[r].read /\ dir' # Update!Gone
      <4>1. dir' = [dir EXCEPT !.settings = run[r].read, !.schema = dir.version]
        BY <2>12, <3>1, <3>2 DEF Update!MigrateWrite, Update!Merged, Keeps, Good
      <4>2. /\ run[r].read \in SUBSET Update!PatchIds /\ dir.version \in Update!Versions \cup {Update!None}
            /\ dir \in Update!Dirs
        BY DirsParts DEF Update!UpdateTypeOK, Update!RunStates
      <4>3. dir'.code = dir.code /\ dir'.version = dir.version /\ dir'.settings = run[r].read
        BY <4>1, <4>2 DEF Update!Dirs
      <4>4. dir.code # Update!None
        BY <3>1, <3>2 DEF Keeps
      <4>. QED  BY <4>3, <4>4 DEF Update!Gone
    <3>. QED  BY <2>3, <2>12, <3>1, <3>2, <3>3 DEF Update!MigrateWrite, Keeps, Good, Update!LoadedWhole, UpdateIsWhole
  <2>. dir.version # Update!Mixed /\ dir \in Update!Dirs
    BY VersionsApart, DirsParts DEF Update!UpdateTypeOK
  <2>13. ASSUME NEW r \in UpdaterRuns, Update!RestartCapture(r) PROVE UpdateIsWhole'
    <3>1. run'[r].step = "restart api" /\ run[r].step = "restart capture" /\ Sole(r)
      BY <2>4, <2>13, RunGoes DEF Update!RestartCapture, Update!RunSteps
    <3>2. Keeps(r)
      BY <3>1 DEF UpdateIsWhole
    <3>3. Update!LoadedWhole'
      BY <2>13, <3>1, <3>2 DEF Update!RestartCapture, Update!Restarted, Update!LoadedWhole, Update!Services,
           Keeps, Good, UpdateIsWhole, Update!UpdateTypeOK, Update!ServiceStates
    <3>. QED  BY <2>3, <2>13, <3>1, <3>2, <3>3 DEF Update!RestartCapture, Keeps, Good
  <2>14. ASSUME NEW r \in UpdaterRuns, Update!RestartApi(r) PROVE UpdateIsWhole'
    <3>1. run[r].step = "restart api" /\ Keeps(r) /\ \A q \in UpdaterRuns : q # r => run[q].step = "idle"
      BY <2>14 DEF Update!RestartApi, UpdateIsWhole
    <3>2. \A q \in UpdaterRuns : run'[q].step = "idle"
      BY <2>14, <3>1 DEF Update!RestartApi, Update!NoRun
    <3>3. /\ UNCHANGED <<dir, bakNew>> /\ accepted' = accepted
          /\ patch' = patch \/ patch' = Update!NoPatch
      BY <1>2, <2>14 DEF Update!RestartApi
    <3>4. Update!LoadedWhole'
      BY <2>14, <3>1 DEF Update!RestartApi, Update!Restarted, Update!LoadedWhole, Update!Services,
           Keeps, Good, UpdateIsWhole, Update!UpdateTypeOK, Update!ServiceStates
    <3>5. Good(dir)' /\ bakNew' = Update!Gone
      BY <3>1, <3>3 DEF Keeps, Good
    <3>6. patch'.step = "write" => accepted' \subseteq patch'.settings
      BY <3>3 DEF UpdateIsWhole, Update!NoPatch
    <3>. QED  BY <3>2, <3>4, <3>5, <3>6 DEF UpdateIsWhole, Update!Running
  <2>15. ASSUME NEW r \in UpdaterRuns, Update!Kill(r) PROVE FALSE
    BY <2>15 DEF Update!Kill, Update!Trouble
  <2>16. ASSUME Update!PatchRead PROVE UpdateIsWhole'
    <3>1. dir # Update!Gone
      BY <2>16 DEF Update!PatchRead, Update!Gone
    <3>2. accepted \subseteq dir.settings
      BY <3>1 DEF UpdateIsWhole, Keeps, Good, Update!Running
    <3>3. patch'.settings = dir.settings /\ patch'.apart = ~Update!Running
      BY <2>16 DEF Update!PatchRead
    <3>4. UNCHANGED <<dir, bak, bakNew, run, service, accepted>>
      BY <2>16 DEF Update!PatchRead
    <3>. QED  BY <3>2, <3>3, <3>4 DEF UpdateIsWhole, Keeps, Good, Update!Running, Update!LoadedWhole
  <2>17. ASSUME NEW k \in Update!PatchIds, Update!PatchWrite(k) PROVE UpdateIsWhole'
    <3>1. dir = Update!Gone => dir' = Update!Gone
      BY <2>17 DEF Update!PatchWrite
    <3>2. ASSUME dir # Update!Gone
          PROVE  /\ dir'.version = dir.version /\ dir'.code = dir.code
                 /\ dir'.settings = patch.settings \cup {k}
      <4>1. dir' = [dir EXCEPT !.settings = patch.settings \cup {k}, !.schema = patch.schema]
        BY <2>17, <3>2 DEF Update!PatchWrite
      <4>2. /\ patch.settings \cup {k} \in SUBSET Update!PatchIds
            /\ patch.schema \in Update!Versions \cup {Update!None}
        BY DEF Update!UpdateTypeOK, Update!PatchStates
      <4>. QED  BY <4>1, <4>2 DEF Update!Dirs
    <3>3. dir # Update!Gone => dir' # Update!Gone
      BY <3>2 DEF Update!Gone
    <3>4. UNCHANGED <<bak, bakNew, run, service>> /\ patch' = Update!NoPatch /\ accepted \subseteq patch.settings
      BY <2>17 DEF Update!PatchWrite, UpdateIsWhole
    <3>5. accepted' \subseteq accepted \cup {k}
      BY <2>17 DEF Update!PatchWrite
    <3>6. Update!Running => accepted' = accepted
      BY <2>17 DEF Update!PatchWrite, UpdateIsWhole, Update!Running
    <3>7. patch'.step = "idle" /\ Update!LoadedWhole'
      BY <3>4 DEF Update!NoPatch, UpdateIsWhole, Update!LoadedWhole
    <3>8. ASSUME NEW r \in UpdaterRuns, run[r].step # "idle" PROVE Keeps(r)'
      <4>1. Keeps(r) /\ accepted' = accepted
        BY <3>6, <3>8 DEF UpdateIsWhole, Update!Running
      <4>. QED  BY <3>1, <3>2, <3>3, <3>4, <4>1 DEF Keeps, Good
    <3>9. ASSUME ~Update!Running PROVE Good(dir)' /\ bakNew' = Update!Gone
      BY <3>2, <3>3, <3>4, <3>5, <3>9 DEF UpdateIsWhole, Good
    <3>. QED  BY <3>4, <3>7, <3>8, <3>9 DEF UpdateIsWhole, Update!Running
  <2>18. ASSUME NEW s \in Update!Services, Update!OperatorRestarts(s) PROVE UpdateIsWhole'
    <3>1. ~Update!Running
      BY <2>18 DEF Update!OperatorRestarts, Update!Trouble
    <3>2. \A q \in UpdaterRuns : run'[q].step = "idle"
      BY <2>18, <3>1 DEF Update!OperatorRestarts, Update!Running, Update!NoRun, Update!UpdateTypeOK
    <3>3. UNCHANGED <<dir, bakNew, accepted>> /\ (patch' = patch \/ patch' = Update!NoPatch)
      BY <2>18 DEF Update!OperatorRestarts
    <3>4. Update!LoadedWhole'
      BY <2>18, <3>1 DEF Update!OperatorRestarts, Update!Restarted, Update!LoadedWhole, Update!Services,
           Good, UpdateIsWhole, Update!UpdateTypeOK, Update!ServiceStates
    <3>. QED  BY <3>1, <3>2, <3>3, <3>4 DEF UpdateIsWhole, Good, Update!Running, Update!NoPatch
  <2>19. ASSUME NEW on \in BOOLEAN, Update!Toggle(on) PROVE UpdateIsWhole'
    <3>1. on => ~Update!Running
      BY <2>19 DEF Update!Toggle, Update!Trouble
    <3>2. Update!LoadedWhole'
      BY <2>19, <3>1, VersionsApart DEF Update!Toggle, Update!LoadedWhole, Update!Services,
           Good, UpdateIsWhole, Update!UpdateTypeOK, Update!ServiceStates
    <3>3. UNCHANGED <<dir, bak, bakNew, run, patch, accepted>>
      BY <2>19 DEF Update!Toggle
    <3>. QED  BY <3>2, <3>3 DEF UpdateIsWhole, Keeps, Good, Update!Running
  <2>20. ASSUME Update!Reboot PROVE UpdateIsWhole'
    <3>1. ~Update!Running
      BY <2>20 DEF Update!Reboot, Update!Trouble
    <3>2. /\ UNCHANGED <<dir, accepted>> /\ patch' = Update!NoPatch
          /\ \A q \in UpdaterRuns : run'[q].step = "idle"
      BY <2>20 DEF Update!Reboot, Update!NoRun
    <3>3. bakNew' = bakNew
      BY <2>20, <3>1 DEF Update!Reboot, Update!Partial, Update!Running
    <3>4. Update!LoadedWhole'
      BY <2>20, <3>1, VersionsApart DEF Update!Reboot, Update!LoadedWhole, Update!Services,
           Good, UpdateIsWhole, Update!UpdateTypeOK, Update!ServiceStates
    <3>. QED  BY <3>1, <3>2, <3>3, <3>4 DEF UpdateIsWhole, Good, Update!Running, Update!NoPatch
  <2>. QED
    BY <2>1, <2>2, <2>5, <2>6, <2>7, <2>8, <2>9, <2>10, <2>11, <2>12, <2>13, <2>14, <2>15, <2>16, <2>17, <2>18,
       <2>19, <2>20 DEF Update!UpdateNext, Update!UpdaterStep
<1>. QED  BY <1>1, <1>2

LEMMA UpdateInvStep == ASSUME UpdateInv, Update!UpdateNext PROVE UpdateInv'
<1>1. Update!UpdateTypeOK'
  BY UpdateTypeStep DEF UpdateInv
<1>. DEFINE api == service["rovimen-station-api"]
<1>2. (Update!Active("rovimen-station-api") \/ patch.step = "idle")'
  <2>. Update!Active("rovimen-station-api") \/ patch.step = "idle"
    BY DEF UpdateInv
  <2>. Update!UpdateTypeOK
    BY DEF UpdateInv
  <2>1. ASSUME api' = api, patch'.step = patch.step \/ patch'.step = "idle"
        PROVE  (Update!Active("rovimen-station-api") \/ patch.step = "idle")'
    BY <2>1 DEF Update!Active
  <2>2. ASSUME patch' = Update!NoPatch
        PROVE  (Update!Active("rovimen-station-api") \/ patch.step = "idle")'
    BY <2>2 DEF Update!NoPatch
  <2>3. ASSUME NEW r \in UpdaterRuns, Update!UpdaterStep(r)
        PROVE  (api' = api /\ patch'.step = patch.step) \/ patch' = Update!NoPatch
    <3>1. CASE Update!Begin(r)
      BY <3>1 DEF Update!Begin, Update!UpdateTypeOK, Update!PatchStates
    <3>2. CASE Update!RestartCapture(r)
      BY <3>2 DEF Update!RestartCapture, Update!Restarted, Update!UpdateTypeOK, Update!Services
    <3>3. CASE Update!RestartApi(r)
      BY <3>3 DEF Update!RestartApi
    <3>. QED
      BY <2>3, <3>1, <3>2, <3>3 DEF Update!UpdaterStep, Update!BackUp, Update!Swap, Update!RsyncPart,
           Update!RsyncDone, Update!RsyncFails, Update!Restore, Update!MigrateRead, Update!MigrateWrite, Update!Kill
  <2>4. ASSUME NEW s \in Update!Services, Update!OperatorRestarts(s)
        PROVE  (api' = api /\ patch'.step = patch.step) \/ patch' = Update!NoPatch
    BY <2>4 DEF Update!OperatorRestarts, Update!Restarted, Update!UpdateTypeOK, Update!Services
  <2>5. ASSUME NEW on \in BOOLEAN, Update!Toggle(on) PROVE api' = api /\ patch'.step = patch.step
    BY <2>5 DEF Update!Toggle, Update!UpdateTypeOK, Update!Services
  <2>6. CASE Update!PatchRead
    BY <2>6 DEF Update!PatchRead, Update!Active
  <2>7. ASSUME Update!Publish \/ Update!Reboot \/ \E k \in Update!PatchIds : Update!PatchWrite(k)
        PROVE  (api' = api /\ patch'.step = patch.step) \/ patch' = Update!NoPatch
    BY <2>7 DEF Update!Publish, Update!Reboot, Update!PatchWrite
  <2>. QED  BY <2>1, <2>2, <2>3, <2>4, <2>5, <2>6, <2>7 DEF Update!UpdateNext
<1>. QED  BY <1>1, <1>2, UpdateWholeStep DEF UpdateInv

LEMMA UpdateInvSafe == ASSUME UpdateInv PROVE Update!QuietStationIsWhole
BY DEF UpdateInv, UpdateIsWhole, Update!QuietStationIsWhole, Good

LEMMA UpdateInvStays == ASSUME UpdateInv, UNCHANGED updateVars PROVE UpdateInv'
BY DEF updateVars, UpdateInv, Update!UpdateTypeOK, Update!Active, UpdateIsWhole, Update!At,
       Update!Running, Update!LoadedWhole, Good, Keeps

------------------------------------------------------------------------------
(* Tunnels: every ssh but one at most is in the record or in the hands of a *)
(* thread.                                                                  *)

\* A thread in _establish_tunnel, after it has forgotten the old tunnel.
Opens(t) == establisher[t].step \in {"kill", "try", "settle"}
Ended(t) == IF establisher[t].step = "ended" THEN 1 ELSE 0

\* A thread has a process in its hands only while it ends or awaits it.
HandsClean ==
    \A t \in Tunnel!TunnelThreads :
      /\ establisher[t].proc # Tunnel!NoProc => establisher[t].step \in {"kill", "settle"}
      /\ establisher[t].step = "settle" => establisher[t].jump <= Len(Jumps)

\* What one opening at a time keeps: the start's is the first, and no tunnel is recorded
\* while one is opened.
OneOpens ==
    /\ ~(Tunnel!Establishing("start_all") /\ Tunnel!Establishing("watchdog"))
    /\ Tunnel!Establishing("start_all") =>
         streak = 0 /\ tunnel.proc = Tunnel!NoProc
    /\ \A t \in Tunnel!TunnelThreads : Opens(t) => tunnel.proc = Tunnel!NoProc
    /\ streak > MaxStreak => establisher["watchdog"].step = "ended"

\* _note_failure has ended the watchdog, or would have.
Overflowed == establisher["watchdog"].step = "ended" /\ streak > MaxStreak

\* start_all opens once.  While it does there is no orphan, and no tunnel is recorded as
\* long as the watchdog is opening too; of the two records that follow, the second alone
\* can find one before it.
OneOrphan ==
    /\ ~doubled => Tunnel!Orphans = {}
    /\ Tunnel!Establishing("start_all") => Tunnel!Orphans = {}
    /\ Tunnel!Establishing("start_all") /\ Opens("watchdog") => tunnel.proc = Tunnel!NoProc
    /\ Opens("watchdog") /\ tunnel.proc # Tunnel!NoProc => Tunnel!Orphans = {}
    /\ \A p, q \in Tunnel!Orphans : p = q

TunnelsInv ==
    /\ Tunnel!TunnelsTypeOK
    /\ HandsClean
    /\ streak <= MaxStreak + Ended("start_all") + Ended("watchdog")
    /\ ~closed /\ ~doubled => OneOpens
    /\ ~closed /\ ~Overflowed => OneOrphan

LEMMA TunnelsInvInit == ASSUME Tunnel!TunnelsInit PROVE TunnelsInv
<1>1. Tunnel!TunnelsTypeOK
  <2>1. 0 \in 0..Len(Jumps) /\ 1 \in 1..Len(Jumps) + 1 /\ 0 \in 0..MaxStreak + 2
    BY JumpsAssumption, MaxStreakAssumption
  <2>. QED  BY <2>1 DEF Tunnel!TunnelsInit, Tunnel!TunnelsTypeOK, Tunnel!NoTunnel, Tunnel!AtStep, Tunnel!ThreadStates,
         Tunnel!NoProc, Tunnel!Ways, Tunnel!TunnelThreads
<1>. QED
  BY <1>1, MaxStreakAssumption
     DEF TunnelsInv, HandsClean, OneOpens, Opens, Ended, Tunnel!TunnelsInit, Tunnel!NoTunnel, Tunnel!AtStep,
         Tunnel!TunnelThreads, Tunnel!Establishing, OneOrphan, Tunnel!Orphans, Tunnel!Lives

\* The thread of a step moves, the other one stays.
LEMMA ThreadMoves ==
    ASSUME Tunnel!TunnelsTypeOK, NEW t \in Tunnel!TunnelThreads, NEW to \in Tunnel!ThreadStates,
           establisher' = [establisher EXCEPT ![t] = to]
    PROVE  /\ establisher' \in [Tunnel!TunnelThreads -> Tunnel!ThreadStates]
           /\ establisher'[t] = to
           /\ \A u \in Tunnel!TunnelThreads : u # t => establisher'[u] = establisher[u]
BY DEF Tunnel!TunnelsTypeOK

LEMMA PlacesType ==
    /\ \A s \in {"wait", "pop", "try", "ended"} : Tunnel!AtStep(s) \in Tunnel!ThreadStates
    /\ \A p \in Procs \cup {Tunnel!NoProc} :
         [step |-> "kill", proc |-> p, jump |-> 1] \in Tunnel!ThreadStates
    /\ Tunnel!NoTunnel \in [proc : Procs \cup {Tunnel!NoProc}, healthy : BOOLEAN]
BY JumpsAssumption DEF Tunnel!AtStep, Tunnel!ThreadStates, Tunnel!NoTunnel

\* What the network and the clients do leaves the threads alone, and no process is new.
LEMMA OutsideStep ==
    ASSUME TunnelsInv,
           \/ \E j \in 1..Len(Jumps), w \in Tunnel!Ways : Tunnel!JumpChanges(j, w)
           \/ \E p \in Procs : Tunnel!Connect(p) \/ Tunnel!SshExits(p)
           \/ Tunnel!TimePasses \/ Tunnel!Request
    PROVE  TunnelsInv'
<1>1. /\ UNCHANGED <<establisher, streak, closed, doubled>>
      /\ tunnel'.proc = tunnel.proc
      /\ tunnel' \in [proc : Procs \cup {Tunnel!NoProc}, healthy : BOOLEAN]
      /\ \A p \in Procs : alive'[p] \in {0, alive[p]}
  BY DEF TunnelsInv, Tunnel!TunnelsTypeOK, Tunnel!JumpChanges, Tunnel!Connect, Tunnel!SshExits,
         Tunnel!TimePasses, Tunnel!Request
<1>2. way' \in [1..Len(Jumps) -> Tunnel!Ways]
  BY DEF TunnelsInv, Tunnel!TunnelsTypeOK, Tunnel!JumpChanges, Tunnel!Connect, Tunnel!SshExits,
         Tunnel!TimePasses, Tunnel!Request
<1>3. alive' \in [Procs -> 0..Len(Jumps)]
  BY JumpsAssumption DEF TunnelsInv, Tunnel!TunnelsTypeOK, Tunnel!JumpChanges, Tunnel!Connect, Tunnel!SshExits,
         Tunnel!TimePasses, Tunnel!Request
<1>4. open' \subseteq Procs /\ pending' \in BOOLEAN /\ backoff' \in BOOLEAN
  BY DEF TunnelsInv, Tunnel!TunnelsTypeOK, Tunnel!JumpChanges, Tunnel!Connect, Tunnel!SshExits,
         Tunnel!TimePasses, Tunnel!Request
<1>5. Tunnel!TunnelsTypeOK'
  BY <1>1, <1>2, <1>3, <1>4 DEF TunnelsInv, Tunnel!TunnelsTypeOK
<1>6. HandsClean' /\ (streak <= MaxStreak + Ended("start_all") + Ended("watchdog"))'
  BY <1>1 DEF TunnelsInv, HandsClean, Ended
<1>7. (~closed /\ ~doubled => OneOpens)'
  BY <1>1 DEF TunnelsInv, OneOpens, Opens, Tunnel!Establishing
<1>8. (~closed /\ ~Overflowed => OneOrphan)'
  <2>1. Tunnel!Orphans' \subseteq Tunnel!Orphans
    BY <1>1 DEF Tunnel!Orphans, Tunnel!Lives
  <2>. QED  BY <1>1, <2>1 DEF TunnelsInv, Overflowed, OneOrphan, Opens, Tunnel!Establishing
<1>. QED  BY <1>5, <1>6, <1>7, <1>8 DEF TunnelsInv

\* The watchdog looks, woken up or after its pause.
LEMMA WatchdogStep ==
    ASSUME TunnelsInv, Tunnel!Sweep \/ Tunnel!Look PROVE TunnelsInv'
<1>. Tunnel!TunnelsTypeOK /\ "watchdog" \in Tunnel!TunnelThreads /\ "start_all" \in Tunnel!TunnelThreads
  BY DEF TunnelsInv, Tunnel!TunnelThreads
<1>1. PICK s \in {"wait", "look", "pop"} : establisher' = [establisher EXCEPT !["watchdog"].step = s]
  BY DEF Tunnel!Sweep, Tunnel!Look
<1>2. /\ UNCHANGED <<way, alive, open, tunnel, closed>>
      /\ establisher["watchdog"].step \in {"wait", "look"}
      /\ establisher["watchdog"].proc = Tunnel!NoProc
      /\ streak' \in {0, streak} /\ pending' \in BOOLEAN /\ backoff' \in BOOLEAN /\ doubled' \in BOOLEAN
  BY DEF Tunnel!Sweep, Tunnel!Look, TunnelsInv, HandsClean, Tunnel!TunnelsTypeOK
<1>3. /\ establisher' \in [Tunnel!TunnelThreads -> Tunnel!ThreadStates]
      /\ establisher'["watchdog"].step = s
      /\ establisher'["watchdog"].proc = Tunnel!NoProc
      /\ establisher'["start_all"] = establisher["start_all"]
  BY <1>1, <1>2 DEF Tunnel!TunnelsTypeOK, Tunnel!ThreadStates
<1>4. s = "pop" => doubled' = (doubled \/ Tunnel!Establishing("start_all"))
  <2>1. CASE Tunnel!Sweep
    BY <1>3, <2>1 DEF Tunnel!Sweep, Tunnel!TunnelsTypeOK, Tunnel!ThreadStates
  <2>2. CASE Tunnel!Look
    <3>1. establisher'["watchdog"].step = IF Tunnel!Up \/ backoff THEN "wait" ELSE "pop"
      BY <2>2 DEF Tunnel!Look, Tunnel!TunnelsTypeOK, Tunnel!ThreadStates
    <3>2. s = "pop" => ~Tunnel!Up /\ ~backoff
      BY <1>3, <3>1
    <3>. QED  BY <2>2, <3>2 DEF Tunnel!Look
  <2>. QED  BY <2>1, <2>2
<1>5. doubled => doubled'
  BY DEF Tunnel!Sweep, Tunnel!Look
<1>6. streak \in Int /\ MaxStreak \in Nat
  BY MaxStreakAssumption DEF Tunnel!TunnelsTypeOK
<1>7. Tunnel!TunnelsTypeOK'
  BY <1>2, <1>3, <1>6 DEF Tunnel!TunnelsTypeOK
<1>8. HandsClean' /\ (streak <= MaxStreak + Ended("start_all") + Ended("watchdog"))'
  BY <1>2, <1>3, <1>6 DEF TunnelsInv, HandsClean, Ended, Tunnel!TunnelThreads
<1>9. (~closed /\ ~doubled => OneOpens)'
  BY <1>2, <1>3, <1>4, <1>5, <1>6 DEF TunnelsInv, OneOpens, Opens, Tunnel!Establishing, Tunnel!TunnelThreads
<1>10. (~closed /\ ~Overflowed => OneOrphan)'
  <2>1. Tunnel!Orphans' = Tunnel!Orphans
    BY <1>2, <1>3 DEF Tunnel!Orphans, Tunnel!Lives, Tunnel!TunnelThreads
  <2>2. ~Overflowed /\ ~Opens("watchdog")'
    BY <1>2, <1>3 DEF Overflowed, Opens
  <2>. QED  BY <1>2, <1>3, <1>5, <2>1, <2>2 DEF TunnelsInv, OneOrphan, Tunnel!Establishing
<1>. QED  BY <1>7, <1>8, <1>9, <1>10 DEF TunnelsInv

\* A failure is counted; one too many ends the thread.
LEMMA NotesCounts ==
    ASSUME Tunnel!TunnelsTypeOK, NEW t \in Tunnel!TunnelThreads, NEW goes \in Tunnel!ThreadStates, NEW tun,
           Tunnel!Notes(t, goes, tun), establisher[t].step # "ended",
           streak <= MaxStreak + Ended("start_all") + Ended("watchdog")
    PROVE  /\ (streak <= MaxStreak + Ended("start_all") + Ended("watchdog"))'
           /\ streak' = streak + 1 /\ streak' \in 0..MaxStreak + 2 /\ backoff' \in BOOLEAN /\ tunnel' = tun
           /\ establisher'[t] \in {goes, Tunnel!AtStep("ended")}
           /\ streak' > MaxStreak <=> streak >= MaxStreak
           /\ streak < MaxStreak => establisher' = [establisher EXCEPT ![t] = goes]
           /\ streak >= MaxStreak => establisher' = [establisher EXCEPT ![t] = Tunnel!AtStep("ended")]
<1>1. streak \in Nat /\ MaxStreak \in Nat
  BY MaxStreakAssumption DEF Tunnel!TunnelsTypeOK
<1>2. /\ streak' = streak + 1 /\ tunnel' = tun /\ backoff' \in BOOLEAN
      /\ streak < MaxStreak => establisher' = [establisher EXCEPT ![t] = goes]
      /\ streak >= MaxStreak => establisher' = [establisher EXCEPT ![t] = Tunnel!AtStep("ended")]
  <2>1. backoff' \in BOOLEAN
    BY DEF Tunnel!Notes
  <2>2. streak' = streak + 1 /\ tunnel' = tun
    BY DEF Tunnel!Notes
  <2>3. CASE streak < MaxStreak
    <3>1. establisher' = [establisher EXCEPT ![t] = goes] /\ ~(streak >= MaxStreak)
      BY <1>1, <2>3 DEF Tunnel!Notes
    <3>. QED  BY <2>1, <2>2, <3>1
  <2>4. CASE ~(streak < MaxStreak)
    BY <2>1, <2>2, <2>4 DEF Tunnel!Notes
  <2>. QED  BY <2>3, <2>4
<1>3. /\ establisher'[t] \in {goes, Tunnel!AtStep("ended")}
      /\ streak >= MaxStreak => establisher'[t].step = "ended"
      /\ \A u \in Tunnel!TunnelThreads : u # t => establisher'[u] = establisher[u]
  BY <1>1, <1>2, PlacesType, ThreadMoves DEF Tunnel!AtStep
<1>4. (streak <= MaxStreak + Ended("start_all") + Ended("watchdog"))'
  BY <1>1, <1>2, <1>3 DEF Ended, Tunnel!TunnelThreads
<1>5. streak' <= MaxStreak + 2
  BY <1>1, <1>2, <1>4 DEF Ended
<1>. QED  BY <1>1, <1>2, <1>3, <1>4, <1>5

\* PopOld, while the other thread is not opening: the tunnel goes into the thread's hands.
LEMMA PopStep ==
    ASSUME TunnelsInv, NEW t \in Tunnel!TunnelThreads, Tunnel!PopOld(t) PROVE TunnelsInv'
<1>. DEFINE goes == [step |-> "kill", proc |-> tunnel.proc, jump |-> 1]
            fails == tunnel.proc # Tunnel!NoProc /\ ~Tunnel!Up /\ ~tunnel.healthy
<1>. Tunnel!TunnelsTypeOK /\ streak \in Nat /\ MaxStreak \in Nat \ {0}
  BY MaxStreakAssumption DEF TunnelsInv, Tunnel!TunnelsTypeOK
<1>1. /\ UNCHANGED <<way, alive, open, pending, closed, doubled>>
      /\ establisher[t].step = "pop" /\ establisher[t].proc = Tunnel!NoProc
      /\ IF fails THEN Tunnel!Notes(t, goes, Tunnel!NoTunnel)
         ELSE /\ establisher' = [establisher EXCEPT ![t] = goes] /\ tunnel' = Tunnel!NoTunnel
              /\ UNCHANGED <<streak, backoff>>
  BY DEF Tunnel!PopOld, TunnelsInv, HandsClean
<1>2. goes \in Tunnel!ThreadStates /\ Tunnel!AtStep("ended") \in Tunnel!ThreadStates
  BY PlacesType DEF Tunnel!TunnelsTypeOK
<1>3. PICK to \in {goes, Tunnel!AtStep("ended")} : establisher' = [establisher EXCEPT ![t] = to]
  BY <1>1 DEF Tunnel!Notes
<1>4. /\ tunnel' = Tunnel!NoTunnel /\ backoff' \in BOOLEAN
      /\ (streak <= MaxStreak + Ended("start_all") + Ended("watchdog"))'
      /\ streak' \in 0..MaxStreak + 2 /\ streak' \in {streak, streak + 1}
      /\ to = Tunnel!AtStep("ended") => fails /\ streak' > MaxStreak
      /\ streak' > MaxStreak => to = Tunnel!AtStep("ended") \/ streak > MaxStreak
      /\ ~fails => streak' = streak
  <2>1. CASE fails
    <3>1. Tunnel!Notes(t, goes, Tunnel!NoTunnel) /\ establisher[t].step # "ended"
      BY <1>1, <2>1
    <3>2. streak <= MaxStreak + Ended("start_all") + Ended("watchdog")
      BY DEF TunnelsInv
    <3>. HIDE DEF goes, fails
    <3>3. /\ tunnel' = Tunnel!NoTunnel /\ backoff' \in BOOLEAN
          /\ (streak <= MaxStreak + Ended("start_all") + Ended("watchdog"))'
          /\ streak' \in 0..MaxStreak + 2 /\ streak' = streak + 1
          /\ streak' > MaxStreak <=> streak >= MaxStreak
      BY <1>2, <3>1, <3>2, NotesCounts
    <3>4. to = Tunnel!AtStep("ended") <=> streak >= MaxStreak
      <4>1. goes # Tunnel!AtStep("ended")
        BY DEF goes, Tunnel!AtStep
      <4>2. /\ streak < MaxStreak => establisher' = [establisher EXCEPT ![t] = goes]
            /\ streak >= MaxStreak => establisher' = [establisher EXCEPT ![t] = Tunnel!AtStep("ended")]
        BY <1>2, <3>1, <3>2, NotesCounts
      <4>3. establisher'[t] = to
        BY <1>2, <1>3, ThreadMoves
      <4>4. /\ streak < MaxStreak => establisher'[t] = goes
            /\ streak >= MaxStreak => establisher'[t] = Tunnel!AtStep("ended")
        BY <1>2, <4>2, ThreadMoves
      <4>. QED  BY <4>1, <4>3, <4>4
    <3>. QED  BY <2>1, <3>3, <3>4
  <2>2. CASE ~fails
    <3>1. establisher' = [establisher EXCEPT ![t] = goes] /\ tunnel' = Tunnel!NoTunnel
          /\ UNCHANGED <<streak, backoff>>
      BY <1>1, <2>2
    <3>2. establisher'[t] = goes /\ establisher'[t] = to
      BY <1>2, <1>3, <3>1, ThreadMoves
    <3>3. streak \in 0..MaxStreak + 2 /\ backoff \in BOOLEAN
      BY DEF Tunnel!TunnelsTypeOK
    <3>4. (streak <= MaxStreak + Ended("start_all") + Ended("watchdog"))'
      BY <1>1, <1>2, <3>1, <3>2, ThreadMoves DEF TunnelsInv, Ended, Tunnel!TunnelThreads
    <3>. QED  BY <2>2, <3>1, <3>2, <3>3, <3>4 DEF Tunnel!AtStep
  <2>. QED  BY <2>1, <2>2
<1>5. /\ establisher' \in [Tunnel!TunnelThreads -> Tunnel!ThreadStates] /\ establisher'[t] = to
      /\ \A u \in Tunnel!TunnelThreads : u # t => establisher'[u] = establisher[u]
  BY <1>2, <1>3, ThreadMoves
<1>6. Tunnel!TunnelsTypeOK'
  BY <1>1, <1>4, <1>5, PlacesType DEF Tunnel!TunnelsTypeOK
<1>7. HandsClean'
  <2>1. /\ establisher'[t].step \in {"kill", "ended"}
        /\ establisher'[t].step = "ended" => establisher'[t].proc = Tunnel!NoProc
    BY <1>5 DEF Tunnel!AtStep
  <2>. QED  BY <1>5, <2>1 DEF TunnelsInv, HandsClean
<1>8. (~closed /\ ~doubled => OneOpens)'
  <2>. SUFFICES ASSUME ~closed, ~doubled PROVE OneOpens'
    BY <1>1
  <2>. OneOpens
    BY DEF TunnelsInv
  <2>1. CASE t = "start_all"
    <3>1. tunnel.proc = Tunnel!NoProc /\ streak = 0
      BY <1>1, <2>1 DEF OneOpens, Tunnel!Establishing
    <3>2. to = goes /\ streak' = 0
      BY <1>4, <3>1
    <3>. QED  BY <1>1, <1>4, <1>5, <2>1, <3>1, <3>2 DEF OneOpens, Opens, Tunnel!Establishing, Tunnel!TunnelThreads, Tunnel!NoTunnel
  <2>2. CASE t = "watchdog"
    <3>1. ~Tunnel!Establishing("start_all") /\ establisher'["start_all"] = establisher["start_all"]
      BY <1>1, <1>5, <2>2 DEF OneOpens, Tunnel!Establishing, Tunnel!TunnelThreads
    <3>2. streak' > MaxStreak => establisher'["watchdog"].step = "ended"
      BY <1>1, <1>4, <1>5, <2>2 DEF OneOpens, Tunnel!AtStep
    <3>. QED  BY <1>1, <1>4, <1>5, <2>2, <3>1, <3>2 DEF OneOpens, Opens, Tunnel!Establishing, Tunnel!TunnelThreads, Tunnel!NoTunnel
  <2>. QED  BY <2>1, <2>2 DEF Tunnel!TunnelThreads
<1>9. (~closed /\ ~Overflowed => OneOrphan)'
  <2>. SUFFICES ASSUME ~closed, ~Overflowed' PROVE OneOrphan'
    BY <1>1
  <2>1. ~Overflowed /\ OneOrphan
    <3>1. establisher["watchdog"].step = "ended" => establisher'["watchdog"].step = "ended"
      BY <1>1, <1>5 DEF Tunnel!TunnelThreads
    <3>2. streak > MaxStreak => streak' > MaxStreak
      BY <1>4
    <3>. QED  BY <1>1, <3>1, <3>2 DEF Overflowed, TunnelsInv
  <2>2. /\ tunnel'.proc = Tunnel!NoProc
        /\ ~doubled /\ t = "start_all" => to = goes
    <3>1. ~doubled /\ t = "start_all" => tunnel.proc = Tunnel!NoProc
      BY <1>1 DEF TunnelsInv, OneOpens, Tunnel!Establishing
    <3>. QED  BY <1>4, <3>1 DEF Tunnel!NoTunnel
  <2>3. to = goes => Tunnel!Orphans' \subseteq Tunnel!Orphans
    BY <1>1, <1>5, <2>2 DEF Tunnel!Orphans, Tunnel!Lives
  <2>4. CASE to = goes
    BY <1>1, <1>5, <2>1, <2>2, <2>3, <2>4
       DEF OneOrphan, Opens, Tunnel!Establishing, Tunnel!TunnelThreads
  <2>5. CASE to = Tunnel!AtStep("ended") /\ t = "start_all"
    <3>1. doubled /\ Tunnel!Orphans = {} /\ ~Opens("watchdog")
      BY <1>1, <1>4, <2>1, <2>2, <2>5 DEF OneOrphan, Opens, Tunnel!Establishing, Tunnel!AtStep
    <3>2. Tunnel!Orphans' \subseteq {tunnel.proc}
      BY <1>1, <1>5, <3>1 DEF Tunnel!Orphans, Tunnel!Lives
    <3>. QED  BY <1>1, <1>5, <2>2, <2>5, <3>1, <3>2
                 DEF OneOrphan, Opens, Tunnel!Establishing, Tunnel!AtStep, Tunnel!TunnelThreads
  <2>6. CASE to = Tunnel!AtStep("ended") /\ t = "watchdog"
    BY <1>4, <1>5, <2>6 DEF Overflowed, Tunnel!AtStep
  <2>. QED  BY <2>4, <2>5, <2>6 DEF Tunnel!TunnelThreads
<1>. QED  BY <1>4, <1>6, <1>7, <1>8, <1>9 DEF TunnelsInv

\* KillOld, Spawn and Settle: what a thread has in its hands ends, is opened, is recorded.
LEMMA KillStep ==
    ASSUME TunnelsInv, NEW t \in Tunnel!TunnelThreads, Tunnel!KillOld(t) PROVE TunnelsInv'
<1>. Tunnel!TunnelsTypeOK
  BY DEF TunnelsInv
<1>1. /\ UNCHANGED <<way, tunnel, pending, streak, backoff, closed, doubled>>
      /\ establisher[t].step = "kill"
      /\ establisher' = [establisher EXCEPT ![t] = Tunnel!AtStep("try")]
  BY DEF Tunnel!KillOld
<1>2. /\ establisher' \in [Tunnel!TunnelThreads -> Tunnel!ThreadStates]
      /\ establisher'[t] = Tunnel!AtStep("try")
      /\ \A u \in Tunnel!TunnelThreads : u # t => establisher'[u] = establisher[u]
  BY <1>1, PlacesType, ThreadMoves
<1>3. /\ establisher'[t].step = "try" /\ establisher'[t].proc = Tunnel!NoProc
  BY <1>2 DEF Tunnel!AtStep
<1>4. /\ alive' \in [Procs -> 0..Len(Jumps)] /\ open' \subseteq Procs
      /\ \A p \in Procs : alive'[p] = IF p = establisher[t].proc THEN 0 ELSE alive[p]
  <2>1. 0 \in 0..Len(Jumps)
    BY JumpsAssumption
  <2>. QED
    BY <2>1, ProcsAssumption DEF Tunnel!KillOld, Tunnel!Killed, Tunnel!TunnelsTypeOK, Tunnel!ThreadStates, Tunnel!NoProc
<1>5. Tunnel!TunnelsTypeOK'
  BY <1>1, <1>2, <1>4 DEF Tunnel!TunnelsTypeOK
<1>6. HandsClean'
  BY <1>1, <1>2, <1>3 DEF TunnelsInv, HandsClean, Tunnel!TunnelThreads
<1>7. (streak <= MaxStreak + Ended("start_all") + Ended("watchdog"))'
  BY <1>1, <1>2, <1>3 DEF TunnelsInv, Ended, Tunnel!TunnelThreads
<1>8. (~closed /\ ~doubled => OneOpens)'
  BY <1>1, <1>2, <1>3 DEF TunnelsInv, OneOpens, Opens, Tunnel!Establishing, Tunnel!TunnelThreads
<1>9. (~closed /\ ~Overflowed => OneOrphan)'
  <2>1. Tunnel!Orphans' \subseteq Tunnel!Orphans
    BY <1>1, <1>2, <1>4 DEF Tunnel!Orphans, Tunnel!Lives
  <2>. QED  BY <1>1, <1>2, <1>3, <2>1
               DEF TunnelsInv, Overflowed, OneOrphan, Opens, Tunnel!Establishing, Tunnel!TunnelThreads
<1>. QED  BY <1>5, <1>6, <1>7, <1>8, <1>9 DEF TunnelsInv

LEMMA SpawnStep ==
    ASSUME TunnelsInv, NEW t \in Tunnel!TunnelThreads, NEW q \in Procs, Tunnel!Spawn(t, q) PROVE TunnelsInv'
<1>. Tunnel!TunnelsTypeOK
  BY DEF TunnelsInv
<1>1. /\ UNCHANGED <<way, open, tunnel, pending, streak, backoff, closed, doubled>>
      /\ establisher[t].step = "try" /\ establisher[t].jump <= Len(Jumps)
      /\ alive' = [alive EXCEPT ![q] = establisher[t].jump]
      /\ establisher' = [establisher EXCEPT ![t].step = "settle", ![t].proc = q]
      /\ establisher[t].proc = Tunnel!NoProc
      /\ alive[q] = 0
  BY DEF Tunnel!Spawn, Tunnel!Tries, TunnelsInv, HandsClean
<1>2. /\ establisher' \in [Tunnel!TunnelThreads -> Tunnel!ThreadStates]
      /\ establisher'[t].step = "settle" /\ establisher'[t].proc = q
      /\ establisher'[t].jump = establisher[t].jump
      /\ \A u \in Tunnel!TunnelThreads : u # t => establisher'[u] = establisher[u]
  BY <1>1 DEF Tunnel!TunnelsTypeOK, Tunnel!ThreadStates
<1>3. alive' \in [Procs -> 0..Len(Jumps)] /\ \A p \in Procs : p # q => alive'[p] = alive[p]
  <2>1. establisher[t].jump \in 0..Len(Jumps)
    BY <1>1, JumpsAssumption DEF Tunnel!TunnelsTypeOK, Tunnel!ThreadStates
  <2>. QED  BY <1>1, <2>1 DEF Tunnel!TunnelsTypeOK
<1>4. Tunnel!TunnelsTypeOK'
  BY <1>1, <1>2, <1>3 DEF Tunnel!TunnelsTypeOK
<1>5. HandsClean'
  BY <1>1, <1>2 DEF TunnelsInv, HandsClean, Tunnel!TunnelThreads
<1>6. (streak <= MaxStreak + Ended("start_all") + Ended("watchdog"))'
  BY <1>1, <1>2 DEF TunnelsInv, Ended, Tunnel!TunnelThreads
<1>7. (~closed /\ ~doubled => OneOpens)'
  BY <1>1, <1>2 DEF TunnelsInv, OneOpens, Opens, Tunnel!Establishing, Tunnel!TunnelThreads
<1>8. (~closed /\ ~Overflowed => OneOrphan)'
  <2>1. Tunnel!Orphans' \subseteq Tunnel!Orphans
    BY <1>1, <1>2, <1>3 DEF Tunnel!Orphans, Tunnel!Lives
  <2>. QED  BY <1>1, <1>2, <2>1
               DEF TunnelsInv, Overflowed, OneOrphan, Opens, Tunnel!Establishing, Tunnel!TunnelThreads
<1>. QED  BY <1>4, <1>5, <1>6, <1>7, <1>8 DEF TunnelsInv

\* NoPort, SpawnFails and StationsChange: a thread with nothing in its hands ends, or goes on
\* to the next jump host.
LEMMA FailStep ==
    ASSUME TunnelsInv, NEW t \in Tunnel!TunnelThreads,
           Tunnel!NoPort(t) \/ Tunnel!SpawnFails(t) \/ Tunnel!StationsChange(t)
    PROVE  TunnelsInv'
<1>. Tunnel!TunnelsTypeOK /\ Len(Jumps) \in Nat
  BY JumpsAssumption DEF TunnelsInv
<1>1. /\ UNCHANGED <<way, alive, open, tunnel, pending, streak, backoff, closed, doubled>>
      /\ establisher[t].step \in {"pop", "look", "try"} /\ establisher[t].proc = Tunnel!NoProc
  BY DEF Tunnel!NoPort, Tunnel!SpawnFails, Tunnel!StationsChange, Tunnel!Tries, TunnelsInv, HandsClean
<1>2. PICK to \in Tunnel!ThreadStates :
        /\ establisher' = [establisher EXCEPT ![t] = to]
        /\ to.proc = Tunnel!NoProc
        /\ to.step = "ended" \/ (to.step = "try" /\ establisher[t].step = "try")
  <2>1. CASE Tunnel!NoPort(t) \/ Tunnel!StationsChange(t)
    BY <2>1, PlacesType DEF Tunnel!NoPort, Tunnel!StationsChange, Tunnel!AtStep
  <2>2. CASE Tunnel!SpawnFails(t)
    <3>. DEFINE next == [establisher[t] EXCEPT !.jump = establisher[t].jump + 1]
    <3>1. establisher' = [establisher EXCEPT ![t] = next] /\ establisher[t].step = "try"
      BY <2>2 DEF Tunnel!SpawnFails, Tunnel!Tries
    <3>2. next \in Tunnel!ThreadStates /\ next.proc = Tunnel!NoProc /\ next.step = "try"
      BY <1>1, <2>2, <3>1 DEF Tunnel!SpawnFails, Tunnel!Tries, Tunnel!TunnelsTypeOK, Tunnel!ThreadStates
    <3>. HIDE DEF next
    <3>. QED  BY <3>1, <3>2
  <2>. QED  BY <2>1, <2>2
<1>3. /\ establisher' \in [Tunnel!TunnelThreads -> Tunnel!ThreadStates] /\ establisher'[t] = to
      /\ \A u \in Tunnel!TunnelThreads : u # t => establisher'[u] = establisher[u]
  BY <1>2, ThreadMoves
<1>4. Tunnel!TunnelsTypeOK'
  BY <1>1, <1>3 DEF Tunnel!TunnelsTypeOK
<1>5. HandsClean'
  BY <1>2, <1>3 DEF TunnelsInv, HandsClean
<1>6. (streak <= MaxStreak + Ended("start_all") + Ended("watchdog"))'
  <2>1. streak \in Nat /\ MaxStreak \in Nat
    BY MaxStreakAssumption DEF Tunnel!TunnelsTypeOK
  <2>. QED  BY <1>1, <1>3, <2>1 DEF TunnelsInv, Ended, Tunnel!TunnelThreads
<1>7. (~closed /\ ~doubled => OneOpens)'
  BY <1>1, <1>2, <1>3 DEF TunnelsInv, OneOpens, Opens, Tunnel!Establishing, Tunnel!TunnelThreads
<1>8. (~closed /\ ~Overflowed => OneOrphan)'
  <2>1. Tunnel!Orphans' = Tunnel!Orphans
    BY <1>1, <1>2, <1>3 DEF Tunnel!Orphans, Tunnel!Lives, Tunnel!NoProc
  <2>2. Overflowed => Overflowed'
    BY <1>1, <1>3 DEF Overflowed, Tunnel!TunnelThreads
  <2>. QED  BY <1>1, <1>2, <1>3, <2>1, <2>2
               DEF TunnelsInv, OneOrphan, Opens, Tunnel!Establishing, Tunnel!TunnelThreads
<1>. QED  BY <1>1, <1>4, <1>5, <1>6, <1>7, <1>8 DEF TunnelsInv

LEMMA SettleStep ==
    ASSUME TunnelsInv, NEW t \in Tunnel!TunnelThreads, Tunnel!Settle(t) PROVE TunnelsInv'
<1>. DEFINE p == establisher[t].proc
<1>. Tunnel!TunnelsTypeOK /\ Len(Jumps) \in Nat
  BY JumpsAssumption DEF TunnelsInv
<1>1. /\ UNCHANGED <<way, alive, open, streak, backoff, closed, doubled>>
      /\ establisher[t].step = "settle" /\ establisher[t].jump <= Len(Jumps)
      /\ pending' \in BOOLEAN
  BY DEF Tunnel!Settle, Tunnel!Answered, TunnelsInv, HandsClean, Tunnel!TunnelsTypeOK
<1>2. /\ p \in Procs \cup {Tunnel!NoProc} /\ establisher[t].jump + 1 \in 1..Len(Jumps) + 1
  BY <1>1 DEF Tunnel!TunnelsTypeOK, Tunnel!ThreadStates
<1>3. PICK to \in Tunnel!ThreadStates :
        /\ establisher' = [establisher EXCEPT ![t] = to]
        /\ to.proc = Tunnel!NoProc
        /\ IF Tunnel!Lives(p)
           THEN /\ tunnel' = [proc |-> p, healthy |-> FALSE]
                /\ to.step = IF t = "watchdog" THEN "wait" ELSE "ended"
           ELSE tunnel' = tunnel /\ to.step = "try"
  <2>1. CASE Tunnel!Lives(p)
    BY <2>1, PlacesType DEF Tunnel!Settle, Tunnel!Returns, Tunnel!AtStep
  <2>2. CASE ~Tunnel!Lives(p)
    <3>1. establisher' = [establisher EXCEPT ![t] =
                            [step |-> "try", proc |-> Tunnel!NoProc, jump |-> establisher[t].jump + 1]]
          /\ tunnel' = tunnel
      BY <2>2 DEF Tunnel!Settle
    <3>2. [step |-> "try", proc |-> Tunnel!NoProc, jump |-> establisher[t].jump + 1] \in Tunnel!ThreadStates
      BY <1>2 DEF Tunnel!ThreadStates
    <3>. QED  BY <2>2, <3>1, <3>2
  <2>. QED  BY <2>1, <2>2
<1>4. /\ establisher' \in [Tunnel!TunnelThreads -> Tunnel!ThreadStates] /\ establisher'[t] = to
      /\ \A u \in Tunnel!TunnelThreads : u # t => establisher'[u] = establisher[u]
  BY <1>3, ThreadMoves
<1>5. Tunnel!TunnelsTypeOK'
  <2>1. tunnel' \in [proc : Procs \cup {Tunnel!NoProc}, healthy : BOOLEAN]
    <3>1. tunnel \in [proc : Procs \cup {Tunnel!NoProc}, healthy : BOOLEAN]
      BY DEF Tunnel!TunnelsTypeOK
    <3>2. [proc |-> p, healthy |-> FALSE] \in [proc : Procs \cup {Tunnel!NoProc}, healthy : BOOLEAN]
      BY <1>2
    <3>. QED  BY <1>3, <3>1, <3>2
  <2>. QED  BY <1>1, <1>4, <2>1 DEF Tunnel!TunnelsTypeOK
<1>6. HandsClean'
  BY <1>1, <1>3, <1>4 DEF TunnelsInv, HandsClean, Tunnel!TunnelThreads
<1>7. (streak <= MaxStreak + Ended("start_all") + Ended("watchdog"))'
  <2>1. streak \in Nat /\ MaxStreak \in Nat
    BY MaxStreakAssumption DEF Tunnel!TunnelsTypeOK
  <2>. QED  BY <1>1, <1>3, <1>4, <2>1 DEF TunnelsInv, Ended, Tunnel!TunnelThreads
<1>8. (~closed /\ ~doubled => OneOpens)'
  <2>. SUFFICES ASSUME ~closed, ~doubled PROVE OneOpens'
    BY <1>1
  <2>. OneOpens
    BY DEF TunnelsInv
  <2>1. ASSUME NEW u \in Tunnel!TunnelThreads, u # t PROVE ~Opens(u)
    BY <1>1, <2>1 DEF OneOpens, Opens, Tunnel!Establishing, Tunnel!TunnelThreads
  <2>. QED  BY <1>1, <1>3, <1>4, <2>1 DEF OneOpens, Opens, Tunnel!Establishing, Tunnel!TunnelThreads
<1>9. (~closed /\ ~Overflowed => OneOrphan)'
  <2>. SUFFICES ASSUME ~closed, ~Overflowed' PROVE OneOrphan'
    BY <1>1
  <2>1. OneOrphan
    BY <1>1, <1>4 DEF TunnelsInv, Overflowed, Tunnel!TunnelThreads
  <2>2. ~doubled => tunnel.proc = Tunnel!NoProc
    BY <1>1 DEF TunnelsInv, OneOpens, Opens
  <2>3. CASE Tunnel!Lives(p)
    <3>1. Tunnel!Orphans' \subseteq Tunnel!Orphans \cup {tunnel.proc}
      BY <1>1, <1>3, <1>4, <2>3 DEF Tunnel!Orphans, Tunnel!Lives
    <3>2. tunnel.proc = Tunnel!NoProc => Tunnel!Orphans' \subseteq Tunnel!Orphans
      BY <3>1 DEF Tunnel!Orphans, Tunnel!Lives
    <3>3. /\ t = "watchdog" => ~Opens("watchdog")' /\ Opens("watchdog")
          /\ t = "start_all" => ~Tunnel!Establishing("start_all")' /\ Tunnel!Establishing("start_all")
      BY <1>1, <1>3, <1>4, <2>3 DEF Opens, Tunnel!Establishing
    <3>4. CASE t = "watchdog"
      BY <1>1, <1>4, <2>1, <2>2, <3>1, <3>2, <3>3, <3>4
         DEF OneOrphan, Opens, Tunnel!Establishing, Tunnel!TunnelThreads
    <3>5. CASE t = "start_all"
      BY <1>1, <1>4, <2>1, <2>2, <3>1, <3>2, <3>3, <3>5
         DEF OneOrphan, Opens, Tunnel!Establishing, Tunnel!TunnelThreads
    <3>. QED  BY <3>4, <3>5 DEF Tunnel!TunnelThreads
  <2>4. CASE ~Tunnel!Lives(p)
    <3>1. Tunnel!Orphans' = Tunnel!Orphans
      BY <1>1, <1>3, <1>4, <2>4 DEF Tunnel!Orphans, Tunnel!Lives
    <3>. QED  BY <1>1, <1>3, <1>4, <2>1, <2>4, <3>1
                 DEF OneOrphan, Opens, Tunnel!Establishing, Tunnel!TunnelThreads
  <2>. QED  BY <2>3, <2>4
<1>. QED  BY <1>5, <1>6, <1>7, <1>8, <1>9 DEF TunnelsInv

LEMMA GiveUpStep ==
    ASSUME TunnelsInv, NEW t \in Tunnel!TunnelThreads, Tunnel!GiveUp(t) PROVE TunnelsInv'
<1>. Tunnel!TunnelsTypeOK /\ streak \in Nat /\ MaxStreak \in Nat \ {0}
  BY MaxStreakAssumption DEF TunnelsInv, Tunnel!TunnelsTypeOK
<1>1. /\ UNCHANGED <<way, alive, open, closed, doubled>>
      /\ establisher[t].step = "try" /\ establisher[t].proc = Tunnel!NoProc
      /\ Tunnel!Notes(t, Tunnel!Returns(t), tunnel) /\ pending' \in BOOLEAN
  BY DEF Tunnel!GiveUp, Tunnel!Answered, TunnelsInv, HandsClean, Tunnel!TunnelsTypeOK
<1>2. Tunnel!Returns(t) \in Tunnel!ThreadStates /\ Tunnel!AtStep("ended") \in Tunnel!ThreadStates
  BY PlacesType DEF Tunnel!Returns
<1>3. /\ (streak <= MaxStreak + Ended("start_all") + Ended("watchdog"))'
      /\ streak' = streak + 1 /\ streak' \in 0..MaxStreak + 2 /\ backoff' \in BOOLEAN /\ tunnel' = tunnel
      /\ streak' > MaxStreak <=> streak >= MaxStreak
      /\ streak < MaxStreak => establisher' = [establisher EXCEPT ![t] = Tunnel!Returns(t)]
      /\ streak >= MaxStreak => establisher' = [establisher EXCEPT ![t] = Tunnel!AtStep("ended")]
  BY <1>1, <1>2, NotesCounts DEF TunnelsInv
<1>4. PICK to \in {Tunnel!Returns(t), Tunnel!AtStep("ended")} :
        /\ establisher' = [establisher EXCEPT ![t] = to]
        /\ to = Tunnel!AtStep("ended") \/ streak < MaxStreak
        /\ streak < MaxStreak => to = Tunnel!Returns(t)
  BY <1>3
<1>5. /\ establisher' \in [Tunnel!TunnelThreads -> Tunnel!ThreadStates] /\ establisher'[t] = to
      /\ \A u \in Tunnel!TunnelThreads : u # t => establisher'[u] = establisher[u]
  BY <1>2, <1>4, ThreadMoves
<1>6. /\ establisher'[t].step \in {"wait", "ended"} /\ establisher'[t].proc = Tunnel!NoProc
      /\ streak' > MaxStreak => establisher'[t].step = "ended"
  BY <1>3, <1>4, <1>5 DEF Tunnel!Returns, Tunnel!AtStep
<1>7. Tunnel!TunnelsTypeOK'
  BY <1>1, <1>3, <1>5 DEF Tunnel!TunnelsTypeOK
<1>8. HandsClean'
  BY <1>1, <1>3, <1>5, <1>6 DEF TunnelsInv, HandsClean, Tunnel!TunnelThreads
<1>9. (~closed /\ ~doubled => OneOpens)'
  <2>. SUFFICES ASSUME ~closed, ~doubled PROVE OneOpens'
    BY <1>1
  <2>. OneOpens
    BY DEF TunnelsInv
  <2>1. CASE t = "start_all"
    BY <1>1, <1>3, <1>5, <1>6, <2>1 DEF OneOpens, Opens, Tunnel!Establishing, Tunnel!TunnelThreads
  <2>2. CASE t = "watchdog"
    BY <1>1, <1>3, <1>5, <1>6, <2>2 DEF OneOpens, Opens, Tunnel!Establishing, Tunnel!TunnelThreads
  <2>. QED  BY <2>1, <2>2 DEF Tunnel!TunnelThreads
<1>10. (~closed /\ ~Overflowed => OneOrphan)'
  <2>1. Tunnel!Orphans' = Tunnel!Orphans
    BY <1>1, <1>3, <1>5, <1>6 DEF Tunnel!Orphans, Tunnel!Lives, Tunnel!NoProc
  <2>2. Overflowed => Overflowed'
    BY <1>1, <1>3, <1>5 DEF Overflowed, Tunnel!TunnelThreads
  <2>. QED  BY <1>1, <1>3, <1>5, <1>6, <2>1, <2>2
               DEF TunnelsInv, OneOrphan, Opens, Tunnel!Establishing, Tunnel!TunnelThreads
<1>. QED  BY <1>3, <1>7, <1>8, <1>9, <1>10 DEF TunnelsInv

LEMMA ShutdownStep == ASSUME TunnelsInv, Tunnel!Shutdown PROVE TunnelsInv'
<1>. Tunnel!TunnelsTypeOK /\ streak \in Nat /\ MaxStreak \in Nat
  BY MaxStreakAssumption DEF TunnelsInv, Tunnel!TunnelsTypeOK
<1>1. /\ UNCHANGED <<way, pending, streak, backoff, doubled>> /\ closed' = TRUE
      /\ tunnel' = Tunnel!NoTunnel /\ establisher' = [t \in Tunnel!TunnelThreads |-> Tunnel!AtStep("ended")]
      /\ open' \subseteq open
  BY DEF Tunnel!Shutdown
<1>2. alive' \in [Procs -> 0..Len(Jumps)]
  <2>1. 0 \in 0..Len(Jumps)
    BY JumpsAssumption
  <2>. QED  BY <2>1 DEF Tunnel!Shutdown, Tunnel!Killed, Tunnel!TunnelsTypeOK
<1>3. Tunnel!TunnelsTypeOK'
  BY <1>1, <1>2, PlacesType DEF Tunnel!TunnelsTypeOK
<1>4. HandsClean' /\ (~closed /\ ~doubled => OneOpens)' /\ (~closed /\ ~Overflowed => OneOrphan)'
  BY <1>1 DEF HandsClean, Tunnel!AtStep, Tunnel!TunnelThreads
<1>5. (streak <= MaxStreak + Ended("start_all") + Ended("watchdog"))'
  BY <1>1 DEF TunnelsInv, Ended, Tunnel!AtStep, Tunnel!TunnelThreads
<1>. QED  BY <1>3, <1>4, <1>5 DEF TunnelsInv

LEMMA TunnelsInvStep == ASSUME TunnelsInv, Tunnel!TunnelsNext PROVE TunnelsInv'
BY OutsideStep, WatchdogStep, PopStep, KillStep, SpawnStep, FailStep, SettleStep, GiveUpStep, ShutdownStep
   DEF Tunnel!TunnelsNext, Tunnel!Establish

LEMMA TunnelsInvStays == ASSUME TunnelsInv, UNCHANGED tunnelsVars PROVE TunnelsInv'
BY DEF tunnelsVars, TunnelsInv, Tunnel!TunnelsTypeOK, Tunnel!Orphans, Tunnel!Lives,
       Overflowed, OneOrphan, OneOpens, Tunnel!Establishing, Opens, Ended, HandsClean

LEMMA TunnelsSafe == ASSUME TunnelsInv PROVE Tunnel!FewOrphanSsh
<1>1. streak \in Int /\ MaxStreak \in Int
  BY MaxStreakAssumption DEF TunnelsInv, Tunnel!TunnelsTypeOK
<1>2. streak <= MaxStreak => ~Overflowed
  BY <1>1 DEF Overflowed
<1>. QED  BY <1>2 DEF TunnelsInv, OneOrphan, Tunnel!FewOrphanSsh

------------------------------------------------------------------------------
(* StorageRetention: what a pass has left to remove is old, not locked by a  *)
(* user and not worth keeping.  A threshold lies where the count of the     *)
(* better clips says, and the correlation marks whoever has a witness.      *)

LEMMA RetentionCardinality == ASSUME NEW S PROVE Retention!Cardinality(S) = Cardinality(S)
BY DEF Retention!Cardinality, Cardinality

\* A finite set has a member of the largest value.
LEMMA LargestOf ==
    ASSUME NEW S, IsFiniteSet(S), S # {}, NEW v, \A c \in S : v[c] \in Int
    PROVE  \E c \in S : \A d \in S : v[d] <= v[c]
<1>. DEFINE Above(c) == {d \in S : v[d] > v[c]}
            Counts == {Cardinality(Above(c)) : c \in S}
<1>1. \A c \in S : IsFiniteSet(Above(c)) /\ Cardinality(Above(c)) \in Nat
  BY FS_Subset, FS_CardinalityType
<1>2. PICK c \in S : \A d \in S : Cardinality(Above(c)) <= Cardinality(Above(d))
  <2>1. Counts \in SUBSET Nat /\ Counts # {}
    BY <1>1
  <2>2. PICK n \in Counts : \A m \in Counts : n <= m
    BY <2>1, LeastOf
  <2>. QED  BY <2>2
<1>3. ASSUME NEW d \in S, v[d] > v[c] PROVE FALSE
  <2>1. Above(d) \subseteq Above(c) /\ d \in Above(c) /\ d \notin Above(d)
    BY <1>3
  <2>2. Cardinality(Above(d)) < Cardinality(Above(c))
    <3>. HIDE DEF Above
    <3>1. Cardinality(Above(d)) <= Cardinality(Above(c)) /\ Above(d) # Above(c)
          /\ (Cardinality(Above(c)) = Cardinality(Above(d)) => Above(c) = Above(d))
      BY <1>1, <2>1, FS_Subset
    <3>. QED  BY <1>1, <3>1
  <2>. HIDE DEF Above
  <2>. QED  BY <1>1, <1>2, <2>2
<1>. QED  BY <1>3

\* Every place of the sorted list has a member of S, by counting.
LEMMA RankExists ==
    ASSUME NEW S, IsFiniteSet(S), NEW v, \A c \in S : v[c] \in Int, NEW i \in 1..Cardinality(S)
    PROVE  \E c \in S : /\ Cardinality({d \in S : v[d] < v[c]}) < i
                        /\ i <= Cardinality({d \in S : v[d] <= v[c]})
<1>. DEFINE Below(c) == {d \in S : v[d] < v[c]}
            UpTo(c) == {d \in S : v[d] <= v[c]}
            Reach == {c \in S : i <= Cardinality(UpTo(c))}
            Counts == {Cardinality(UpTo(c)) : c \in Reach}
<1>1. \A c \in S : /\ IsFiniteSet(UpTo(c)) /\ Cardinality(UpTo(c)) \in Nat
                   /\ IsFiniteSet(Below(c)) /\ Cardinality(Below(c)) \in Nat
  BY FS_Subset, FS_CardinalityType
<1>2. Reach # {}
  <2>1. S # {} /\ Cardinality(S) \in Nat
    BY FS_EmptySet, FS_CardinalityType
  <2>2. PICK c \in S : \A d \in S : v[d] <= v[c]
    BY <2>1, LargestOf
  <2>3. UpTo(c) = S
    BY <2>2
  <2>. QED  BY <2>1, <2>3
<1>3. PICK c \in Reach : \A d \in Reach : Cardinality(UpTo(c)) <= Cardinality(UpTo(d))
  <2>1. Counts \in SUBSET Nat /\ Counts # {}
    BY <1>1, <1>2
  <2>2. PICK n \in Counts : \A m \in Counts : n <= m
    BY <2>1, LeastOf
  <2>. QED  BY <2>2
<1>4. ASSUME i <= Cardinality(Below(c)) PROVE FALSE
  <2>1. Below(c) # {} /\ \A d \in Below(c) : v[d] \in Int
    <3>1. Cardinality(Below(c)) # 0
      BY <1>1, <1>3, <1>4
    <3>. QED  BY <3>1, FS_EmptySet
  <2>2. PICK e \in Below(c) : \A d \in Below(c) : v[d] <= v[e]
    BY <1>1, <1>3, <2>1, LargestOf
  <2>3. e \in S /\ Below(c) \subseteq UpTo(e) /\ UpTo(e) \subseteq UpTo(c) /\ c \in UpTo(c) /\ c \notin UpTo(e)
    BY <1>3, <2>2
  <2>. HIDE DEF Below, UpTo
  <2>4. Cardinality(Below(c)) <= Cardinality(UpTo(e))
    BY <1>1, <2>3, FS_Subset
  <2>5. Cardinality(UpTo(e)) <= Cardinality(UpTo(c)) /\ UpTo(e) # UpTo(c)
        /\ (Cardinality(UpTo(c)) = Cardinality(UpTo(e)) => UpTo(c) = UpTo(e))
    BY <1>1, <1>3, <2>3, FS_Subset
  <2>6. Cardinality(UpTo(e)) \in Nat /\ Cardinality(UpTo(c)) \in Nat /\ Cardinality(Below(c)) \in Nat
    BY <1>1, <1>3, <2>3
  <2>7. i <= Cardinality(UpTo(e)) /\ Cardinality(UpTo(e)) < Cardinality(UpTo(c))
    BY <1>4, <2>4, <2>5, <2>6
  <2>8. e \in Reach
    BY <2>3, <2>7
  <2>. QED  BY <1>3, <2>6, <2>7, <2>8
<1>5. Cardinality(Below(c)) < i /\ i <= Cardinality(UpTo(c))
  <2>1. i \in Int /\ c \in S /\ i <= Cardinality(UpTo(c))
    BY <1>3, FS_CardinalityType
  <2>. HIDE DEF Below, UpTo
  <2>. QED  BY <1>1, <1>4, <2>1
<1>. QED  BY <1>3, <1>5

\* Half-way between two values that are not below m is not below m; likewise above.
LEMMA Between ==
    ASSUME NEW a \in Int, NEW b \in Int, NEW m \in Int, NEW r \in 0..99
    PROVE  /\ a >= m /\ b >= m => 100 * a + (b - a) * r >= 100 * m
           /\ a <= m /\ b <= m => 100 * a + (b - a) * r <= 100 * m
<1>1. 100 * a + (b - a) * r = (100 - r) * a + r * b /\ 100 * m = (100 - r) * m + r * m
  OBVIOUS
<1>2. a >= m /\ b >= m => (100 - r) * a >= (100 - r) * m /\ r * b >= r * m
  OBVIOUS
<1>3. a <= m /\ b <= m => (100 - r) * a <= (100 - r) * m /\ r * b <= r * m
  OBVIOUS
<1>4. (100 - r) * a \in Int /\ r * b \in Int /\ (100 - r) * m \in Int /\ r * m \in Int
  OBVIOUS
<1>. QED  BY <1>1, <1>2, <1>3, <1>4

\* Where the percentile lies in the sorted list.
LEMMA PercentileRank ==
    ASSUME NEW n \in Nat \ {0}, NEW pct \in 0..100
    PROVE  /\ pct * (n - 1) \in Nat
           /\ (pct * (n - 1)) % 100 \in 0..99
           /\ 1 + (pct * (n - 1)) \div 100 \in 1..n
           /\ pct * (n - 1) = 100 * ((pct * (n - 1)) \div 100) + ((pct * (n - 1)) % 100)
           /\ (100 - pct) * (n - 1) = 100 * (n - 1) - pct * (n - 1)
<1>1. pct * (n - 1) \in Nat /\ pct * (n - 1) <= 100 * (n - 1)
  OBVIOUS
<1>2. (100 - pct) * (n - 1) = 100 * (n - 1) - pct * (n - 1)
  OBVIOUS
<1>3. ASSUME NEW x \in Nat, x <= 100 * (n - 1)
      PROVE  x % 100 \in 0..99 /\ 1 + x \div 100 \in 1..n /\ x = 100 * (x \div 100) + (x % 100)
  BY <1>3
<1>. QED  BY <1>1, <1>2, <1>3

\* The sorted list: its i-th value is not below one that fewer than i are below, and not above
\* one that leaves i at or below it.
LEMMA SortedByCount ==
    ASSUME Retention!Scanned \subseteq 1..N, NEW v, \A c \in Retention!Timed : v[c] \in Int
    PROVE  LET n == Cardinality(Retention!Timed)
               s == Retention!Sorted(v)
           IN  /\ n \in Nat /\ Len(s) = n
               /\ \A i \in 1..n : s[i] \in Int
               /\ \A i \in 1..n, c \in Retention!Timed :
                    /\ Cardinality({d \in Retention!Timed : v[d] < v[c]}) < i => s[i] >= v[c]
                    /\ i <= n - Cardinality({d \in Retention!Timed : v[d] > v[c]}) => s[i] <= v[c]
<1>. DEFINE S == Retention!Timed
            n == Cardinality(S)
            s == Retention!Sorted(v)
            Below(c) == {d \in S : v[d] < v[c]}
            UpTo(c) == {d \in S : v[d] <= v[c]}
            Above(c) == {d \in S : v[d] > v[c]}
            Place(i, c) == Cardinality(Below(c)) < i /\ i <= Cardinality(UpTo(c))
<1>1. IsFiniteSet(S)
  <2>1. IsFiniteSet(1..N)
    BY RetentionAssumption, FS_Interval
  <2>2. S \subseteq 1..N
    BY DEF Retention!Timed
  <2>. QED  BY <2>1, <2>2, FS_Subset
<1>2. n \in Nat
  BY <1>1, FS_CardinalityType
<1>3. s = [i \in 1..n |-> v[CHOOSE c \in S : Place(i, c)]]
  BY DEF Retention!Sorted, Retention!Cardinality, Cardinality
<1>4. \A c \in S : /\ Cardinality(Below(c)) \in Nat /\ Cardinality(UpTo(c)) \in Nat
                   /\ Cardinality(Above(c)) \in Nat /\ IsFiniteSet(Below(c))
                   /\ IsFiniteSet(UpTo(c)) /\ IsFiniteSet(Above(c))
  BY <1>1, FS_Subset, FS_CardinalityType
<1>5. \A c \in S : Cardinality(UpTo(c)) = n - Cardinality(Above(c))
  <2>. SUFFICES ASSUME NEW c \in S PROVE Cardinality(UpTo(c)) = n - Cardinality(Above(c))
    OBVIOUS
  <2>1. UpTo(c) \cup Above(c) = S /\ UpTo(c) \cap Above(c) = {}
    OBVIOUS
  <2>. HIDE DEF UpTo, Above, S
  <2>2. Cardinality(UpTo(c) \cup Above(c)) =
          Cardinality(UpTo(c)) + Cardinality(Above(c)) - Cardinality(UpTo(c) \cap Above(c))
    BY <1>4, FS_Union
  <2>3. Cardinality(UpTo(c) \cup Above(c)) = n /\ Cardinality(UpTo(c) \cap Above(c)) = 0
    BY <2>1, FS_EmptySet
  <2>4. Cardinality(UpTo(c)) \in Nat /\ Cardinality(Above(c)) \in Nat
    BY <1>4
  <2>. QED  BY <1>2, <2>2, <2>3, <2>4
<1>6. ASSUME NEW i \in 1..n PROVE \E c \in S : Place(i, c) /\ s[i] = v[c]
  <2>1. \E c \in S : Place(i, c)
    BY <1>1, RankExists
  <2>. HIDE DEF Place, S, s
  <2>. QED  BY <1>3, <2>1
<1>7. ASSUME NEW i \in 1..n, NEW c \in S
      PROVE  /\ s[i] \in Int
             /\ Cardinality(Below(c)) < i => s[i] >= v[c]
             /\ i <= n - Cardinality(Above(c)) => s[i] <= v[c]
  <2>1. PICK e \in S : Place(i, e) /\ s[i] = v[e]
    BY <1>6
  <2>2. v[e] \in Int /\ v[c] \in Int
    OBVIOUS
  <2>3. ASSUME v[e] < v[c] PROVE ~(Cardinality(Below(c)) < i)
    <3>1. UpTo(e) \subseteq Below(c)
      BY <2>2, <2>3
    <3>. HIDE DEF UpTo, Below, S, Above, s
    <3>2. Cardinality(UpTo(e)) <= Cardinality(Below(c))
      BY <1>4, <3>1, FS_Subset
    <3>3. Cardinality(UpTo(e)) \in Nat /\ Cardinality(Below(c)) \in Nat /\ i \in Int
      BY <1>2, <1>4
    <3>. QED  BY <2>1, <3>2, <3>3
  <2>4. ASSUME v[e] > v[c] PROVE ~(i <= n - Cardinality(Above(c)))
    <3>1. UpTo(c) \subseteq Below(e)
      BY <2>2, <2>4
    <3>. HIDE DEF UpTo, Below, S, Above, s
    <3>2. Cardinality(UpTo(c)) <= Cardinality(Below(e))
      BY <1>4, <3>1, FS_Subset
    <3>. QED  BY <1>2, <1>4, <1>5, <2>1, <3>2
  <2>. HIDE DEF UpTo, Below, S, Above, s
  <2>. QED  BY <2>1, <2>2, <2>3, <2>4
<1>8. \A i \in 1..n : s[i] \in Int
  <2>1. \A c \in S : v[c] \in Int
    OBVIOUS
  <2>. HIDE DEF S, s, Place
  <2>. QED  BY <1>6, <2>1
<1>9. Len(s) = n
  <2>. HIDE DEF S
  <2>. QED  BY <1>2, <1>3
<1>. HIDE DEF s
<1>. QED  BY <1>2, <1>7, <1>8, <1>9 DEF s

\* A percentile is not below what all values from its rank on are not below, and not above
\* what all values up to its rank are not above.
LEMMA PercentileBounds ==
    ASSUME NEW s, NEW n \in Nat \ {0}, Len(s) = n, \A i \in 1..n : s[i] \in Int,
           NEW pct \in 0..100, NEW k \in Nat, 100 * k <= pct * (n - 1), NEW m \in Int
    PROVE  /\ (\A i \in 1..n : k < i => s[i] >= m) => 100 * m <= Retention!Percentile(s, pct)
           /\ (\A i \in 1..n : i <= n - k => s[i] <= m) => Retention!Percentile(s, 100 - pct) <= 100 * m
<1>1. ASSUME NEW p \in 0..100
      PROVE  \E x \in Nat, lo, hi \in 1..n, r \in 0..99 :
               /\ Retention!Percentile(s, p) = 100 * s[lo] + (s[hi] - s[lo]) * r
               /\ x = p * (n - 1) /\ x = 100 * (lo - 1) + r /\ lo <= hi /\ hi <= lo + 1
  <2>. DEFINE x == p * (n - 1)
              lo == 1 + (x \div 100)
              hi == IF lo < n THEN lo + 1 ELSE lo
              r == x % 100
  <2>1. Retention!Percentile(s, p) = 100 * s[lo] + (s[hi] - s[lo]) * r
    BY DEF Retention!Percentile
  <2>2. x \in Nat /\ r \in 0..99 /\ lo \in 1..n /\ x = 100 * (lo - 1) + r
    <3>1. x \in Nat /\ r \in 0..99 /\ lo \in 1..n /\ x = 100 * (x \div 100) + r
      BY PercentileRank
    <3>2. lo - 1 = x \div 100
      <4>. HIDE DEF x
      <4>. QED  BY <3>1
    <3>. QED  BY <3>1, <3>2
  <2>. HIDE DEF lo
  <2>3. hi \in 1..n /\ lo <= hi /\ hi <= lo + 1
    BY <2>2
  <2>4. x = p * (n - 1)
    OBVIOUS
  <2>. HIDE DEF x, hi, r
  <2>. QED  BY <2>1, <2>2, <2>3, <2>4
<1>2. ASSUME \A i \in 1..n : k < i => s[i] >= m PROVE 100 * m <= Retention!Percentile(s, pct)
  <2>1. PICK x \in Nat, lo, hi \in 1..n, r \in 0..99 :
               /\ Retention!Percentile(s, pct) = 100 * s[lo] + (s[hi] - s[lo]) * r
               /\ x = pct * (n - 1) /\ x = 100 * (lo - 1) + r /\ lo <= hi /\ hi <= lo + 1
    BY <1>1
  <2>2. 100 * k <= 100 * (lo - 1) + r /\ lo <= hi
    BY <2>1
  <2>3. k < lo /\ k < hi
    BY <2>2
  <2>4. s[lo] >= m /\ s[hi] >= m /\ s[lo] \in Int /\ s[hi] \in Int
    BY <1>2, <2>1, <2>3
  <2>5. PICK a, b \in Int : a = s[lo] /\ b = s[hi]
    BY <2>4
  <2>6. 100 * a + (b - a) * r >= 100 * m
    BY <2>4, <2>5, Between
  <2>. QED  BY <2>1, <2>5, <2>6
<1>3. ASSUME \A i \in 1..n : i <= n - k => s[i] <= m
      PROVE  Retention!Percentile(s, 100 - pct) <= 100 * m
  <2>1. PICK x \in Nat, lo, hi \in 1..n, r \in 0..99 :
               /\ Retention!Percentile(s, 100 - pct) = 100 * s[lo] + (s[hi] - s[lo]) * r
               /\ x = (100 - pct) * (n - 1) /\ x = 100 * (lo - 1) + r /\ lo <= hi /\ hi <= lo + 1
    <3>1. 100 - pct \in 0..100
      OBVIOUS
    <3>. QED  BY <1>1, <3>1
  <2>2. 100 * (lo - 1) + r <= 100 * (n - 1) - 100 * k /\ lo <= hi /\ hi <= lo + 1
    <3>1. x = 100 * (n - 1) - pct * (n - 1) /\ pct * (n - 1) \in Int
      BY <2>1, PercentileRank
    <3>. QED  BY <2>1, <3>1
  <2>3. lo <= n - k /\ (hi <= n - k \/ r = 0)
    BY <2>2
  <2>4. s[lo] <= m /\ s[lo] \in Int /\ s[hi] \in Int
    BY <1>3, <2>1, <2>3
  <2>5. CASE hi <= n - k
    <3>1. s[hi] <= m
      BY <1>3, <2>1, <2>5
    <3>2. PICK a, b \in Int : a = s[lo] /\ b = s[hi]
      BY <2>4
    <3>3. 100 * a + (b - a) * r <= 100 * m
      BY <2>4, <3>1, <3>2, Between
    <3>. QED  BY <2>1, <3>2, <3>3
  <2>6. CASE r = 0
    <3>1. (s[hi] - s[lo]) * r = 0
      BY <2>4, <2>6
    <3>. QED  BY <2>1, <2>4, <3>1
  <2>. QED  BY <2>3, <2>5, <2>6
<1>. QED  BY <1>2, <1>3

\* Among the brightest, and among the longest, by the thresholds.
LEMMA BrightestAndLongest ==
    ASSUME Retention!Scanned \subseteq 1..N, NEW c \in Retention!Timed
    PROVE  /\ 100 * Cardinality({d \in Retention!Timed : Mag(d) < Mag(c)})
                <= BrightPct * (Cardinality(Retention!Timed) - 1) => Retention!Bright(c)
           /\ 100 * Cardinality({d \in Retention!Timed : Dur(d) > Dur(c)})
                <= LongPct * (Cardinality(Retention!Timed) - 1) => Retention!Long(c)
<1>. DEFINE S == Retention!Timed
            n == Cardinality(S)
            mags == [d \in S |-> Mag(d)]
            durs == [d \in S |-> Dur(d)]
            Brighter == {d \in S : Mag(d) < Mag(c)}
            Longer == {d \in S : Dur(d) > Dur(c)}
<1>1. IsFiniteSet(S) /\ S \subseteq 1..N
  <2>1. IsFiniteSet(1..N)
    BY RetentionAssumption, FS_Interval
  <2>2. S \subseteq 1..N
    BY DEF Retention!Timed
  <2>. QED  BY <2>1, <2>2, FS_Subset
<1>2. n \in Nat \ {0}
  BY <1>1, FS_CardinalityType, FS_EmptySet
<1>3. /\ IsFiniteSet(Brighter) /\ Cardinality(Brighter) \in Nat
      /\ IsFiniteSet(Longer) /\ Cardinality(Longer) \in Nat
  BY <1>1, FS_Subset, FS_CardinalityType
<1>4. ASSUME 100 * Cardinality(Brighter) <= BrightPct * (n - 1) PROVE Retention!Bright(c)
  <2>1. \A d \in S : mags[d] \in Int
    BY <1>1, RetentionAssumption
  <2>2. {d \in S : mags[d] < mags[c]} = Brighter /\ mags[c] = Mag(c) /\ Mag(c) \in Int
    BY <1>1, RetentionAssumption
  <2>3. Retention!Mags = Retention!Sorted(mags)
    BY DEF Retention!Mags
  <2>. HIDE DEF mags
  <2>4. /\ Len(Retention!Mags) = n /\ \A i \in 1..n : Retention!Mags[i] \in Int
        /\ \A i \in 1..n : Cardinality(Brighter) < i => Retention!Mags[i] >= Mag(c)
    BY <2>1, <2>2, <2>3, SortedByCount
  <2>. HIDE DEF Brighter, n
  <2>5. 100 * Mag(c) <= Retention!Percentile(Retention!Mags, BrightPct)
    BY <1>2, <1>3, <1>4, <2>2, <2>4, RetentionAssumption, PercentileBounds
  <2>. QED  BY <2>5 DEF Retention!Bright
<1>5. ASSUME 100 * Cardinality(Longer) <= LongPct * (n - 1) PROVE Retention!Long(c)
  <2>1. \A d \in S : durs[d] \in Int
    BY <1>1, RetentionAssumption
  <2>2. {d \in S : durs[d] > durs[c]} = Longer /\ durs[c] = Dur(c) /\ Dur(c) \in Int
    BY <1>1, RetentionAssumption
  <2>3. Retention!Durs = Retention!Sorted(durs)
    BY DEF Retention!Durs
  <2>. HIDE DEF durs
  <2>4. /\ Len(Retention!Durs) = n /\ \A i \in 1..n : Retention!Durs[i] \in Int
        /\ \A i \in 1..n : i <= n - Cardinality(Longer) => Retention!Durs[i] <= Dur(c)
    BY <2>1, <2>2, <2>3, SortedByCount
  <2>. HIDE DEF Longer, n
  <2>5. Retention!Percentile(Retention!Durs, 100 - LongPct) <= 100 * Dur(c)
    BY <1>2, <1>3, <1>5, <2>2, <2>4, RetentionAssumption, PercentileBounds
  <2>. QED  BY <2>5 DEF Retention!Long
<1>. QED  BY <1>4, <1>5

\* What the correlation marks: a clip that was marked by an earlier one has it as a partner.
LEMMA MarkedByTurn ==
    ASSUME Retention!Scanned \subseteq 1..N
    PROVE  \E f : /\ Retention!Multistation = f[N]
                 /\ f[0] = (IF gmn THEN Confirmed \cap Retention!Timed ELSE {})
                 /\ \A a \in 1..N :
                      f[a] = f[a - 1] \cup
                        (IF a \notin Retention!Timed \/ a \in f[a - 1] \/ Retention!Later(a) = {}
                         THEN {} ELSE {a} \cup Retention!Later(a))
<1>. DEFINE First == IF gmn THEN Confirmed \cap Retention!Timed ELSE {}
            St(a, m) == m \cup (IF a \notin Retention!Timed \/ a \in m \/ Retention!Later(a) = {}
                                THEN {} ELSE {a} \cup Retention!Later(a))
            F(g, m) == g = [a \in 0..m |-> IF a = 0 THEN First ELSE St(a, g[a - 1])]
            Bad == {m \in 0..N : ~\E g : F(g, m)}
            f == CHOOSE g : F(g, N)
<1>0. N \in Nat
  BY RetentionAssumption
<1>1. Retention!Multistation = f[N]
  BY DEF Retention!Multistation
<1>. HIDE DEF St, First
<1>2. \E g : F(g, 0)
  <2>1. F([a \in 0..0 |-> First], 0)
    OBVIOUS
  <2>. QED  BY <2>1
<1>3. ASSUME NEW m \in 1..N, NEW g, F(g, m - 1) PROVE \E h : F(h, m)
  <2>. DEFINE h == [a \in 0..m |-> IF a < m THEN g[a] ELSE St(m, g[m - 1])]
  <2>1. ASSUME NEW a \in 0..m PROVE h[a] = IF a = 0 THEN First ELSE St(a, h[a - 1])
    <3>1. CASE a = 0
      BY <1>3, <3>1
    <3>2. CASE a # 0 /\ a < m
      <4>1. a \in 0..(m - 1) /\ a - 1 \in 0..m /\ a - 1 < m
        BY <1>0, <3>2
      <4>2. g[a] = St(a, g[a - 1]) /\ h[a] = g[a] /\ h[a - 1] = g[a - 1]
        BY <1>3, <3>2, <4>1
      <4>. QED  BY <3>2, <4>2
    <3>3. CASE a = m
      <4>1. m - 1 \in 0..m /\ m - 1 < m /\ m # 0 /\ ~(m < m)
        BY <1>0
      <4>2. h[m] = St(m, g[m - 1]) /\ h[m - 1] = g[m - 1]
        BY <4>1
      <4>. QED  BY <3>3, <4>1, <4>2
    <3>. QED  BY <1>0, <3>1, <3>2, <3>3
  <2>2. h = [a \in 0..m |-> IF a = 0 THEN First ELSE St(a, h[a - 1])]
    <3>1. h = [a \in 0..m |-> h[a]]
      OBVIOUS
    <3>. HIDE DEF h
    <3>. QED  BY <2>1, <3>1
  <2>. QED  BY <2>2
<1>. HIDE DEF F
<1>4. Bad = {}
  <2>. SUFFICES ASSUME Bad # {} PROVE FALSE
    OBVIOUS
  <2>1. Bad \in SUBSET Nat
    BY <1>0
  <2>2. PICK m \in Bad : \A e \in Bad : m <= e
    BY <2>1, LeastOf
  <2>3. m \in 1..N /\ m - 1 \in 0..N /\ ~(m <= m - 1)
    BY <1>0, <1>2, <2>2
  <2>4. \E g : F(g, m - 1)
    BY <2>2, <2>3
  <2>. QED  BY <1>3, <2>2, <2>3, <2>4
<1>5. F(f, N)
  <2>1. \E g : F(g, N)
    BY <1>0, <1>4
  <2>. QED  BY <2>1
<1>. HIDE DEF f
<1>6. f[0] = First /\ \A a \in 1..N : f[a] = St(a, f[a - 1])
  <2>1. f = [a \in 0..N |-> IF a = 0 THEN First ELSE St(a, f[a - 1])]
    BY <1>5 DEF F
  <2>2. ASSUME NEW a \in 0..N PROVE f[a] = IF a = 0 THEN First ELSE St(a, f[a - 1])
    BY <2>1
  <2>3. 0 \in 0..N /\ \A a \in 1..N : a \in 0..N /\ a # 0
    BY <1>0
  <2>. QED  BY <2>2, <2>3
<1>. QED  BY <1>1, <1>6 DEF St, First

LEMMA WitnessedIsMultistation ==
    ASSUME Retention!Scanned \subseteq 1..N, NEW c \in Retention!Timed,
           Retention!Witnessed(c), ~Retention!PassedOver(c)
    PROVE  c \in Retention!Multistation
<1>. DEFINE Later(a) == Retention!Later(a)
            Timed == Retention!Timed
<1>0. N \in Nat /\ Window \in Nat /\ Timed \subseteq 1..N /\ \A a \in Timed : Time(a) \in Int
  BY RetentionAssumption DEF Retention!Timed
<1>1. PICK f : /\ Retention!Multistation = f[N]
               /\ f[0] = (IF gmn THEN Confirmed \cap Timed ELSE {})
               /\ \A a \in 1..N :
                    f[a] = f[a - 1] \cup
                      (IF a \notin Timed \/ a \in f[a - 1] \/ Later(a) = {} THEN {} ELSE {a} \cup Later(a))
  BY MarkedByTurn
<1>2. ASSUME NEW a \in 0..N PROVE f[a] \subseteq f[N]
  <2>. DEFINE Bad == {b \in 0..N : a <= b /\ ~(f[a] \subseteq f[b])}
  <2>. SUFFICES ASSUME Bad # {} PROVE FALSE
    BY <1>0
  <2>1. Bad \in SUBSET Nat
    BY <1>0
  <2>2. PICK b \in Bad : \A e \in Bad : b <= e
    BY <2>1, LeastOf
  <2>3. b \in 1..N /\ b - 1 \in 0..N /\ a <= b - 1 /\ ~(b <= b - 1)
    BY <1>0, <2>2
  <2>4. f[a] \subseteq f[b - 1]
    BY <2>2, <2>3
  <2>5. f[b - 1] \subseteq f[b]
    BY <1>1, <2>3
  <2>. QED  BY <2>2, <2>4, <2>5
<1>3. ASSUME NEW a \in Timed, Later(a) # {} PROVE a \in f[N]
  <2>1. a \in 1..N /\ a \in f[a] /\ a \in 0..N
    BY <1>0, <1>1, <1>3
  <2>. QED  BY <1>2, <2>1
<1>4. ASSUME NEW a \in 0..N, NEW d \in f[a]
      PROVE  d \in f[0] \/ \E b \in 1..a : b \in Timed /\ (d = b \/ d \in Later(b))
  <2>. DEFINE By(m, x) == x \in f[0] \/ \E b \in 1..m : b \in Timed /\ (x = b \/ x \in Later(b))
              Bad == {m \in 0..N : \E x \in f[m] : ~By(m, x)}
  <2>. SUFFICES ASSUME Bad # {} PROVE FALSE
    OBVIOUS
  <2>1. Bad \in SUBSET Nat
    BY <1>0
  <2>2. PICK m \in Bad : \A e \in Bad : m <= e
    BY <2>1, LeastOf
  <2>3. PICK x \in f[m] : ~By(m, x)
    BY <2>2
  <2>4. m \in 1..N /\ m - 1 \in 0..N /\ ~(m <= m - 1) /\ m \in 1..m
    BY <1>0, <2>2, <2>3
  <2>5. x \notin f[m - 1]
    <3>1. \A z \in f[m - 1] : By(m - 1, z)
      BY <2>2, <2>4
    <3>2. \A b \in 1..(m - 1) : b \in 1..m
      BY <2>4
    <3>. QED  BY <2>3, <3>1, <3>2
  <2>6. m \in Timed /\ (x = m \/ x \in Later(m))
    BY <1>1, <2>3, <2>4, <2>5
  <2>. QED  BY <2>3, <2>4, <2>6
<1>5. CASE Retention!Confirms(c)
  <2>1. c \in f[0] /\ 0 \in 0..N
    BY <1>0, <1>1, <1>5 DEF Retention!Confirms
  <2>. QED  BY <1>1, <1>2, <2>1
<1>6. ASSUME NEW d \in Retention!Partners(c), d > c PROVE c \in f[N]
  <2>1. d \in Timed /\ Time(d) - Time(c) <= Window /\ CamOf(d) # CamOf(c)
    BY <1>0 DEF Retention!Partners
  <2>2. d \in Later(c)
    BY <1>6, <2>1 DEF Retention!Later
  <2>. QED  BY <1>3, <2>2
<1>7. ASSUME NEW d \in Retention!Partners(c), d <= c, ~Retention!Confirms(d),
             \A e \in Retention!Partners(d) : ~(e < d)
      PROVE  c \in f[N]
  <2>1. d \in Timed /\ Time(c) - Time(d) <= Window /\ CamOf(d) # CamOf(c) /\ d < c /\ d \in 1..N
    BY <1>0, <1>7 DEF Retention!Partners
  <2>2. c \in Later(d)
    BY <2>1 DEF Retention!Later
  <2>3. d \notin f[d - 1]
    <3>. SUFFICES ASSUME d \in f[d - 1] PROVE FALSE
      OBVIOUS
    <3>1. d \notin f[0]
      BY <1>1, <1>7, <2>1 DEF Retention!Confirms
    <3>2. d - 1 \in 0..N
      BY <1>0, <2>1
    <3>3. PICK b \in 1..(d - 1) : b \in Timed /\ (d = b \/ d \in Later(b))
      BY <1>4, <3>1, <3>2
    <3>4. b < d /\ d \in Later(b) /\ b \in 1..N
      BY <1>0, <2>1, <3>3
    <3>5. Time(d) - Time(b) <= Window /\ CamOf(d) # CamOf(b)
      BY <3>4 DEF Retention!Later
    <3>6. Time(b) <= Time(d)
      BY <2>1, <3>4, RetentionAssumption
    <3>7. b \in Retention!Partners(d)
      BY <1>0, <2>1, <3>3, <3>5, <3>6 DEF Retention!Partners
    <3>. QED  BY <1>0, <1>7, <2>1, <3>4, <3>7
  <2>4. c \in f[d] /\ d \in 0..N
    BY <1>0, <1>1, <2>1, <2>2, <2>3
  <2>. QED  BY <1>2, <2>4
<1>8. \A d \in Retention!Partners(c) : d \in Int /\ c \in Int
  BY <1>0 DEF Retention!Partners
<1>9. ASSUME NEW d \in Retention!Partners(c),
             ~(d < c /\ (Retention!Confirms(d) \/ \E e \in Retention!Partners(d) : e < d))
      PROVE  c \in f[N]
  <2>1. CASE d > c
    BY <1>6, <2>1
  <2>2. CASE d <= c
    <3>1. d # c
      BY DEF Retention!Partners
    <3>2. d < c
      BY <1>8, <2>2, <3>1
    <3>. QED  BY <1>7, <1>9, <2>2, <3>2
  <2>. QED  BY <1>8, <2>1, <2>2
<1>. QED  BY <1>1, <1>5, <1>9 DEF Retention!PassedOver

\* What the scan has read gives no reason to keep the clip.
Unworthy(c) ==
    /\ seen[c] # "manual"
    /\ c \in Retention!Timed =>
         /\ ~(Retention!Witnessed(c) /\ ~Retention!PassedOver(c))
         /\ ~(100 * Cardinality({d \in Retention!Timed : Mag(d) < Mag(c)})
                <= BrightPct * (Cardinality(Retention!Timed) - 1))
         /\ ~(100 * Cardinality({d \in Retention!Timed : Dur(d) > Dur(c)})
                <= LongPct * (Cardinality(Retention!Timed) - 1))

LEMMA PrunableIsUnworthy ==
    ASSUME Retention!Scanned \subseteq 1..N, NEW c, Retention!Prunable(c)
    PROVE  Unworthy(c)
<1>1. seen[c] # "manual" /\ c \notin Retention!Multistation /\ ~Retention!Bright(c) /\ ~Retention!Long(c)
  BY DEF Retention!Prunable
<1>. QED  BY <1>1, BrightestAndLongest, WitnessedIsMultistation DEF Unworthy

LEMMA UnworthyStays ==
    ASSUME UNCHANGED <<seen, gmn>>, NEW c, Unworthy(c)
    PROVE  Unworthy(c)'
BY DEF Unworthy, Retention!Timed, Retention!Scanned, Retention!Witnessed, Retention!PassedOver,
       Retention!Confirms, Retention!Partners

\* An old clip whose lock is as the scan has read it may go.
LEMMA UnworthyGoes ==
    ASSUME NEW c, Unworthy(c), old, onBox[CamOf(c)].lock[c] = seen[c]
    PROVE  ~Retention!WorthKeeping(c)
<1>1. ~(c \in Retention!Timed /\ Retention!Witnessed(c) /\ ~Retention!PassedOver(c)) /\ onBox[CamOf(c)].lock[c] # "manual"
  BY DEF Unworthy
<1>2. ~(c \in Retention!Timed
        /\ 100 * Cardinality({d \in Retention!Timed : Mag(d) < Mag(c)})
             <= BrightPct * (Cardinality(Retention!Timed) - 1))
  BY DEF Unworthy
<1>3. ~(c \in Retention!Timed
        /\ 100 * Cardinality({d \in Retention!Timed : Dur(d) > Dur(c)})
             <= LongPct * (Cardinality(Retention!Timed) - 1))
  BY DEF Unworthy
<1>. QED  BY <1>1, <1>2, <1>3, RetentionCardinality DEF Retention!WorthKeeping, Retention!Among

\* What is left to remove, of what the scan has read and the box still says.
RetentionInv ==
    /\ Retention!RetentionTypeOK
    /\ removed + Cardinality(left) <= N
    /\ step # "prune" => left = {} /\ removed = 0 /\ hand = Retention!Nothing
    /\ hand # Retention!Nothing =>
         /\ hand.clip \in Retention!Videos
         /\ CamOf(hand.clip) \notin moved => hand.state.lock = onBox[CamOf(hand.clip)].lock
    /\ \A c \in Retention!Scanned : CamOf(c) \notin moved => seen[c] = onBox[CamOf(c)].lock[c]
    /\ \A c \in left : old /\ c \in Retention!Scanned /\ Unworthy(c)
    /\ wronged = {}

\* A video goes only when the night is old and the user has not locked it there.
KeepsLocked ==
    \A c \in mkv \ mkv' :
      CamOf(c) \notin moved => old /\ onBox[CamOf(c)].lock[c] # "manual"

LEMMA RetentionInvInit == ASSUME Retention!RetentionInit PROVE RetentionInv
<1>1. /\ old = FALSE /\ mkv = Retention!Videos /\ pushes = 0 /\ onBox = station
      /\ station = [cam \in RetentionCams |-> Retention!State([c \in Retention!Videos |-> "detection"])]
      /\ step = "idle" /\ apply = FALSE /\ gmn = FALSE /\ toScan = {} /\ left = {} /\ removed = 0
      /\ seen = [c \in {} |-> "none"] /\ hand = Retention!Nothing /\ moved = {} /\ wronged = {}
  BY DEF Retention!RetentionInit
<1>2. Retention!State([c \in Retention!Videos |-> "detection"]) \in Retention!NightStates
  <2>1. [c \in Retention!Videos |-> "detection"] \in [Retention!Videos -> Retention!Locks]
    BY DEF Retention!Locks
  <2>. QED  BY <2>1 DEF Retention!State, Retention!NightStates
<1>3. Retention!Nothing \in [clip : 0..N, state : Retention!NightStates] /\ Retention!Scanned = {}
  BY <1>1, RetentionAssumption
     DEF Retention!Nothing, Retention!State, Retention!NightStates, Retention!Locks, Retention!Scanned
<1>4. Retention!RetentionTypeOK
  <2>1. /\ station \in [RetentionCams -> Retention!NightStates]
        /\ onBox \in [RetentionCams -> Retention!NightStates]
    BY <1>1, <1>2
  <2>2. 0 \in 0..N /\ 0 \in 0..MaxPushes
    BY RetentionAssumption
  <2>3. hand \in [clip : 0..N, state : Retention!NightStates] /\ pushes \in 0..MaxPushes /\ removed \in 0..N
    BY <1>1, <1>3, <2>2
  <2>. QED  BY <1>1, <1>3, <2>1, <2>3 DEF Retention!RetentionTypeOK
<1>. QED  BY <1>1, <1>3, <1>4, FS_EmptySet, RetentionAssumption DEF RetentionInv

\* How many are left to remove.
LEMMA LeftCounted ==
    ASSUME NEW S \in SUBSET Retention!Videos
    PROVE  /\ Cardinality(S) \in Nat /\ Cardinality(S) <= N
           /\ \A c \in S : Cardinality(S \ {c}) = Cardinality(S) - 1
<1>1. IsFiniteSet(1..N) /\ Cardinality(1..N) = N
  BY RetentionAssumption, FS_Interval
<1>2. IsFiniteSet(S) /\ Cardinality(S) <= N
  BY <1>1, FS_Subset DEF Retention!Videos
<1>. QED  BY <1>2, FS_CardinalityType, FS_RemoveElement

\* What stations do: the box changes only for a camera that has moved.
LEMMA RetentionStations ==
    ASSUME RetentionInv, UNCHANGED <<mkv, step, apply, gmn, toScan, seen, left, removed, hand, wronged>>,
           old' \in BOOLEAN, old => old', pushes' \in 0..MaxPushes,
           station' \in [RetentionCams -> Retention!NightStates],
           onBox' \in [RetentionCams -> Retention!NightStates],
           moved \subseteq moved', moved' \subseteq RetentionCams,
           \A cam \in RetentionCams : cam \notin moved' => onBox'[cam] = onBox[cam]
    PROVE  RetentionInv'
<1>1. Retention!RetentionTypeOK'
  BY DEF RetentionInv, Retention!RetentionTypeOK, Retention!Scanned
<1>2. Retention!Scanned' = Retention!Scanned /\ Retention!Scanned \subseteq 1..N
  BY DEF Retention!Scanned, RetentionInv, Retention!RetentionTypeOK, Retention!Videos
<1>3. \A c \in Retention!Scanned : CamOf(c) \notin moved' => seen[c] = onBox'[CamOf(c)].lock[c]
  BY <1>2, RetentionAssumption DEF RetentionInv
<1>4. hand # Retention!Nothing =>
         /\ hand.clip \in Retention!Videos
         /\ CamOf(hand.clip) \notin moved' => hand.state.lock = onBox'[CamOf(hand.clip)].lock
  BY RetentionAssumption DEF RetentionInv, Retention!Videos
<1>5. \A c \in left : old' /\ c \in Retention!Scanned /\ Unworthy(c)'
  BY UnworthyStays DEF RetentionInv
<1>6. removed + Cardinality(left) <= N /\ (step # "prune" => left = {} /\ removed = 0 /\ hand = Retention!Nothing)
  BY DEF RetentionInv
<1>7. Retention!Nothing' = Retention!Nothing /\ Retention!Videos' = Retention!Videos
  OBVIOUS
<1>. QED  BY <1>1, <1>2, <1>3, <1>4, <1>5, <1>6 DEF RetentionInv

LEMMA RetentionOld == ASSUME RetentionInv, Retention!GrowsOld PROVE RetentionInv'
<1>1. /\ old' = TRUE /\ UNCHANGED <<mkv, onBox, station, pushes, moved>>
      /\ UNCHANGED <<step, apply, gmn, toScan, seen, left, removed, hand, wronged>>
  BY DEF Retention!GrowsOld
<1>2. /\ station \in [RetentionCams -> Retention!NightStates]
      /\ onBox \in [RetentionCams -> Retention!NightStates] /\ moved \subseteq RetentionCams
      /\ pushes \in 0..MaxPushes
  BY DEF RetentionInv, Retention!RetentionTypeOK
<1>. QED  BY <1>1, <1>2, RetentionStations

LEMMA RetentionUser ==
    ASSUME RetentionInv, NEW c \in Retention!Videos, NEW l \in {"none", "manual"}, Retention!UserChanges(c, l)
    PROVE  RetentionInv'
<1>1. /\ pushes < MaxPushes /\ pushes' = pushes + 1 /\ UNCHANGED <<old, mkv, onBox, moved>>
      /\ UNCHANGED <<step, apply, gmn, toScan, seen, left, removed, hand, wronged>>
      /\ station' = [station EXCEPT ![CamOf(c)].lock[c] = l]
  BY DEF Retention!UserChanges
<1>2. /\ station \in [RetentionCams -> Retention!NightStates]
      /\ onBox \in [RetentionCams -> Retention!NightStates] /\ moved \subseteq RetentionCams
      /\ pushes \in 0..MaxPushes /\ old \in BOOLEAN
  BY DEF RetentionInv, Retention!RetentionTypeOK
<1>3. pushes' \in 0..MaxPushes
  BY <1>1, <1>2, RetentionAssumption
<1>. DEFINE one == [station[CamOf(c)] EXCEPT !.lock[c] = l]
<1>4. one \in Retention!NightStates
  <2>1. station[CamOf(c)] \in Retention!NightStates /\ l \in Retention!Locks
    BY <1>2, RetentionAssumption DEF Retention!Videos, Retention!Locks
  <2>. QED  BY <2>1 DEF Retention!NightStates
<1>5. station' = [station EXCEPT ![CamOf(c)] = one]
  BY <1>1
<1>. HIDE DEF one
<1>6. station' \in [RetentionCams -> Retention!NightStates]
  BY <1>2, <1>4, <1>5
<1>. QED  BY <1>1, <1>2, <1>3, <1>6, RetentionStations

LEMMA RetentionPush ==
    ASSUME RetentionInv, NEW cam \in RetentionCams, Retention!Push(cam) PROVE RetentionInv'
<1>1. /\ UNCHANGED <<old, mkv, station, pushes>> /\ moved' = moved \cup {cam}
      /\ UNCHANGED <<step, apply, gmn, toScan, seen, left, removed, hand, wronged>>
      /\ onBox' = [onBox EXCEPT ![cam] = station[cam]]
  BY DEF Retention!Push
<1>2. /\ station \in [RetentionCams -> Retention!NightStates]
      /\ onBox \in [RetentionCams -> Retention!NightStates] /\ moved \subseteq RetentionCams
      /\ pushes \in 0..MaxPushes /\ old \in BOOLEAN
  BY DEF RetentionInv, Retention!RetentionTypeOK
<1>. QED  BY <1>1, <1>2, RetentionStations

\* A run begins or ends: nothing scanned, nothing left.
LEMMA RetentionFresh ==
    ASSUME RetentionInv, Retention!Ends \/ \E a, g \in BOOLEAN : Retention!Start(a, g)
    PROVE  RetentionInv'
<1>1. /\ UNCHANGED <<old, mkv, onBox, station, pushes, wronged>>
      /\ step' \in {"idle", "scan"} /\ apply' \in BOOLEAN /\ gmn' \in BOOLEAN
      /\ toScan' \subseteq RetentionCams /\ seen' = [c \in {} |-> "none"] /\ left' = {} /\ removed' = 0
      /\ hand' = Retention!Nothing /\ moved' = {}
  BY DEF RetentionInv, Retention!Ends, Retention!Start
<1>2. Retention!Scanned' = {}
  BY <1>1 DEF Retention!Scanned
<1>3. Retention!Nothing \in [clip : 0..N, state : Retention!NightStates]
  BY RetentionAssumption
     DEF Retention!Nothing, Retention!State, Retention!NightStates, Retention!Locks
<1>4. Retention!RetentionTypeOK'
  BY <1>1, <1>2, <1>3, RetentionAssumption DEF RetentionInv, Retention!RetentionTypeOK
<1>. QED  BY <1>1, <1>2, <1>4, FS_EmptySet, RetentionAssumption DEF RetentionInv

LEMMA RetentionScan ==
    ASSUME RetentionInv, NEW cam \in RetentionCams, Retention!ScanCam(cam) PROVE RetentionInv'
<1>. DEFINE found == {c \in Retention!Of(cam) \cap mkv :
                        onBox[cam].lock[c] # "none" /\ c \notin onBox[cam].pruned}
<1>1. /\ step = "scan" /\ toScan' = toScan \ {cam}
      /\ UNCHANGED <<old, mkv, onBox, station, pushes, step, apply, gmn, left, removed, hand, moved, wronged>>
      /\ \/ seen' = [c \in Retention!Scanned \cup found |->
                       IF c \in found THEN onBox[cam].lock[c] ELSE seen[c]]
         \/ seen' = seen
  BY DEF Retention!ScanCam
<1>2. found \subseteq Retention!Videos /\ \A c \in found : CamOf(c) = cam
  BY DEF Retention!Of
<1>. HIDE DEF found
<1>3. left = {} /\ removed = 0 /\ hand = Retention!Nothing /\ Retention!Scanned \subseteq Retention!Videos
  BY <1>1 DEF RetentionInv, Retention!RetentionTypeOK
<1>4. /\ Retention!Scanned' \subseteq Retention!Videos
      /\ \A c \in Retention!Scanned' : CamOf(c) \notin moved => seen'[c] = onBox[CamOf(c)].lock[c]
  <2>1. CASE seen' = seen
    BY <1>3, <2>1 DEF RetentionInv, Retention!Scanned
  <2>2. CASE seen' = [c \in Retention!Scanned \cup found |->
                        IF c \in found THEN onBox[cam].lock[c] ELSE seen[c]]
    <3>1. Retention!Scanned' = Retention!Scanned \cup found
      BY <2>2 DEF Retention!Scanned
    <3>2. \A c \in Retention!Scanned \cup found :
             seen'[c] = IF c \in found THEN onBox[cam].lock[c] ELSE seen[c]
      BY <2>2
    <3>. QED  BY <1>2, <1>3, <3>1, <3>2 DEF RetentionInv
  <2>. QED  BY <1>1, <2>1, <2>2
<1>5. Retention!RetentionTypeOK'
  BY <1>1, <1>4 DEF RetentionInv, Retention!RetentionTypeOK
<1>. QED  BY <1>1, <1>3, <1>4, <1>5 DEF RetentionInv

LEMMA RetentionDecide == ASSUME RetentionInv, Retention!Decide PROVE RetentionInv'
<1>1. /\ step = "scan" /\ step' = "prune"
      /\ left' = IF old THEN {c \in Retention!Scanned : Retention!Prunable(c)} ELSE {}
      /\ UNCHANGED <<old, mkv, onBox, station, pushes, apply, gmn, toScan, seen, removed, hand, moved, wronged>>
  BY DEF Retention!Decide
<1>2. removed = 0 /\ hand = Retention!Nothing /\ Retention!Scanned \subseteq Retention!Videos
  BY <1>1 DEF RetentionInv, Retention!RetentionTypeOK
<1>3. Retention!Scanned' = Retention!Scanned
  BY <1>1 DEF Retention!Scanned
<1>4. \A c \in left' : old /\ c \in Retention!Scanned /\ Unworthy(c)'
  <2>1. \A c : Retention!Prunable(c) => Unworthy(c)'
    BY <1>1, <1>2, PrunableIsUnworthy, UnworthyStays DEF Retention!Videos
  <2>. QED  BY <1>1, <2>1
<1>5. left' \in SUBSET Retention!Videos
  BY <1>2, <1>4
<1>6. removed' + Cardinality(left') <= N
  BY <1>1, <1>2, <1>5, LeftCounted, RetentionAssumption
<1>7. Retention!RetentionTypeOK'
  BY <1>1, <1>3, <1>5 DEF RetentionInv, Retention!RetentionTypeOK
<1>. QED  BY <1>1, <1>2, <1>3, <1>4, <1>6, <1>7 DEF RetentionInv

\* A clip is decided: it is gone, or it stays.
LEMMA RetentionUnlink ==
    ASSUME RetentionInv, NEW c \in Retention!Videos, Retention!Unlink(c) \/ Retention!UnlinkFails(c)
    PROVE  RetentionInv' /\ (mkv' # mkv => c \in left /\ mkv' = mkv \ {c})
<1>1. /\ step = "prune" /\ c \in left /\ hand = Retention!Nothing /\ left' = left \ {c}
      /\ UNCHANGED <<old, onBox, station, pushes, step, apply, gmn, toScan, seen, moved>>
  BY DEF Retention!Unlink, Retention!UnlinkFails
<1>2. \/ /\ mkv' = mkv \ {c} /\ hand' = [clip |-> c, state |-> onBox[CamOf(c)]]
         /\ removed' = removed + 1
         /\ (Retention!WorthKeeping(c) /\ CamOf(c) \notin moved) \/ wronged' = wronged
      \/ UNCHANGED <<mkv, hand, wronged, removed>>
  BY DEF Retention!Unlink, Retention!UnlinkFails
<1>3. /\ left \in SUBSET Retention!Videos /\ left' \in SUBSET Retention!Videos /\ removed \in Nat
      /\ mkv \subseteq Retention!Videos /\ wronged \subseteq Retention!Videos
      /\ removed + Cardinality(left) <= N /\ CamOf(c) \in RetentionCams /\ c \in 1..N
      /\ onBox[CamOf(c)] \in Retention!NightStates
  BY <1>1, RetentionAssumption DEF RetentionInv, Retention!RetentionTypeOK, Retention!Videos
<1>4. /\ Cardinality(left) \in Nat /\ Cardinality(left') \in Nat /\ Cardinality(left') = Cardinality(left) - 1
  BY <1>1, <1>3, LeftCounted
<1>5. removed' \in 0..N /\ removed' + Cardinality(left') <= N
  BY <1>2, <1>3, <1>4, RetentionAssumption
<1>6. hand' \in [clip : 0..N, state : Retention!NightStates]
  BY <1>1, <1>2, <1>3 DEF RetentionInv, Retention!RetentionTypeOK
<1>7. Retention!Scanned' = Retention!Scanned
  BY <1>1 DEF Retention!Scanned
<1>8. mkv' \subseteq Retention!Videos /\ wronged' = {}
  <2>1. CamOf(c) \notin moved => ~Retention!WorthKeeping(c)
    BY <1>1, UnworthyGoes DEF RetentionInv
  <2>. QED  BY <1>2, <1>3, <2>1 DEF RetentionInv
<1>9. Retention!RetentionTypeOK'
  BY <1>1, <1>3, <1>5, <1>6, <1>7, <1>8 DEF RetentionInv, Retention!RetentionTypeOK
<1>10. hand' # Retention!Nothing => hand'.clip = c /\ hand'.state = onBox[CamOf(c)]
  BY <1>1, <1>2
<1>11. \A d \in left' : old' /\ d \in Retention!Scanned' /\ Unworthy(d)'
  BY <1>1, <1>7, UnworthyStays DEF RetentionInv
<1>12. RetentionInv'
  BY <1>1, <1>5, <1>7, <1>8, <1>9, <1>10, <1>11 DEF RetentionInv
<1>. QED  BY <1>1, <1>2, <1>12

LEMMA RetentionMarks == ASSUME RetentionInv, Retention!Mark PROVE RetentionInv'
<1>. DEFINE cam == CamOf(hand.clip)
            new == [hand.state EXCEPT !.pruned = @ \cup {hand.clip}]
<1>1. /\ hand # Retention!Nothing /\ hand' = Retention!Nothing
      /\ onBox' = [onBox EXCEPT ![cam] = new]
      /\ UNCHANGED <<old, mkv, station, pushes, step, apply, gmn, toScan, seen, left, removed, moved, wronged>>
  BY DEF Retention!Mark
<1>2. /\ hand.clip \in Retention!Videos /\ cam \in RetentionCams
      /\ cam \notin moved => hand.state.lock = onBox[cam].lock
      /\ hand.state \in Retention!NightStates /\ onBox \in [RetentionCams -> Retention!NightStates]
  BY <1>1, RetentionAssumption DEF RetentionInv, Retention!RetentionTypeOK, Retention!Videos
<1>3. new \in Retention!NightStates /\ new.lock = hand.state.lock
  BY <1>2 DEF Retention!NightStates
<1>. HIDE DEF new
<1>. HIDE DEF cam
<1>4. /\ onBox' \in [RetentionCams -> Retention!NightStates] /\ onBox'[cam] = new
      /\ \A other \in RetentionCams : other # cam => onBox'[other] = onBox[other]
  BY <1>1, <1>2, <1>3
<1>5. Retention!Scanned' = Retention!Scanned /\ Retention!Scanned \subseteq 1..N
  BY <1>1 DEF Retention!Scanned, RetentionInv, Retention!RetentionTypeOK, Retention!Videos
<1>6. \A d \in Retention!Scanned : CamOf(d) \notin moved => seen[d] = onBox'[CamOf(d)].lock[d]
  <2>1. \A d \in Retention!Scanned : CamOf(d) \notin moved => onBox'[CamOf(d)].lock = onBox[CamOf(d)].lock
    BY <1>2, <1>3, <1>4, <1>5, RetentionAssumption
  <2>. QED  BY <2>1 DEF RetentionInv
<1>7. \A d \in left' : old' /\ d \in Retention!Scanned' /\ Unworthy(d)'
  BY <1>1, <1>5, UnworthyStays DEF RetentionInv
<1>8. Retention!Nothing \in [clip : 0..N, state : Retention!NightStates]
  BY RetentionAssumption
     DEF Retention!Nothing, Retention!State, Retention!NightStates, Retention!Locks
<1>9. Retention!RetentionTypeOK'
  BY <1>1, <1>4, <1>5, <1>8 DEF RetentionInv, Retention!RetentionTypeOK
<1>. QED  BY <1>1, <1>5, <1>6, <1>7, <1>9 DEF RetentionInv

LEMMA RetentionInvStep ==
    ASSUME RetentionInv, Retention!RetentionNext PROVE RetentionInv' /\ KeepsLocked
<1>1. CASE \E c \in Retention!Videos : Retention!Unlink(c) \/ Retention!UnlinkFails(c)
  <2>1. PICK c \in Retention!Videos : Retention!Unlink(c) \/ Retention!UnlinkFails(c)
    BY <1>1
  <2>2. RetentionInv' /\ (mkv' # mkv => c \in left /\ mkv' = mkv \ {c})
    BY <2>1, RetentionUnlink
  <2>3. KeepsLocked
    BY <2>2 DEF KeepsLocked, RetentionInv, Unworthy
  <2>. QED  BY <2>2, <2>3
<1>2. ASSUME ~(\E c \in Retention!Videos : Retention!Unlink(c) \/ Retention!UnlinkFails(c))
      PROVE  RetentionInv' /\ UNCHANGED mkv
  <2>1. CASE Retention!GrowsOld
    BY <2>1, RetentionOld DEF Retention!GrowsOld
  <2>2. CASE \E c \in Retention!Videos, l \in {"none", "manual"} : Retention!UserChanges(c, l)
    BY <2>2, RetentionUser DEF Retention!UserChanges
  <2>3. CASE \E cam \in RetentionCams : Retention!Push(cam) \/ Retention!ScanCam(cam)
    BY <2>3, RetentionPush, RetentionScan DEF Retention!Push, Retention!ScanCam
  <2>4. CASE Retention!Ends \/ \E a, g \in BOOLEAN : Retention!Start(a, g)
    BY <2>4, RetentionFresh DEF Retention!Ends, Retention!Start
  <2>5. CASE Retention!Decide
    BY <2>5, RetentionDecide DEF Retention!Decide
  <2>6. CASE Retention!Mark
    BY <2>6, RetentionMarks DEF Retention!Mark
  <2>. QED  BY <1>2, <2>1, <2>2, <2>3, <2>4, <2>5, <2>6 DEF Retention!RetentionNext
<1>. QED  BY <1>1, <1>2 DEF KeepsLocked

LEMMA RetentionInvSafe == RetentionInv => Retention!RetentionTypeOK /\ Retention!OnlyPassedOverGo
BY DEF RetentionInv, Retention!OnlyPassedOverGo

LEMMA RetentionInvStays == ASSUME RetentionInv, UNCHANGED retentionVars PROVE RetentionInv'
<1>1. UNCHANGED <<seen, gmn, left, old>> /\ Retention!Scanned' = Retention!Scanned
  BY DEF retentionVars, Retention!Scanned
<1>2. \A c \in left' : old' /\ c \in Retention!Scanned' /\ Unworthy(c)'
  BY <1>1, UnworthyStays DEF RetentionInv
<1>. QED  BY <1>2 DEF retentionVars, RetentionInv, Retention!RetentionTypeOK, Retention!Scanned

------------------------------------------------------------------------------
(* NightlyPost: how often a chat has got the night.                         *)

\* A run neither cut off nor beside another, and none forced.
Calm == kills = 0 /\ ~overlapped /\ \A r \in PostRuns : ~postRun[r].force

\* How far the run has come, and what the marker says of it.
PostSent ==
    /\ marker => triedChats = Chats
    /\ \A r \in PostRuns :
         /\ Post!At(r, "idle") => ~postRun[r].force
         /\ Post!At(r, "media") \/ Post!At(r, "mark") => triedChats = Chats
         /\ Post!At(r, "text") => postRun[r].todo \cup triedChats = Chats
         /\ \A c \in groups[r].offline, d \in groups[r].reported : CamStation(c) # CamStation(d)

\* One run sends at a time, before the marker is there, and to every chat once.
SentOnce ==
    /\ \A r, s \in Post!Sending : r = s
    /\ marker => Post!Sending = {}
    /\ marker \/ Post!Sending # {} \/ \A c \in Chats : got[c] = 0
    /\ \A r \in PostRuns : Post!At(r, "text") => \A c \in postRun[r].todo : got[c] = 0
    /\ \A c \in Chats : got[c] <= 1
PostedCalmly == Calm => SentOnce

PostInv == Post!PostTypeOK /\ PostSent /\ PostedCalmly

LEMMA PostInvInit == ASSUME Post!PostInit PROVE PostInv
<1>1. Post!PostTypeOK
  <2>1. got \in [Chats -> Nat] /\ kills \in 0..MaxKills
    BY MaxKillsAssumption DEF Post!PostInit
  <2>. QED  BY <2>1 DEF Post!PostInit, Post!PostTypeOK, Post!Idle, Post!Nothing
<1>2. Post!Sending = {}
  BY DEF Post!PostInit, Post!Sending, Post!Idle
<1>. QED  BY <1>1, <1>2 DEF Post!PostInit, PostInv, PostSent, PostedCalmly, SentOnce, Post!At, Post!Idle, Post!Nothing

LEMMA PostInvStep == ASSUME PostInv, Post!PostNext PROVE PostInv'
<1> USE DEF Post!At, Post!Idle, Post!Sending, PostInv, Post!PostTypeOK
<1>1. ASSUME NEW cam \in Cams, Post!Indexed(cam) PROVE PostInv'
  BY <1>1, CamStationAssumption DEF Post!Indexed, Calm, PostSent, PostedCalmly, SentOnce
<1>2. ASSUME NEW st \in PostStations, Post!Silent(st) PROVE PostInv'
  BY <1>2 DEF Post!Silent, Calm, PostSent, PostedCalmly, SentOnce
<1>3. ASSUME NEW r \in PostRuns, Post!Collect(r) PROVE PostInv'
  <2>1. Post!PostTypeOK'
    BY <1>3 DEF Post!Collect
  <2>2. Post!Sending' = Post!Sending
    BY <1>3 DEF Post!Collect
  <2>3. PostSent'
    BY <1>3 DEF Post!Collect, PostSent
  <2>4. PostedCalmly'
    BY <1>3, <2>2 DEF Post!Collect, PostSent, PostedCalmly, Calm, SentOnce
  <2>. QED  BY <2>1, <2>3, <2>4
<1>4. ASSUME NEW r \in PostRuns, Post!Classify(r) PROVE PostInv'
  <2>1. Post!PostTypeOK'
    BY <1>4 DEF Post!Classify
  <2>2. PostSent'
    BY <1>4 DEF Post!Classify, Post!Online, PostSent
  <2>3. PostedCalmly'
    BY <1>4 DEF Post!Classify, PostedCalmly, Calm, SentOnce
  <2>. QED  BY <2>1, <2>2, <2>3
<1>5. ASSUME NEW r \in PostRuns, Post!Look(r) PROVE PostInv'
  <2>. /\ postRun[r].step = "look" /\ overlapped' = (overlapped \/ Post!Sending # {})
       /\ UNCHANGED <<rows, heard, groups, marker, triedChats, got, kills>>
    BY <1>5 DEF Post!Look
  <2>1. CASE marker /\ ~postRun[r].force
    <3>1. postRun' = [postRun EXCEPT ![r].step = "over"]
      BY <1>5, <2>1 DEF Post!Look
    <3>2. Post!PostTypeOK' /\ Post!Sending' = Post!Sending
      BY <3>1
    <3>3. PostSent' /\ PostedCalmly'
      BY <3>1, <3>2 DEF PostSent, PostedCalmly, Calm, SentOnce
    <3>. QED  BY <3>2, <3>3
  <2>2. CASE ~marker \/ postRun[r].force
    <3>1. postRun' = [postRun EXCEPT ![r].step = "text", ![r].todo = Chats]
      BY <1>5, <2>2 DEF Post!Look
    <3>2. /\ \A s \in PostRuns : s # r => postRun'[s] = postRun[s]
          /\ postRun'[r] = [postRun[r] EXCEPT !.step = "text", !.todo = Chats]
      BY <3>1
    <3>3. Post!PostTypeOK' /\ Post!Sending' = Post!Sending \cup {r}
      BY <3>1
    <3>4. PostSent'
      BY <3>2 DEF PostSent
    <3>5. ASSUME Calm' PROVE SentOnce'
      <4>1. Calm /\ ~postRun[r].force /\ Post!Sending = {} /\ ~marker
        BY <3>2, <3>5, <2>2 DEF Calm
      <4>2. \A c \in Chats : got[c] = 0
        BY <4>1 DEF PostedCalmly, SentOnce
      <4>. QED  BY <3>2, <3>3, <4>1, <4>2 DEF SentOnce
    <3>. QED  BY <3>3, <3>4, <3>5 DEF PostedCalmly
  <2>. QED  BY <2>1, <2>2
<1>6. ASSUME NEW r \in PostRuns, Post!Text(r) PROVE PostInv'
  <2>. PICK c \in postRun[r].todo :
           /\ triedChats' = triedChats \cup {c}
           /\ got' \in {got, [got EXCEPT ![c] = @ + 1]}
           /\ postRun' = [postRun EXCEPT ![r].todo = @ \ {c},
                               ![r].step = IF postRun[r].todo = {c} THEN "media" ELSE @]
    BY <1>6 DEF Post!Text
  <2>. /\ postRun[r].step = "text"
       /\ UNCHANGED <<rows, heard, groups, marker, kills, overlapped>>
    BY <1>6 DEF Post!Text
  <2>1. /\ \A s \in PostRuns : s # r => postRun'[s] = postRun[s]
        /\ postRun'[r].force = postRun[r].force
        /\ postRun'[r].todo = postRun[r].todo \ {c}
        /\ postRun'[r].step = IF postRun[r].todo = {c} THEN "media" ELSE "text"
    OBVIOUS
  <2>2. postRun'[r] = [postRun[r] EXCEPT !.todo = @ \ {c},
                        !.step = IF postRun[r].todo = {c} THEN "media" ELSE "text"]
    OBVIOUS
  <2>3. \A s \in PostRuns : postRun'[s] \in [step : {"idle", "classify", "look", "text", "media", "mark", "over"},
                         force : BOOLEAN, rows : SUBSET Cams, todo : SUBSET Chats]
    <3>1. postRun[r] \in [step : {"idle", "classify", "look", "text", "media", "mark", "over"},
                         force : BOOLEAN, rows : SUBSET Cams, todo : SUBSET Chats]
      OBVIOUS
    <3>2. postRun'[r] \in [step : {"idle", "classify", "look", "text", "media", "mark", "over"},
                         force : BOOLEAN, rows : SUBSET Cams, todo : SUBSET Chats]
      BY <2>2, <3>1
    <3>. QED  BY <2>1, <3>2
  <2>4. Post!PostTypeOK'
    <3>1. DOMAIN postRun' = PostRuns /\ postRun' = [s \in PostRuns |-> postRun'[s]]
      OBVIOUS
    <3>2. postRun' \in [PostRuns -> [step : {"idle", "classify", "look", "text", "media", "mark", "over"},
                         force : BOOLEAN, rows : SUBSET Cams, todo : SUBSET Chats]]
      BY <2>3, <3>1
    <3>3. got' \in [Chats -> Nat] /\ c \in Chats
      OBVIOUS
    <3>. QED  BY <3>2, <3>3
  <2>5. PostSent'
    BY <2>1 DEF PostSent
  <2>6. Post!Sending' = Post!Sending
    BY <2>1
  <2>7. \A d \in Chats : got'[d] = got[d] \/ (d = c /\ got'[d] = got[d] + 1)
    OBVIOUS
  <2>8. ASSUME Calm' PROVE SentOnce'
    <3>1. SentOnce
      BY <2>1, <2>8 DEF Calm, PostedCalmly
    <3>2. got[c] = 0 /\ \A d \in Chats : got'[d] <= 1
      BY <2>7, <3>1 DEF SentOnce
    <3>3. \A s \in PostRuns : Post!At(s, "text") => s = r
      BY <3>1 DEF SentOnce
    <3>4. \A s \in PostRuns : Post!At(s, "text")' => s = r /\ \A d \in postRun'[s].todo : got'[d] = 0
      BY <2>1, <2>7, <3>1, <3>3 DEF SentOnce
    <3>. QED  BY <2>6, <3>1, <3>2, <3>4 DEF SentOnce
  <2>. QED  BY <2>4, <2>5, <2>8 DEF PostedCalmly
<1>7. ASSUME NEW r \in PostRuns, Post!Media(r) PROVE PostInv'
  <2>1. Post!PostTypeOK'
    BY <1>7 DEF Post!Media
  <2>2. PostSent'
    BY <1>7 DEF Post!Media, PostSent
  <2>3. PostedCalmly'
    BY <1>7 DEF Post!Media, PostedCalmly, Calm, SentOnce
  <2>. QED  BY <2>1, <2>2, <2>3
<1>8. ASSUME NEW r \in PostRuns, Post!Mark(r) PROVE PostInv'
  <2>1. Post!PostTypeOK'
    BY <1>8 DEF Post!Mark, Post!Over
  <2>2. PostSent'
    BY <1>8 DEF Post!Mark, Post!Over, PostSent
  <2>3. PostedCalmly'
    BY <1>8 DEF Post!Mark, Post!Over, PostedCalmly, Calm, SentOnce
  <2>. QED  BY <2>1, <2>2, <2>3
<1>9. ASSUME NEW r \in PostRuns, Post!Killed(r) PROVE PostInv'
  <2>1. Post!PostTypeOK'
    <3>1. kills' \in 0..MaxKills
      BY <1>9, MaxKillsAssumption DEF Post!Killed
    <3>. QED  BY <1>9, <3>1 DEF Post!Killed, Post!Over, Post!StillUnmarked
  <2>2. PostSent'
    BY <1>9 DEF Post!Killed, Post!Over, Post!StillUnmarked, PostSent
  <2>3. PostedCalmly'
    BY <1>9 DEF Post!Killed, PostedCalmly, Calm, SentOnce
  <2>. QED  BY <2>1, <2>2, <2>3
<1>. QED  BY <1>1, <1>2, <1>3, <1>4, <1>5, <1>6, <1>7, <1>8, <1>9 DEF Post!PostNext, Post!Posts

LEMMA PostInvSafe == ASSUME PostInv PROVE Post!PostedOnce
<1>1. kills = 0 \/ kills > 0
  BY MaxKillsAssumption DEF PostInv, Post!PostTypeOK
<1>2. Calm \/ kills > 0 \/ overlapped \/ \E r \in PostRuns : postRun[r].force
  BY <1>1 DEF Calm
<1>3. ASSUME NEW c \in Chats
      PROVE  got[c] <= 1 \/ kills > 0 \/ overlapped \/ \E r \in PostRuns : postRun[r].force
  BY <1>2 DEF PostInv, PostedCalmly, SentOnce
<1>. QED  BY <1>3 DEF PostInv, PostSent, Post!PostedOnce

LEMMA PostInvStays == ASSUME PostInv, UNCHANGED postVars PROVE PostInv'
BY DEF postVars, PostInv, Post!PostTypeOK, PostSent, Post!At, PostedCalmly, SentOnce, Post!Sending,
       Calm

------------------------------------------------------------------------------
(* GmnPoller: an injected event stays in the cache.                         *)

PollerInv ==
    /\ Poller!PollerTypeOK /\ Poller!PinsSurvive
    /\ poller.step \in {"fetch", "store"} => poller.date \in Dates

LEMMA PollerInvInit == ASSUME Poller!PollerInit PROVE PollerInv
BY DEF Poller!PollerInit, PollerInv, Poller!PollerTypeOK, Poller!PinsSurvive, Poller!NoRequest,
       Poller!Payloads

\* The least date of the list is one of the list.
LEMMA NewestIsOfTheList ==
    ASSUME NEW ds \in SUBSET Dates, ds # {}
    PROVE  Poller!Newest(ds) \in ds
<1>1. \E d \in ds : \A e \in ds : d <= e
  BY DatesAssumption, LeastOf
<1>. QED  BY <1>1 DEF Poller!Newest

LEMMA PollerInvStep == ASSUME PollerInv, Poller!PollerNext PROVE PollerInv'
<1> USE DEF PollerInv, Poller!PollerTypeOK, Poller!PinsSurvive, Poller!Payloads, Poller!At
<1>1. ASSUME Poller!Look PROVE PollerInv'
  <2>1. poller.todo \in SUBSET Dates /\ poller.todo # {}
    BY <1>1 DEF Poller!Look
  <2>2. Poller!Newest(poller.todo) \in poller.todo
    BY <2>1, NewestIsOfTheList
  <2>. QED  BY <1>1, <2>1, <2>2 DEF Poller!Look
<1>2. ASSUME Poller!Fetch PROVE PollerInv'
  BY <1>2 DEF Poller!Fetch
<1>3. ASSUME Poller!Store PROVE PollerInv'
  <2>1. CASE poller.date \in pinned
    BY <1>3, <2>1 DEF Poller!Store, Poller!PinnedNow
  <2>2. CASE poller.date \notin pinned
    BY <1>3, <2>2 DEF Poller!Store, Poller!PinnedNow
  <2>. QED  BY <2>1, <2>2
<1>4. ASSUME Poller!Retry PROVE PollerInv'
  BY <1>4 DEF Poller!Retry
<1>5. ASSUME Poller!Refresh PROVE PollerInv'
  BY <1>5, DatesAssumption DEF Poller!Refresh
<1>6. ASSUME Poller!Exit PROVE PollerInv'
  BY <1>6 DEF Poller!Exit
<1>7. ASSUME NEW d \in Dates, Poller!Inject(d) PROVE PollerInv'
  BY <1>7 DEF Poller!Inject
<1>8. ASSUME NEW q \in Requests, NEW d \in Dates, Poller!Miss(q, d) PROVE PollerInv'
  BY <1>8 DEF Poller!Miss
<1>9. ASSUME NEW q \in Requests, Poller!Fill(q) PROVE PollerInv'
  BY <1>9 DEF Poller!Fill, Poller!NoRequest
<1>. QED  BY <1>1, <1>2, <1>3, <1>4, <1>5, <1>6, <1>7, <1>8, <1>9 DEF Poller!PollerNext

LEMMA PollerInvStays == ASSUME PollerInv, UNCHANGED pollerVars PROVE PollerInv'
BY DEF pollerVars, PollerInv, Poller!PollerTypeOK, Poller!PinsSurvive

------------------------------------------------------------------------------
(* GmnMonth: the monthly file, its temporary one and the counts taken of    *)
(* it.                                                                      *)

\* Times that were read are not later than the file's, and nothing is later than the clock.
MonthTimes ==
    /\ mtime <= clock /\ published.at <= clock /\ counts.at <= mtime /\ count.at <= mtime
    /\ \A t \in Threads : monthFetch[t].since <= mtime
    /\ \A t \in Threads : monthFetch[t].step \in {"idle", "lock", "locked"} => monthFetch[t].inode = Month!None
    /\ count.step # "idle" => name.file # Month!None
    /\ published.at >= 1

WrittenAt(at) == CASE at = "first" -> {} [] at = "second" -> {1} [] OTHER -> {1, 2}

\* Until processes cross one thread at most downloads, into the temporary file, and what it
\* has is the newest unless that came out meanwhile.
MonthTemp ==
    /\ \A t, u \in Threads : Month!Downloads(t) /\ Month!Downloads(u) => t = u
    /\ \A t \in Threads : Month!Downloads(t) =>
         /\ name.tmp # Month!None /\ monthFetch[t].inode = name.tmp
         /\ data[name.tmp] = [parts |-> WrittenAt(monthFetch[t].step), of |-> monthFetch[t].of]
         /\ ~hidden => monthFetch[t].of = published.of

\* The file is whole and not the temporary one, and counts of its time are its counts.
MonthFile ==
    name.file # Month!None =>
      /\ name.file # name.tmp /\ data[name.file].parts = Month!Parts
      /\ counts.at = mtime => counts.of = data[name.file].of
      /\ count.step = "store" /\ count.at = mtime => count.of = data[name.file].of
      /\ mtime >= published.at /\ ~hidden => data[name.file].of = published.of

MonthInv == Month!MonthTypeOK /\ MonthTimes /\ (~crossed => MonthTemp /\ MonthFile)

LEMMA MonthInvInit == ASSUME Month!MonthInit PROVE MonthInv
<1>1. /\ clock = 1 /\ published = [of |-> 1, at |-> 1] /\ data = [i \in MonthInodes |-> Month!NoData]
      /\ name = [file |-> 0, tmp |-> 0] /\ mtime = 0 /\ monthFresh = FALSE
      /\ monthFetch = [t \in Threads |-> [step |-> "idle", since |-> 0, inode |-> 0, of |-> 0]]
      /\ counts = [at |-> 0, of |-> 0] /\ count = [step |-> "idle", at |-> 0, of |-> 0]
      /\ expiries = 0 /\ crossed = FALSE /\ hidden = FALSE
  BY DEF Month!MonthInit, Month!None, Month!NoFetch
<1>2. 1 \in 1..MaxNews /\ 0 \in 0..MaxNews /\ 0 \in 0..MaxExpiries
  BY MonthAssumption
<1>3. Month!MonthTypeOK
  <2>1. data \in [MonthInodes -> Month!Contents]
    BY <1>1, <1>2 DEF Month!NoData, Month!Contents
  <2>2. monthFetch \in [Threads -> Month!FetchStates]
    BY <1>1, <1>2 DEF Month!FetchStates, Month!None
  <2>. QED  BY <1>1, <1>2, <2>1, <2>2 DEF Month!MonthTypeOK, Month!None
<1>4. MonthTimes
  BY <1>1 DEF MonthTimes, Month!None
<1>5. MonthTemp /\ MonthFile
  BY <1>1 DEF MonthTemp, MonthFile, Month!Downloads, Month!None
<1>. QED  BY <1>3, <1>4, <1>5 DEF MonthInv

\* The thread of a step moves, the others stay.
LEMMA MonthMoves ==
    ASSUME Month!MonthTypeOK, NEW t \in Threads, NEW to \in Month!FetchStates,
           monthFetch' = [monthFetch EXCEPT ![t] = to]
    PROVE  /\ monthFetch' \in [Threads -> Month!FetchStates]
           /\ monthFetch'[t] = to
           /\ \A u \in Threads : u # t => monthFetch'[u] = monthFetch[u]
BY DEF Month!MonthTypeOK

LEMMA MonthGoes ==
    ASSUME Month!MonthTypeOK, NEW t \in Threads,
           NEW s \in {"idle", "lock", "locked", "first", "second", "replace"}, Month!Goes(t, s)
    PROVE  /\ monthFetch' \in [Threads -> Month!FetchStates]
           /\ monthFetch'[t].step = s /\ monthFetch'[t].since = monthFetch[t].since
           /\ monthFetch'[t].inode = monthFetch[t].inode /\ monthFetch'[t].of = monthFetch[t].of
           /\ \A u \in Threads : u # t => monthFetch'[u] = monthFetch[u]
BY DEF Month!MonthTypeOK, Month!Goes, Month!FetchStates

LEMMA MonthEnds ==
    ASSUME Month!MonthTypeOK, NEW t \in Threads, Month!Ends(t)
    PROVE  /\ monthFetch' \in [Threads -> Month!FetchStates]
           /\ monthFetch'[t].step = "idle" /\ monthFetch'[t].since = 0 /\ monthFetch'[t].inode = Month!None
           /\ \A u \in Threads : u # t => monthFetch'[u] = monthFetch[u]
<1>1. /\ Month!NoFetch \in Month!FetchStates /\ Month!NoFetch.step = "idle"
      /\ Month!NoFetch.since = 0 /\ Month!NoFetch.inode = Month!None
  BY MonthAssumption DEF Month!NoFetch, Month!FetchStates, Month!None
<1>. QED  BY <1>1, MonthMoves DEF Month!Ends

\* The server publishes, or the file grows old.
LEMMA MonthPasses == ASSUME MonthInv, Month!Publish \/ Month!Expire PROVE MonthInv'
<1>. Month!MonthTypeOK /\ MonthTimes
  BY DEF MonthInv
<1>1. CASE Month!Publish
  <2>1. /\ published.of < MaxNews /\ ~crossed /\ clock' = clock + 1
        /\ published' = [of |-> published.of + 1, at |-> clock + 1]
        /\ hidden' = (hidden \/ \E t \in Threads : Month!Downloads(t))
        /\ UNCHANGED <<data, name, mtime, monthFresh, monthFetch, counts, count, expiries, crossed>>
    BY <1>1 DEF Month!Publish
  <2>2. published'.of \in 1..MaxNews /\ published'.at \in Nat /\ published'.at >= 1 /\ clock \in Nat
    BY <2>1, MonthAssumption DEF Month!MonthTypeOK
  <2>3. Month!MonthTypeOK'
    BY <2>1, <2>2 DEF Month!MonthTypeOK
  <2>4. MonthTimes'
    BY <2>1, <2>2 DEF MonthTimes, Month!MonthTypeOK, Month!FetchStates
  <2>5. MonthTemp'
    <3>1. /\ \A t \in Threads : Month!Downloads(t)' <=> Month!Downloads(t)
          /\ ~hidden' => \A t \in Threads : ~Month!Downloads(t)
      BY <2>1 DEF Month!Downloads
    <3>. QED  BY <2>1, <3>1 DEF MonthInv, MonthTemp
  <2>6. MonthFile'
    <3>1. mtime \in Nat /\ published'.at > mtime
      BY <2>1, <2>2 DEF MonthTimes, Month!MonthTypeOK
    <3>2. ~(mtime >= published'.at)
      BY <2>2, <3>1
    <3>. QED  BY <2>1, <3>2 DEF MonthInv, MonthFile
  <2>. QED  BY <2>3, <2>4, <2>5, <2>6 DEF MonthInv
<1>2. CASE Month!Expire
  <2>1. /\ expiries < MaxExpiries /\ monthFresh' = FALSE /\ expiries' = expiries + 1
        /\ UNCHANGED <<clock, published, data, name, mtime, monthFetch, counts, count, crossed, hidden>>
    BY <1>2 DEF Month!Expire
  <2>2. expiries' \in 0..MaxExpiries
    BY <2>1, MonthAssumption DEF Month!MonthTypeOK
  <2>3. Month!MonthTypeOK'
    BY <2>1, <2>2 DEF Month!MonthTypeOK
  <2>4. \A t \in Threads : Month!Downloads(t)' <=> Month!Downloads(t)
    BY <2>1 DEF Month!Downloads
  <2>. QED  BY <2>1, <2>3, <2>4 DEF MonthInv, MonthTimes, MonthTemp, MonthFile
<1>. QED  BY <1>1, <1>2

\* A thread asks, waits, takes the lock, gets no answer or is cut off.
LEMMA MonthWaits ==
    ASSUME MonthInv, NEW t \in Threads,
           Month!Want(t) \/ Month!Lock(t) \/ Month!Breaks(t) \/ Month!NoAnswer(t)
    PROVE  MonthInv'
<1>. Month!MonthTypeOK /\ MonthTimes
  BY DEF MonthInv
<1>1. UNCHANGED <<clock, published, data, name, mtime, monthFresh, counts, count, expiries, crossed, hidden>>
  BY DEF Month!Want, Month!Lock, Month!Breaks, Month!NoAnswer
<1>2. /\ monthFetch' \in [Threads -> Month!FetchStates]
      /\ monthFetch'[t].step \in {"idle", "lock", "locked"} /\ monthFetch'[t].since <= mtime
      /\ monthFetch'[t].inode = Month!None
      /\ \A u \in Threads : u # t => monthFetch'[u] = monthFetch[u]
  <2>0. mtime \in Nat
    BY DEF Month!MonthTypeOK
  <2>1. CASE Month!Want(t)
    <3>. DEFINE new == [Month!NoFetch EXCEPT !.step = "lock", !.since = mtime]
    <3>0. Month!NoFetch \in Month!FetchStates /\ Month!NoFetch.inode = Month!None
      BY MonthAssumption DEF Month!NoFetch, Month!FetchStates, Month!None
    <3>1. new \in Month!FetchStates /\ new.step = "lock" /\ new.since = mtime /\ new.inode = Month!None
      BY <2>0, <3>0 DEF Month!FetchStates
    <3>2. monthFetch' = [monthFetch EXCEPT ![t] = new]
      BY <2>1 DEF Month!Want
    <3>. HIDE DEF new
    <3>3. /\ monthFetch' \in [Threads -> Month!FetchStates] /\ monthFetch'[t] = new
          /\ \A u \in Threads : u # t => monthFetch'[u] = monthFetch[u]
      BY <3>1, <3>2, MonthMoves
    <3>. QED  BY <2>0, <3>1, <3>3
  <2>2. CASE Month!Ends(t)
    BY <2>0, <2>2, MonthEnds
  <2>3. CASE Month!Lock(t) /\ Month!Goes(t, "locked")
    <3>1. monthFetch[t].step = "lock" /\ monthFetch[t].since <= mtime
      BY <2>3 DEF Month!Lock, Month!At, MonthTimes
    <3>2. monthFetch[t].inode = Month!None
      BY <3>1 DEF MonthTimes
    <3>. QED  BY <2>3, <3>1, <3>2, MonthGoes
  <2>. QED  BY <2>1, <2>2, <2>3 DEF Month!Lock, Month!Breaks, Month!Broken, Month!NoAnswer
<1>3. Month!MonthTypeOK'
  BY <1>1, <1>2 DEF Month!MonthTypeOK
<1>4. MonthTimes'
  BY <1>1, <1>2 DEF MonthTimes
<1>5. \A u \in Threads : Month!Downloads(u)' => u # t /\ Month!Downloads(u) /\ monthFetch'[u] = monthFetch[u]
  BY <1>2 DEF Month!Downloads
<1>6. MonthTemp => MonthTemp'
  BY <1>1, <1>5 DEF MonthTemp
<1>. QED  BY <1>1, <1>3, <1>4, <1>6 DEF MonthInv, MonthFile

\* The file that is there is asked for again, and has the time of now.
LEMMA MonthStays == ASSUME MonthInv, NEW t \in Threads, Month!NotModified(t) PROVE MonthInv'
<1>. Month!MonthTypeOK /\ MonthTimes
  BY DEF MonthInv
<1>1. /\ monthFetch[t].step = "locked" /\ monthFetch[t].since >= published.at /\ name.file # Month!None
      /\ clock' = clock + 1 /\ mtime' = clock + 1 /\ monthFresh' = TRUE /\ Month!Ends(t)
      /\ UNCHANGED <<published, data, name, counts, count, expiries, crossed, hidden>>
  BY DEF Month!NotModified, Month!At, Month!Unchanged
<1>2. /\ monthFetch' \in [Threads -> Month!FetchStates]
      /\ monthFetch'[t].step = "idle" /\ monthFetch'[t].since = 0 /\ monthFetch'[t].inode = Month!None
      /\ \A u \in Threads : u # t => monthFetch'[u] = monthFetch[u]
  BY <1>1, MonthEnds
<1>3. /\ mtime \in Nat /\ clock \in Nat /\ mtime' > mtime /\ published.at \in Nat
      /\ counts.at \in Nat /\ count.at \in Nat /\ \A u \in Threads : monthFetch[u].since \in Nat
  BY <1>1 DEF Month!MonthTypeOK, MonthTimes, Month!FetchStates
<1>4. Month!MonthTypeOK'
  BY <1>1, <1>2, <1>3 DEF Month!MonthTypeOK
<1>5. MonthTimes'
  <2>1. ASSUME NEW u \in Threads PROVE monthFetch'[u].since <= mtime'
    <3>1. monthFetch[u].since <= mtime /\ monthFetch[u].since \in Nat /\ mtime' \in Nat
      BY <1>1, <1>3 DEF MonthTimes
    <3>2. monthFetch[u].since <= mtime' /\ 0 <= mtime'
      BY <1>3, <3>1
    <3>. QED  BY <1>2, <3>2
  <2>2. \A u \in Threads : monthFetch'[u].step \in {"idle", "lock", "locked"} => monthFetch'[u].inode = Month!None
    BY <1>2 DEF MonthTimes
  <2>3. /\ mtime' <= clock' /\ published'.at <= clock' /\ counts'.at <= mtime' /\ count'.at <= mtime'
        /\ published'.at >= 1
    BY <1>1, <1>3 DEF MonthTimes
  <2>. QED  BY <1>1, <2>1, <2>2, <2>3 DEF MonthTimes
<1>6. MonthTemp => MonthTemp'
  <2>1. \A u \in Threads : Month!Downloads(u)' => Month!Downloads(u) /\ monthFetch'[u] = monthFetch[u]
    BY <1>2 DEF Month!Downloads
  <2>. QED  BY <1>1, <2>1 DEF MonthTemp
<1>7. MonthFile => MonthFile'
  <2>1. counts'.at # mtime' /\ count'.at # mtime'
    BY <1>1, <1>3 DEF MonthTimes
  <2>2. mtime >= published.at
    BY <1>1, <1>3 DEF MonthTimes
  <2>. QED  BY <1>1, <2>1, <2>2 DEF MonthFile
<1>. QED  BY <1>1, <1>4, <1>5, <1>6, <1>7 DEF MonthInv

\* open() empties the temporary file, or makes one of an inode nobody has.
LEMMA MonthOpens == ASSUME MonthInv, NEW t \in Threads, Month!Download(t) PROVE MonthInv'
<1>. Month!MonthTypeOK /\ MonthTimes
  BY DEF MonthInv
<1>. DEFINE i == IF name.tmp = Month!None THEN CHOOSE j \in Month!Free : TRUE ELSE name.tmp
<1>1. /\ monthFetch[t].step = "locked" /\ monthFetch[t].inode = Month!None
      /\ data' = [data EXCEPT ![i] = [parts |-> {}, of |-> published.of]]
      /\ name' = [name EXCEPT !.tmp = i]
      /\ monthFetch' = [monthFetch EXCEPT ![t].step = "first", ![t].inode = i, ![t].of = published.of]
      /\ crossed' = (crossed \/ \E u \in Threads : Month!Downloads(u))
      /\ UNCHANGED <<clock, published, mtime, monthFresh, counts, count, expiries, hidden>>
  BY DEF Month!Download, Month!At, MonthTimes
<1>2. i \in MonthInodes /\ (name.tmp = Month!None => i # name.file)
  <2>1. CASE name.tmp = Month!None
    <3>. DEFINE f == [u \in Threads |-> monthFetch[u].inode]
    <3>1. /\ f \in [Threads -> MonthInodes \cup {0}] /\ f[t] = 0 /\ name.file \in MonthInodes \cup {0}
      BY <1>1 DEF Month!MonthTypeOK, Month!FetchStates, Month!None
    <3>2. \E j \in MonthInodes : j # name.file /\ \A u \in Threads : f[u] # j
      <4>. HIDE DEF f
      <4>. QED  BY <3>1, MonthAssumption
    <3>3. \E j \in Month!Free : TRUE
      BY <2>1, <3>2, MonthAssumption DEF Month!Free, Month!None
    <3>4. i \in Month!Free
      BY <2>1, <3>3
    <3>. QED  BY <3>4 DEF Month!Free
  <2>2. CASE name.tmp # Month!None
    BY <2>2 DEF Month!MonthTypeOK
  <2>. QED  BY <2>1, <2>2
<1>. HIDE DEF i
<1>3. published.of \in 1..MaxNews /\ published.of \in 0..MaxNews
  BY MonthAssumption DEF Month!MonthTypeOK
<1>4. /\ data' \in [MonthInodes -> Month!Contents] /\ data'[i] = [parts |-> {}, of |-> published.of]
      /\ \A j \in MonthInodes : j # i => data'[j] = data[j]
  <2>1. [parts |-> {}, of |-> published.of] \in Month!Contents
    BY <1>3 DEF Month!Contents
  <2>. QED  BY <1>1, <1>2, <2>1 DEF Month!MonthTypeOK
<1>5. /\ name' \in [file : MonthInodes \cup {Month!None}, tmp : MonthInodes \cup {Month!None}]
      /\ name'.file = name.file /\ name'.tmp = i
  BY <1>1, <1>2 DEF Month!MonthTypeOK
<1>6. /\ monthFetch' \in [Threads -> Month!FetchStates]
      /\ monthFetch'[t].step = "first" /\ monthFetch'[t].since = monthFetch[t].since
      /\ monthFetch'[t].inode = i /\ monthFetch'[t].of = published.of
      /\ \A u \in Threads : u # t => monthFetch'[u] = monthFetch[u]
  BY <1>1, <1>2, <1>3 DEF Month!MonthTypeOK, Month!FetchStates
<1>7. Month!MonthTypeOK'
  <2>1. crossed \in BOOLEAN => crossed' \in BOOLEAN
    BY <1>1
  <2>. QED  BY <1>1, <1>4, <1>5, <1>6 DEF Month!MonthTypeOK
<1>8. MonthTimes'
  BY <1>1, <1>5, <1>6 DEF MonthTimes
<1>9. i # Month!None
  BY <1>2, MonthAssumption DEF Month!None
<1>10. ASSUME ~crossed' PROVE MonthTemp' /\ MonthFile'
  <2>1. ~crossed /\ (\A u \in Threads : ~Month!Downloads(u)) /\ MonthFile
    BY <1>1, <1>10 DEF MonthInv
  <2>2. \A u \in Threads : Month!Downloads(u)' => u = t
    BY <1>6, <2>1 DEF Month!Downloads
  <2>3. MonthTemp'
    <3>1. data'[name'.tmp] = [parts |-> WrittenAt(monthFetch'[t].step), of |-> monthFetch'[t].of]
      BY <1>4, <1>5, <1>6 DEF WrittenAt
    <3>. QED  BY <1>1, <1>5, <1>6, <1>9, <2>2, <3>1 DEF MonthTemp
  <2>4. ASSUME name.file # Month!None PROVE name.file # i /\ data'[name.file] = data[name.file]
    <3>1. name.file # i
      BY <1>1, <1>2, <2>1, <2>4 DEF MonthFile, i
    <3>2. name.file \in MonthInodes
      BY <2>4 DEF Month!MonthTypeOK
    <3>. QED  BY <1>4, <3>1, <3>2
  <2>5. MonthFile'
    BY <1>1, <1>5, <2>1, <2>4 DEF MonthFile
  <2>. QED  BY <2>3, <2>5
<1>. QED  BY <1>7, <1>8, <1>10 DEF MonthInv

\* A part of the body is written.
LEMMA MonthWrites ==
    ASSUME MonthInv, NEW t \in Threads,
           Month!WritePart(t, "first", 1, "second") \/ Month!WritePart(t, "second", 2, "replace")
    PROVE  MonthInv'
<1>. Month!MonthTypeOK /\ MonthTimes
  BY DEF MonthInv
<1>. DEFINE i == monthFetch[t].inode
<1>1. PICK s \in {"second", "replace"}, p \in {1, 2} :
        /\ p = IF s = "second" THEN 1 ELSE 2
        /\ monthFetch[t].step = IF s = "second" THEN "first" ELSE "second"
        /\ data' = [data EXCEPT ![i] = [parts |-> data[i].parts \cup {p}, of |-> monthFetch[t].of]]
        /\ Month!Goes(t, s)
        /\ UNCHANGED <<clock, published, name, mtime, monthFresh, counts, count, expiries, crossed, hidden>>
  BY DEF Month!WritePart, Month!At
<1>. HIDE DEF i
<1>2. /\ monthFetch' \in [Threads -> Month!FetchStates]
      /\ monthFetch'[t].step = s /\ monthFetch'[t].since = monthFetch[t].since
      /\ monthFetch'[t].inode = i /\ monthFetch'[t].of = monthFetch[t].of
      /\ \A u \in Threads : u # t => monthFetch'[u] = monthFetch[u]
  <2>1. s \in {"idle", "lock", "locked", "first", "second", "replace"}
    OBVIOUS
  <2>. QED  BY <1>1, <2>1, MonthGoes DEF i
<1>3. /\ data' \in [MonthInodes -> Month!Contents]
      /\ \A j \in MonthInodes : j # i => data'[j] = data[j]
      /\ i \in MonthInodes => data'[i] = [parts |-> data[i].parts \cup {p}, of |-> monthFetch[t].of]
  <2>1. CASE i \in MonthInodes
    <3>1. [parts |-> data[i].parts \cup {p}, of |-> monthFetch[t].of] \in Month!Contents
      BY <2>1 DEF Month!MonthTypeOK, Month!Contents, Month!FetchStates, Month!Parts
    <3>. QED  BY <1>1, <2>1, <3>1 DEF Month!MonthTypeOK
  <2>2. CASE i \notin MonthInodes
    BY <1>1, <2>2 DEF Month!MonthTypeOK
  <2>. QED  BY <2>1, <2>2
<1>4. Month!MonthTypeOK'
  BY <1>1, <1>2, <1>3 DEF Month!MonthTypeOK
<1>5. MonthTimes'
  BY <1>1, <1>2 DEF MonthTimes
<1>6. ASSUME ~crossed PROVE MonthTemp' /\ MonthFile'
  <2>1. MonthTemp /\ MonthFile /\ Month!Downloads(t)
    BY <1>1, <1>6 DEF MonthInv, Month!Downloads
  <2>2. \A u \in Threads : Month!Downloads(u)' => Month!Downloads(u)
    BY <1>1, <1>2, <2>1 DEF Month!Downloads
  <2>3. \A u \in Threads : Month!Downloads(u)' => u = t
    BY <2>1, <2>2 DEF MonthTemp
  <2>4. /\ i = name.tmp /\ name.tmp # Month!None
        /\ data[i] = [parts |-> WrittenAt(monthFetch[t].step), of |-> monthFetch[t].of]
        /\ ~hidden => monthFetch[t].of = published.of
    BY <2>1 DEF MonthTemp, i
  <2>5. i \in MonthInodes
    BY <2>4 DEF Month!MonthTypeOK
  <2>6. WrittenAt(s) = WrittenAt(monthFetch[t].step) \cup {p}
    BY <1>1 DEF WrittenAt
  <2>7. data'[i] = [parts |-> WrittenAt(s), of |-> monthFetch[t].of]
    BY <1>3, <2>4, <2>5, <2>6
  <2>8. MonthTemp'
    BY <1>1, <1>2, <2>3, <2>4, <2>7 DEF MonthTemp
  <2>9. ASSUME name.file # Month!None PROVE data'[name.file] = data[name.file]
    BY <1>3, <2>1, <2>4, <2>9 DEF MonthFile, Month!MonthTypeOK
  <2>10. MonthFile'
    BY <1>1, <2>1, <2>9 DEF MonthFile
  <2>. QED  BY <2>8, <2>10
<1>. QED  BY <1>1, <1>4, <1>5, <1>6 DEF MonthInv

\* The temporary file becomes the file, unless somebody has moved it away.
LEMMA MonthReplaces == ASSUME MonthInv, NEW t \in Threads, Month!Replace(t) PROVE MonthInv'
<1>. Month!MonthTypeOK /\ MonthTimes
  BY DEF MonthInv
<1>1. /\ monthFetch[t].step = "replace" /\ Month!Ends(t)
      /\ UNCHANGED <<published, data, counts, count, expiries, crossed, hidden>>
  BY DEF Month!Replace, Month!At
<1>2. /\ monthFetch' \in [Threads -> Month!FetchStates]
      /\ monthFetch'[t].step = "idle" /\ monthFetch'[t].since = 0 /\ monthFetch'[t].inode = Month!None
      /\ \A u \in Threads : u # t => monthFetch'[u] = monthFetch[u]
  BY <1>1, MonthEnds
<1>3. \A u \in Threads : Month!Downloads(u)' => u # t /\ Month!Downloads(u)
  BY <1>2 DEF Month!Downloads
<1>4. /\ mtime \in Nat /\ clock \in Nat /\ published.at \in Nat
      /\ counts.at \in Nat /\ count.at \in Nat /\ \A u \in Threads : monthFetch[u].since \in Nat
  BY DEF Month!MonthTypeOK, Month!FetchStates
<1>5. CASE name.tmp = Month!None
  <2>1. UNCHANGED <<clock, name, mtime, monthFresh>>
    BY <1>5 DEF Month!Replace
  <2>2. Month!MonthTypeOK'
    BY <1>1, <1>2, <2>1 DEF Month!MonthTypeOK
  <2>3. \A u \in Threads : monthFetch'[u].since <= mtime
    BY <1>2, <1>4 DEF MonthTimes
  <2>4. MonthTimes'
    BY <1>1, <1>2, <2>1, <2>3 DEF MonthTimes
  <2>5. MonthTemp => MonthTemp'
    BY <1>1, <1>2, <1>3, <2>1 DEF MonthTemp
  <2>6. MonthFile => MonthFile'
    BY <1>1, <2>1 DEF MonthFile
  <2>. QED  BY <1>1, <2>2, <2>4, <2>5, <2>6 DEF MonthInv
<1>6. CASE name.tmp # Month!None
  <2>1. /\ name' = [file |-> name.tmp, tmp |-> Month!None]
        /\ clock' = clock + 1 /\ mtime' = clock + 1 /\ monthFresh' = TRUE
    BY <1>6 DEF Month!Replace
  <2>2. name'.file = name.tmp /\ name'.tmp = Month!None /\ mtime' \in Nat /\ mtime' > mtime /\ mtime' >= published.at
    BY <1>4, <2>1 DEF MonthTimes
  <2>3. Month!MonthTypeOK'
    <3>1. name' \in [file : MonthInodes \cup {Month!None}, tmp : MonthInodes \cup {Month!None}]
      BY <2>1 DEF Month!MonthTypeOK
    <3>. QED  BY <1>1, <1>2, <1>4, <2>1, <3>1 DEF Month!MonthTypeOK
  <2>4. ASSUME NEW u \in Threads PROVE monthFetch'[u].since <= mtime'
    <3>1. monthFetch[u].since <= mtime /\ monthFetch[u].since \in Nat
      BY <1>4 DEF MonthTimes
    <3>2. monthFetch[u].since <= mtime' /\ 0 <= mtime'
      BY <1>4, <2>2, <3>1
    <3>. QED  BY <1>2, <3>2
  <2>5. \A u \in Threads : monthFetch'[u].step \in {"idle", "lock", "locked"} => monthFetch'[u].inode = Month!None
    BY <1>2 DEF MonthTimes
  <2>6. MonthTimes'
    <3>1. /\ mtime' <= clock' /\ published'.at <= clock' /\ counts'.at <= mtime' /\ count'.at <= mtime'
          /\ published'.at >= 1
      BY <1>1, <1>4, <2>1 DEF MonthTimes
    <3>. QED  BY <1>6, <2>2, <2>4, <2>5, <3>1 DEF MonthTimes
  <2>7. ASSUME ~crossed PROVE MonthTemp' /\ MonthFile'
    <3>1. MonthTemp /\ Month!Downloads(t)
      BY <1>1, <2>7 DEF MonthInv, Month!Downloads
    <3>2. \A u \in Threads : ~Month!Downloads(u)'
      BY <1>3, <3>1 DEF MonthTemp
    <3>3. MonthTemp'
      BY <3>2 DEF MonthTemp
    <3>7. /\ data[name.tmp] = [parts |-> WrittenAt(monthFetch[t].step), of |-> monthFetch[t].of]
          /\ ~hidden => monthFetch[t].of = published.of
      BY <3>1 DEF MonthTemp
    <3>8. WrittenAt(monthFetch[t].step) = {1, 2}
      BY <1>1 DEF WrittenAt
    <3>4. /\ data[name.tmp].parts = {1, 2}
          /\ ~hidden => data[name.tmp].of = published.of
      BY <3>7, <3>8
    <3>5. counts'.at # mtime' /\ count'.at # mtime'
      BY <1>1, <1>4, <2>2 DEF MonthTimes
    <3>6. MonthFile'
      BY <1>1, <1>6, <2>2, <3>4, <3>5 DEF MonthFile, Month!Parts
    <3>. QED  BY <3>3, <3>6
  <2>. QED  BY <1>1, <2>3, <2>6, <2>7 DEF MonthInv
<1>. QED  BY <1>5, <1>6

\* The daily counts of the file are taken, under the time read before them.
LEMMA MonthCounts == ASSUME MonthInv, Month!Stat \/ Month!Read \/ Month!Store PROVE MonthInv'
<1>. Month!MonthTypeOK /\ MonthTimes
  BY DEF MonthInv
<1>1. UNCHANGED <<clock, published, data, name, mtime, monthFresh, monthFetch, expiries, crossed, hidden>>
  BY DEF Month!Stat, Month!Read, Month!Store
<1>2. \A t \in Threads : Month!Downloads(t)' <=> Month!Downloads(t)
  BY <1>1 DEF Month!Downloads
<1>3. MonthTemp => MonthTemp'
  BY <1>1, <1>2 DEF MonthTemp
<1>4. mtime \in Nat /\ 0 \in 0..MaxNews /\ 0 <= mtime
  BY MonthAssumption DEF Month!MonthTypeOK
<1>5. CASE Month!Stat
  <2>1. /\ name.file # Month!None /\ UNCHANGED counts
        /\ count' = [step |-> "read", at |-> mtime, of |-> 0]
    BY <1>5 DEF Month!Stat
  <2>2. Month!MonthTypeOK'
    BY <1>1, <1>4, <2>1 DEF Month!MonthTypeOK
  <2>3. MonthTimes'
    BY <1>1, <1>4, <2>1 DEF MonthTimes
  <2>4. MonthFile => MonthFile'
    BY <1>1, <2>1 DEF MonthFile
  <2>. QED  BY <1>1, <1>3, <2>2, <2>3, <2>4 DEF MonthInv
<1>6. CASE Month!Read
  <2>1. /\ count.step = "read" /\ UNCHANGED counts
        /\ count' = [count EXCEPT !.step = "store", !.of = data[name.file].of]
    BY <1>6 DEF Month!Read
  <2>2. name.file \in MonthInodes
    BY <2>1 DEF MonthTimes, Month!MonthTypeOK
  <2>3. count'.step = "store" /\ count'.at = count.at /\ count'.of = data[name.file].of
    BY <2>1 DEF Month!MonthTypeOK
  <2>4. count' \in [step : {"idle", "read", "store"}, at : Nat, of : 0..MaxNews]
    BY <2>1, <2>2 DEF Month!MonthTypeOK, Month!Contents
  <2>5. Month!MonthTypeOK'
    BY <1>1, <2>1, <2>4 DEF Month!MonthTypeOK
  <2>6. MonthTimes'
    BY <1>1, <2>1, <2>3 DEF MonthTimes
  <2>7. MonthFile => MonthFile'
    BY <1>1, <2>1, <2>3 DEF MonthFile
  <2>. QED  BY <1>1, <1>3, <2>5, <2>6, <2>7 DEF MonthInv
<1>7. CASE Month!Store
  <2>1. /\ count.step = "store" /\ counts' = [at |-> count.at, of |-> count.of]
        /\ count' = [step |-> "idle", at |-> 0, of |-> 0]
    BY <1>7 DEF Month!Store, Month!TimeOfStat, Month!None
  <2>2. Month!MonthTypeOK'
    BY <1>1, <1>4, <2>1 DEF Month!MonthTypeOK
  <2>3. MonthTimes'
    BY <1>1, <1>4, <2>1 DEF MonthTimes
  <2>4. MonthFile => MonthFile'
    BY <1>1, <2>1 DEF MonthFile
  <2>. QED  BY <1>1, <1>3, <2>2, <2>3, <2>4 DEF MonthInv
<1>. QED  BY <1>5, <1>6, <1>7

LEMMA MonthInvStep == ASSUME MonthInv, Month!MonthNext PROVE MonthInv'
<1>1. ASSUME NEW t \in Threads, Month!Fetches(t) PROVE MonthInv'
  BY <1>1, MonthWaits, MonthStays, MonthOpens, MonthWrites, MonthReplaces DEF Month!Fetches
<1>. QED  BY <1>1, MonthPasses, MonthCounts DEF Month!MonthNext

LEMMA MonthInvSafe == ASSUME MonthInv PROVE Month!MonthIsSound
BY DEF MonthInv, MonthFile, Month!MonthIsSound

LEMMA MonthInvStays == ASSUME MonthInv, UNCHANGED monthVars PROVE MonthInv'
BY DEF monthVars, MonthInv, Month!MonthTypeOK, MonthTimes, MonthTemp, Month!Downloads, WrittenAt,
       MonthFile

------------------------------------------------------------------------------
(* Registries: the file has every acknowledged change.                      *)

\* An unreadable file is never taken for an empty registry.
RegistryReadable == kind = "users" \/ (kind \in Registry!KeyKinds /\ ~ReadMayFail)
\* What a change has written is the file but for its row.
RegistryHeld ==
    /\ \A t, u \in holder : t = u
    /\ \A t \in Threads : thread[t].step \in {"locked", "written"} => t \in holder
    /\ \A t \in Threads : thread[t].step = "written" => tmp = {thread[t].rows}
    /\ \A t \in Threads : thread[t].step \in {"parsing", "caching"} => thread[t].seen <= file.mtime
RegistryCached ==
    /\ \A p \in Registry!Processes : \A c \in cache[p] : c.mtime = file.mtime => c.rows = file.rows
    /\ \A t \in Threads : thread[t].step = "caching" /\ thread[t].seen = file.mtime =>
                             thread[t].rows = file.rows
RegistryKept ==
    /\ file.rows = acked
    /\ \A t \in Threads : thread[t].step = "written" =>
          \A r \in Rows : r # thread[t].row => thread[t].rows[r] = file.rows[r]
RegistryInv ==
    /\ Registry!RegistryTypeOK
    /\ RegistryHeld
    /\ kind # "config" => RegistryCached
    /\ RegistryReadable => RegistryKept

LEMMA RegistryThreadMoves ==
    ASSUME Registry!RegistryTypeOK, NEW t \in Threads, NEW new \in Registry!ThreadStates,
           Registry!Becomes(t, new)
    PROVE  /\ thread' \in [Threads -> Registry!ThreadStates]
           /\ thread'[t] = new
           /\ \A u \in Threads : u # t => thread'[u] = thread[u]
BY DEF Registry!RegistryTypeOK, Registry!Becomes

LEMMA RegistryIdle == Registry!Idle \in Registry!ThreadStates /\ Registry!Idle.step = "idle"
<1>. DEFINE first == CHOOSE r \in Rows : TRUE
<1>1. first \in Rows
  BY RowsAssumption
<1>2. Registry!Empty \in Registry!Contents
  BY DEF Registry!Empty, Registry!Contents, Registry!Values
<1>. HIDE DEF first
<1>3. Registry!Idle = [step |-> "idle", op |-> "none", row |-> first, seen |-> 0, rows |-> Registry!Empty]
  BY DEF Registry!Idle, first
<1>. QED
  BY <1>1, <1>2, <1>3 DEF Registry!ThreadStates, Registry!Steps

LEMMA RegistryChanges ==
    ASSUME kind \in Registry!Kinds, NEW op, NEW was
    PROVE  /\ Registry!Change(op, was) \subseteq Registry!Values
           /\ Registry!ConfigChange(op, was) \subseteq Registry!Values
<1>1. Registry!ConfigChange(op, was) \subseteq Registry!Values
  BY DEF Registry!ConfigChange, Registry!Values
<1>2. Registry!UserChange(op, was) \subseteq Registry!Values
  BY DEF Registry!UserChange, Registry!Values
<1>3. Registry!ApiKeyChange(op, was) \subseteq Registry!Values
  BY DEF Registry!ApiKeyChange, Registry!Values
<1>4. Registry!StationKeyChange(op, was) \subseteq Registry!Values
  BY DEF Registry!StationKeyChange, Registry!Values
<1>5. Registry!Change(op, was) \subseteq Registry!Values
  BY <1>1, <1>2, <1>3, <1>4 DEF Registry!Change, Registry!Kinds
<1>. QED  BY <1>1, <1>5

\* A reader takes the mtime, then the rows, then caches both.
LEMMA RegistryReads ==
    ASSUME RegistryInv, NEW t \in Threads, Registry!LookUp(t) \/ Registry!Parse(t) \/ Registry!Cache(t)
    PROVE  RegistryInv'
<1>. Registry!RegistryTypeOK
  BY DEF RegistryInv
<1>1. /\ UNCHANGED <<kind, file, tmp, holder, acked, repo>>
      /\ file \in [mtime: Nat, rows: Registry!Contents]
      /\ thread[t] \in Registry!ThreadStates
      /\ ProcOf(t) \in Registry!Processes
  BY DEF Registry!LookUp, Registry!Parse, Registry!Cache, Registry!RegistryTypeOK, Registry!Processes
<1>2. CASE Registry!LookUp(t)
  <2>. DEFINE new == [Registry!Idle EXCEPT !.step = "parsing", !.seen = file.mtime]
  <2>1. new \in Registry!ThreadStates /\ new.step = "parsing" /\ new.seen = file.mtime /\ file.mtime \in Nat
    BY <1>1, RegistryIdle DEF Registry!ThreadStates, Registry!Steps
  <2>2. UNCHANGED cache /\ Registry!Becomes(t, new)
    BY <1>2 DEF Registry!LookUp
  <2>. HIDE DEF new
  <2>3. /\ thread' \in [Threads -> Registry!ThreadStates]
        /\ thread'[t] = new
        /\ \A u \in Threads : u # t => thread'[u] = thread[u]
    BY <2>1, <2>2, RegistryThreadMoves
  <2>. QED
    BY <1>1, <2>1, <2>2, <2>3
       DEF RegistryInv, RegistryHeld, RegistryCached, RegistryReadable, RegistryKept, Registry!RegistryTypeOK
<1>3. CASE Registry!Parse(t)
  <2>. DEFINE new == [thread[t] EXCEPT !.step = "caching", !.rows = file.rows]
  <2>1. /\ new \in Registry!ThreadStates /\ new.step = "caching" /\ new.rows = file.rows
        /\ new.seen = thread[t].seen
    BY <1>1 DEF Registry!ThreadStates, Registry!Steps
  <2>2. UNCHANGED cache /\ Registry!Becomes(t, new) /\ thread[t].step = "parsing"
    BY <1>3 DEF Registry!Parse
  <2>. HIDE DEF new
  <2>3. /\ thread' \in [Threads -> Registry!ThreadStates]
        /\ thread'[t] = new
        /\ \A u \in Threads : u # t => thread'[u] = thread[u]
    BY <2>1, <2>2, RegistryThreadMoves
  <2>. QED
    BY <1>1, <2>1, <2>2, <2>3
       DEF RegistryInv, RegistryHeld, RegistryCached, RegistryReadable, RegistryKept, Registry!RegistryTypeOK
<1>4. CASE Registry!Cache(t)
  <2>. DEFINE c == [mtime |-> thread[t].seen, rows |-> thread[t].rows]
  <2>1. /\ thread[t].step = "caching" /\ Registry!Becomes(t, Registry!Idle)
        /\ cache' = [cache EXCEPT ![ProcOf(t)] = {c}]
    BY <1>4 DEF Registry!Cache, Registry!Stat
  <2>2. /\ thread' \in [Threads -> Registry!ThreadStates]
        /\ thread'[t] = Registry!Idle
        /\ \A u \in Threads : u # t => thread'[u] = thread[u]
    BY <2>1, RegistryIdle, RegistryThreadMoves
  <2>3. c \in [mtime: 0..file.mtime, rows: Registry!Contents]
    BY <1>1, <2>1 DEF RegistryInv, RegistryHeld, Registry!ThreadStates
  <2>. HIDE DEF c
  <2>4. Registry!RegistryTypeOK'
    BY <1>1, <2>1, <2>2, <2>3 DEF Registry!RegistryTypeOK
  <2>5. \A u \in Threads : thread'[u].step # "idle" => thread'[u] = thread[u]
    BY <2>2, RegistryIdle
  <2>7. RegistryHeld'
    BY <1>1, <2>5 DEF RegistryInv, RegistryHeld
  <2>8. RegistryReadable' => RegistryKept'
    BY <1>1, <2>5 DEF RegistryInv, RegistryReadable, RegistryKept
  <2>6. ASSUME kind # "config" PROVE RegistryCached'
    <3>1. \A d \in cache'[ProcOf(t)] : d.mtime = file.mtime => d.rows = file.rows
      BY <1>1, <2>1, <2>6 DEF RegistryInv, RegistryCached, Registry!RegistryTypeOK, c
    <3>2. \A p \in Registry!Processes : p # ProcOf(t) => cache'[p] = cache[p]
      BY <2>1 DEF Registry!RegistryTypeOK
    <3>. QED
      BY <1>1, <2>2, <2>6, <3>1, <3>2, RegistryIdle DEF RegistryInv, RegistryCached
  <2>. QED  BY <1>1, <2>4, <2>6, <2>7, <2>8 DEF RegistryInv
<1>. QED  BY <1>2, <1>3, <1>4

\* A step that touches neither the file nor a cache.
LEMMA RegistryQuiet ==
    ASSUME RegistryInv, NEW t \in Threads, NEW new \in Registry!ThreadStates, Registry!Becomes(t, new),
           new.step \notin {"parsing", "caching", "written"},
           new.step = "locked" => t \in holder',
           UNCHANGED <<kind, file, tmp, cache, acked>>, repo' \in [sha: Nat, rows: Registry!Contents],
           holder' \in SUBSET Threads, \A u, v \in holder' : u = v, holder \ {t} \subseteq holder'
    PROVE  RegistryInv'
<1>. Registry!RegistryTypeOK
  BY DEF RegistryInv
<1>1. /\ thread' \in [Threads -> Registry!ThreadStates]
      /\ thread'[t] = new
      /\ \A u \in Threads : u # t => thread'[u] = thread[u]
  BY RegistryThreadMoves
<1>2. Registry!RegistryTypeOK'
  BY <1>1 DEF Registry!RegistryTypeOK
<1>3. RegistryHeld'
  BY <1>1 DEF RegistryInv, RegistryHeld
<1>4. kind # "config" => RegistryCached'
  BY <1>1 DEF RegistryInv, RegistryCached
<1>5. RegistryReadable' => RegistryKept'
  BY <1>1 DEF RegistryInv, RegistryReadable, RegistryKept
<1>. QED  BY <1>2, <1>3, <1>4, <1>5 DEF RegistryInv

LEMMA RegistryRests ==
    ASSUME RegistryInv, NEW t \in Threads,
           \/ Registry!Lock(t) \/ Registry!Refuse(t)
           \/ Registry!SyncRead(t) \/ Registry!SyncAsk(t) \/ Registry!SyncPut(t) \/ Registry!SyncFails(t)
    PROVE  RegistryInv'
<1>1. /\ UNCHANGED <<kind, file, tmp, cache, acked>>
      /\ Registry!RegistryTypeOK
  BY DEF RegistryInv, Registry!Lock, Registry!Refuse, Registry!SyncRead, Registry!SyncAsk, Registry!SyncPut,
         Registry!SyncFails
<1>2. /\ thread[t] \in Registry!ThreadStates
      /\ file \in [mtime: Nat, rows: Registry!Contents]
      /\ repo \in [sha: Nat, rows: Registry!Contents]
      /\ holder \in SUBSET Threads
      /\ \A u, v \in holder : u = v
  BY <1>1 DEF RegistryInv, RegistryHeld, Registry!RegistryTypeOK
<1>3. CASE Registry!Lock(t)
  <2>. DEFINE new == [thread[t] EXCEPT !.step = "locked"]
  <2>1. new \in Registry!ThreadStates /\ new.step = "locked"
    BY <1>2 DEF Registry!ThreadStates, Registry!Steps
  <2>2. /\ Registry!Becomes(t, new) /\ UNCHANGED repo
        /\ holder' = {t}
    BY <1>3 DEF Registry!Lock, Registry!Free, Registry!Goto
  <2>. HIDE DEF new
  <2>. QED  BY <1>1, <1>2, <1>3, <2>1, <2>2, RegistryQuiet DEF Registry!Lock, Registry!Free
<1>4. CASE Registry!Refuse(t)
  <2>1. Registry!Becomes(t, Registry!Idle) /\ holder' = holder \ {t} /\ UNCHANGED repo
    BY <1>4 DEF Registry!Refuse
  <2>. QED  BY <1>1, <1>2, <2>1, RegistryQuiet, RegistryIdle
<1>5. CASE Registry!SyncRead(t)
  <2>. DEFINE new == [thread[t] EXCEPT !.step = "asking", !.rows = file.rows]
  <2>1. new \in Registry!ThreadStates /\ new.step = "asking"
    BY <1>2 DEF Registry!ThreadStates, Registry!Steps
  <2>2. Registry!Becomes(t, new) /\ UNCHANGED <<repo, holder>>
    BY <1>5 DEF Registry!SyncRead
  <2>. HIDE DEF new
  <2>. QED  BY <1>1, <1>2, <2>1, <2>2, RegistryQuiet
<1>6. CASE Registry!SyncAsk(t)
  <2>. DEFINE new == [thread[t] EXCEPT !.step = "putting", !.seen = repo.sha]
  <2>1. new \in Registry!ThreadStates /\ new.step = "putting"
    BY <1>2 DEF Registry!ThreadStates, Registry!Steps
  <2>2. Registry!Becomes(t, new) /\ UNCHANGED <<repo, holder>>
    BY <1>6 DEF Registry!SyncAsk
  <2>. HIDE DEF new
  <2>. QED  BY <1>1, <1>2, <2>1, <2>2, RegistryQuiet
<1>7. CASE Registry!SyncPut(t)
  <2>1. Registry!Becomes(t, Registry!Idle) /\ UNCHANGED holder
    BY <1>7 DEF Registry!SyncPut
  <2>2. repo' \in [sha: Nat, rows: Registry!Contents]
    BY <1>2, <1>7 DEF Registry!SyncPut, Registry!ThreadStates
  <2>. QED  BY <1>1, <1>2, <2>1, <2>2, RegistryQuiet, RegistryIdle
<1>8. CASE Registry!SyncFails(t)
  <2>1. Registry!Becomes(t, Registry!Idle) /\ UNCHANGED <<repo, holder>>
    BY <1>8 DEF Registry!SyncFails
  <2>. QED  BY <1>1, <1>2, <2>1, RegistryQuiet, RegistryIdle
<1>. QED  BY <1>3, <1>4, <1>5, <1>6, <1>7, <1>8

\* A change begins: the configuration in the memory of the process is changed at once.
LEMMA RegistryBegins ==
    ASSUME RegistryInv, NEW t \in Threads, NEW op \in Registry!Ops, NEW r \in Rows, Registry!Begin(t, op, r)
    PROVE  RegistryInv'
<1>1. UNCHANGED <<kind, file, tmp, holder, acked, repo>> /\ Registry!RegistryTypeOK
  BY DEF RegistryInv, Registry!Begin
<1>2. /\ repo \in [sha: Nat, rows: Registry!Contents]
      /\ holder \in SUBSET Threads
      /\ \A u, v \in holder : u = v
      /\ kind \in Registry!Kinds
      /\ ProcOf(t) \in Registry!Processes
      /\ cache[ProcOf(t)] \in SUBSET [mtime: 0..file.mtime, rows: Registry!Contents]
  BY <1>1 DEF RegistryInv, RegistryHeld, Registry!RegistryTypeOK, Registry!Processes
<1>3. CASE kind # "config"
  <2>. DEFINE new == [Registry!Idle EXCEPT !.step = "waiting", !.op = op, !.row = r]
  <2>1. new \in Registry!ThreadStates /\ new.step = "waiting"
    BY RegistryIdle DEF Registry!ThreadStates, Registry!Steps
  <2>2. Registry!Becomes(t, new) /\ UNCHANGED cache
    BY <1>3 DEF Registry!Begin
  <2>. HIDE DEF new
  <2>. QED  BY <1>1, <1>2, <2>1, <2>2, RegistryQuiet
<1>4. CASE kind = "config"
  <2>1. PICK m \in cache[ProcOf(t)] : \E v \in Registry!ConfigChange(op, m.rows[r]) :
           LET rs == [m.rows EXCEPT ![r] = v] IN
           /\ cache' = [cache EXCEPT ![ProcOf(t)] = {[m EXCEPT !.rows = rs]}]
           /\ Registry!Becomes(t, [Registry!Idle EXCEPT !.step = "waiting", !.op = op, !.row = r, !.rows = rs])
    BY <1>4 DEF Registry!Begin
  <2>2. PICK v \in Registry!ConfigChange(op, m.rows[r]) :
           LET rs == [m.rows EXCEPT ![r] = v] IN
           /\ cache' = [cache EXCEPT ![ProcOf(t)] = {[m EXCEPT !.rows = rs]}]
           /\ Registry!Becomes(t, [Registry!Idle EXCEPT !.step = "waiting", !.op = op, !.row = r, !.rows = rs])
    BY <2>1
  <2>. DEFINE rs == [m.rows EXCEPT ![r] = v]
              new == [Registry!Idle EXCEPT !.step = "waiting", !.op = op, !.row = r, !.rows = rs]
  <2>3. v \in Registry!Values /\ m \in [mtime: 0..file.mtime, rows: Registry!Contents]
    BY <1>2, RegistryChanges
  <2>4. rs \in Registry!Contents
    BY <2>3 DEF Registry!Contents
  <2>. HIDE DEF rs
  <2>5. /\ new \in Registry!ThreadStates /\ new.step = "waiting"
        /\ [m EXCEPT !.rows = rs] \in [mtime: 0..file.mtime, rows: Registry!Contents]
    BY <2>3, <2>4, RegistryIdle DEF Registry!ThreadStates, Registry!Steps
  <2>6. cache' = [cache EXCEPT ![ProcOf(t)] = {[m EXCEPT !.rows = rs]}] /\ Registry!Becomes(t, new)
    BY <2>2 DEF rs
  <2>. HIDE DEF new
  <2>7. /\ thread' \in [Threads -> Registry!ThreadStates]
        /\ thread'[t] = new
        /\ \A u \in Threads : u # t => thread'[u] = thread[u]
    BY <1>1, <2>5, <2>6, RegistryThreadMoves
  <2>8. cache' \in [Registry!Processes -> SUBSET [mtime: 0..file.mtime, rows: Registry!Contents]]
    BY <1>1, <2>5, <2>6 DEF Registry!RegistryTypeOK
  <2>9. Registry!RegistryTypeOK'
    BY <1>1, <2>7, <2>8 DEF Registry!RegistryTypeOK
  <2>10. RegistryHeld'
    BY <1>1, <2>5, <2>7 DEF RegistryInv, RegistryHeld
  <2>. QED
    BY <1>1, <1>4, <2>9, <2>10 DEF RegistryInv, RegistryReadable, Registry!KeyKinds
<1>. QED  BY <1>3, <1>4

\* The rows that a change starts from; those of the file, where the file is always read.
LEMMA RegistryBases ==
    ASSUME RegistryInv, NEW t \in Threads
    PROVE  /\ Registry!Base(t) \subseteq Registry!Contents
           /\ RegistryReadable => \A base \in Registry!Base(t) : base = file.rows
<1>. Registry!RegistryTypeOK
  BY DEF RegistryInv
<1>1. /\ file \in [mtime: Nat, rows: Registry!Contents]
      /\ thread[t] \in Registry!ThreadStates
      /\ ProcOf(t) \in Registry!Processes
      /\ cache[ProcOf(t)] \in SUBSET [mtime: 0..file.mtime, rows: Registry!Contents]
      /\ kind \in Registry!Kinds
  BY DEF Registry!RegistryTypeOK, Registry!Processes
<1>2. file.rows \in Registry!Contents /\ thread[t].rows \in Registry!Contents
  BY <1>1 DEF Registry!ThreadStates
<1>3. Registry!Empty \in Registry!Contents
  BY DEF Registry!Empty, Registry!Contents, Registry!Values
<1>4. CASE kind = "users"
  <2>1. \A c \in Registry!Fresh(ProcOf(t)) : c.rows = file.rows
    BY <1>1, <1>4 DEF RegistryInv, RegistryCached, Registry!Fresh
  <2>2. Registry!UserBase(t) = {file.rows}
    BY <2>1 DEF Registry!UserBase
  <2>3. Registry!Base(t) = Registry!UserBase(t)
    BY <1>4 DEF Registry!Base, Registry!KeyKinds
  <2>. QED
    BY <1>2, <2>2, <2>3
<1>5. CASE kind \in Registry!KeyKinds
  <2>1. Registry!Base(t) = Registry!KeyBase(t)
    BY <1>5 DEF Registry!Base, Registry!KeyKinds
  <2>. QED
    BY <1>2, <1>3, <1>5, <2>1 DEF RegistryReadable, Registry!KeyBase, Registry!KeyKinds
<1>6. CASE kind = "config"
  <2>1. Registry!Base(t) = {thread[t].rows}
    BY <1>6 DEF Registry!Base, Registry!KeyKinds
  <2>. QED
    BY <1>2, <1>6, <2>1 DEF RegistryReadable, Registry!KeyKinds
<1>. QED
  BY <1>1, <1>4, <1>5, <1>6 DEF Registry!Kinds, Registry!KeyKinds

\* Under the lock a thread reads, changes its row and writes the temporary file.
LEMMA RegistryLoads ==
    ASSUME RegistryInv, NEW t \in Threads, Registry!Load(t)
    PROVE  RegistryInv'
<1>1. /\ UNCHANGED <<kind, file, holder, cache, acked, repo>>
      /\ Registry!RegistryTypeOK
      /\ thread[t].step = "locked"
  BY DEF RegistryInv, Registry!Load
<1>2. /\ thread[t] \in Registry!ThreadStates
      /\ kind \in Registry!Kinds
  BY <1>1 DEF Registry!RegistryTypeOK
<1>3. thread[t].row \in Rows
  BY <1>2 DEF Registry!ThreadStates
<1>4. PICK base \in Registry!Base(t) :
        \E v \in IF kind = "config" THEN {base[thread[t].row]} ELSE Registry!Change(thread[t].op, base[thread[t].row]) :
           LET rs == [base EXCEPT ![thread[t].row] = v] IN
           /\ tmp' = {rs}
           /\ Registry!Becomes(t, [thread[t] EXCEPT !.step = "written", !.rows = rs])
  BY DEF Registry!Load
<1>5. base \in Registry!Contents
  BY RegistryBases
<1>6. PICK v \in Registry!Values :
           LET rs == [base EXCEPT ![thread[t].row] = v] IN
           /\ tmp' = {rs}
           /\ Registry!Becomes(t, [thread[t] EXCEPT !.step = "written", !.rows = rs])
  <2>1. base[thread[t].row] \in Registry!Values
    BY <1>3, <1>5 DEF Registry!Contents
  <2>. QED  BY <1>2, <1>4, <2>1, RegistryChanges
<1>. DEFINE rs == [base EXCEPT ![thread[t].row] = v]
            new == [thread[t] EXCEPT !.step = "written", !.rows = rs]
<1>7. /\ rs \in Registry!Contents
      /\ \A r \in Rows : r # thread[t].row => rs[r] = base[r]
  BY <1>3, <1>5 DEF Registry!Contents
<1>8. tmp' = {rs} /\ Registry!Becomes(t, new)
  BY <1>6
<1>. HIDE DEF rs
<1>9. /\ new \in Registry!ThreadStates
      /\ new.step = "written" /\ new.row = thread[t].row /\ new.rows = rs
  BY <1>2, <1>7 DEF Registry!ThreadStates, Registry!Steps
<1>. HIDE DEF new
<1>10. /\ thread' \in [Threads -> Registry!ThreadStates]
       /\ thread'[t] = new
       /\ \A u \in Threads : u # t => thread'[u] = thread[u]
  BY <1>1, <1>8, <1>9, RegistryThreadMoves
<1>11. Registry!RegistryTypeOK'
  BY <1>1, <1>7, <1>8, <1>10 DEF Registry!RegistryTypeOK
<1>12. \A u \in Threads : u # t => thread[u].step # "written"
  BY <1>1 DEF RegistryInv, RegistryHeld
<1>13. RegistryHeld'
  BY <1>1, <1>8, <1>9, <1>10, <1>12 DEF RegistryInv, RegistryHeld
<1>14. kind # "config" => RegistryCached'
  BY <1>1, <1>9, <1>10 DEF RegistryInv, RegistryCached
<1>15. RegistryReadable' => RegistryKept'
  <2>1. RegistryReadable' = RegistryReadable
    BY <1>1 DEF RegistryReadable
  <2>2. RegistryReadable => base = file.rows
    BY RegistryBases
  <2>. QED
    BY <1>1, <1>7, <1>9, <1>10, <1>12, <2>1, <2>2 DEF RegistryInv, RegistryKept
<1>. QED  BY <1>1, <1>11, <1>13, <1>14, <1>15 DEF RegistryInv

\* What the lock holder has written becomes the file.
LEMMA RegistryReplaces ==
    ASSUME RegistryInv, NEW t \in Threads, Registry!Replace(t)
    PROVE  RegistryInv'
<1>1. /\ UNCHANGED <<kind, cache, repo>> /\ tmp' = {}
      /\ Registry!RegistryTypeOK
      /\ thread[t].step = "written"
      /\ holder' = holder \ {t}
      /\ acked' = [acked EXCEPT ![thread[t].row] = thread[t].rows[thread[t].row]]
  BY DEF RegistryInv, Registry!Replace
<1>2. /\ thread[t] \in Registry!ThreadStates
      /\ file \in [mtime: Nat, rows: Registry!Contents]
      /\ acked \in Registry!Contents
      /\ tmp = {thread[t].rows}
  BY <1>1 DEF RegistryInv, RegistryHeld, Registry!RegistryTypeOK
<1>3. thread[t].row \in Rows /\ thread[t].rows \in Registry!Contents
  BY <1>2 DEF Registry!ThreadStates
<1>4. file' = [mtime |-> file.mtime + 1, rows |-> thread[t].rows]
  BY <1>2 DEF Registry!Replace
<1>5. /\ file' \in [mtime: Nat, rows: Registry!Contents]
      /\ file'.mtime = file.mtime + 1 /\ file'.rows = thread[t].rows
      /\ file.mtime \in Nat
  BY <1>2, <1>3, <1>4
<1>6. acked' \in Registry!Contents
  BY <1>1, <1>2, <1>3 DEF Registry!Contents
<1>7. PICK s \in {"reading", "unlocked"} : Registry!Becomes(t, [thread[t] EXCEPT !.step = s])
  BY DEF Registry!Replace, Registry!Goto
<1>. DEFINE new == [thread[t] EXCEPT !.step = s]
<1>8. new \in Registry!ThreadStates /\ new.step = s
  BY <1>2 DEF Registry!ThreadStates, Registry!Steps
<1>. HIDE DEF new
<1>9. /\ thread' \in [Threads -> Registry!ThreadStates]
      /\ thread'[t] = new
      /\ \A u \in Threads : u # t => thread'[u] = thread[u]
  BY <1>1, <1>7, <1>8, RegistryThreadMoves DEF new
<1>10. cache' \in [Registry!Processes -> SUBSET [mtime: 0..file'.mtime, rows: Registry!Contents]]
  BY <1>1, <1>5 DEF Registry!RegistryTypeOK
<1>11. Registry!RegistryTypeOK'
  BY <1>1, <1>5, <1>6, <1>9, <1>10 DEF Registry!RegistryTypeOK
<1>12. \A u \in Threads : u # t => thread[u].step # "written"
  BY <1>1 DEF RegistryInv, RegistryHeld
<1>13. RegistryHeld'
  <2>1. \A u \in Threads : thread'[u].step \in {"parsing", "caching"} => thread'[u].seen <= file'.mtime
    <3>1. \A u \in Threads : thread[u].seen \in Nat
      BY <1>1 DEF Registry!RegistryTypeOK, Registry!ThreadStates
    <3>. QED  BY <1>5, <1>8, <1>9, <3>1 DEF RegistryInv, RegistryHeld
  <2>. QED  BY <1>1, <1>8, <1>9, <1>12, <2>1 DEF RegistryInv, RegistryHeld
<1>14. RegistryCached'
  <2>1. \A p \in Registry!Processes : \A c \in cache'[p] : c.mtime # file'.mtime
    BY <1>1, <1>5 DEF Registry!RegistryTypeOK
  <2>2. \A u \in Threads : thread'[u].step = "caching" => thread'[u].seen # file'.mtime
    <3>1. \A u \in Threads : thread[u].seen \in Nat
      BY <1>1 DEF Registry!RegistryTypeOK, Registry!ThreadStates
    <3>. QED  BY <1>5, <1>8, <1>9, <3>1 DEF RegistryInv, RegistryHeld
  <2>. QED  BY <2>1, <2>2 DEF RegistryCached
<1>15. RegistryReadable' => RegistryKept'
  <2>1. SUFFICES ASSUME RegistryReadable PROVE RegistryKept'
    BY <1>1 DEF RegistryReadable
  <2>2. file.rows = acked /\ \A r \in Rows : r # thread[t].row => thread[t].rows[r] = acked[r]
    BY <1>1, <2>1 DEF RegistryInv, RegistryKept
  <2>3. acked' = thread[t].rows
    BY <1>1, <1>2, <1>3, <2>2 DEF Registry!Contents
  <2>. QED  BY <1>5, <1>8, <1>9, <1>12, <2>3 DEF RegistryKept
<1>. QED  BY <1>11, <1>13, <1>14, <1>15 DEF RegistryInv

LEMMA RegistryInvalidates ==
    ASSUME RegistryInv, NEW t \in Threads, Registry!Invalidate(t)
    PROVE  RegistryInv'
<1>1. /\ UNCHANGED <<kind, file, tmp, holder, acked, repo>>
      /\ Registry!RegistryTypeOK
      /\ cache' = [cache EXCEPT ![ProcOf(t)] = {}]
      /\ Registry!Becomes(t, Registry!Idle)
  BY DEF RegistryInv, Registry!Invalidate
<1>2. /\ thread' \in [Threads -> Registry!ThreadStates]
      /\ thread'[t] = Registry!Idle
      /\ \A u \in Threads : u # t => thread'[u] = thread[u]
  BY <1>1, RegistryThreadMoves, RegistryIdle
<1>3. cache' \in [Registry!Processes -> SUBSET [mtime: 0..file.mtime, rows: Registry!Contents]]
  BY <1>1 DEF Registry!RegistryTypeOK
<1>4. Registry!RegistryTypeOK'
  BY <1>1, <1>2, <1>3 DEF Registry!RegistryTypeOK
<1>5. \A u \in Threads : thread'[u].step # "idle" => thread'[u] = thread[u]
  BY <1>2, RegistryIdle
<1>6. RegistryHeld'
  BY <1>1, <1>5 DEF RegistryInv, RegistryHeld
<1>7. \A p \in Registry!Processes : cache'[p] \subseteq cache[p]
  BY <1>1 DEF Registry!RegistryTypeOK
<1>8. kind # "config" => RegistryCached'
  BY <1>1, <1>5, <1>7 DEF RegistryInv, RegistryCached
<1>9. RegistryReadable' => RegistryKept'
  BY <1>1, <1>5 DEF RegistryInv, RegistryReadable, RegistryKept
<1>. QED  BY <1>1, <1>4, <1>6, <1>8, <1>9 DEF RegistryInv

\* A process ends between any two steps of its threads.
LEMMA RegistryRestarts ==
    ASSUME RegistryInv, NEW p \in Registry!Processes, Registry!Restart(p)
    PROVE  RegistryInv'
<1>. DEFINE gone == {t \in Threads : ProcOf(t) = p}
            read == IF kind = "config" THEN {[mtime |-> 0, rows |-> file.rows]} ELSE {}
<1>1. /\ UNCHANGED <<kind, file, tmp, acked, repo>>
      /\ Registry!RegistryTypeOK
      /\ thread' = [t \in Threads |-> IF t \in gone THEN Registry!Idle ELSE thread[t]]
      /\ holder' = holder \ gone
      /\ cache' = [cache EXCEPT ![p] = read]
  BY DEF RegistryInv, Registry!Restart
<1>2. file \in [mtime: Nat, rows: Registry!Contents]
  BY <1>1 DEF Registry!RegistryTypeOK
<1>3. read \in SUBSET [mtime: 0..file.mtime, rows: Registry!Contents]
  BY <1>2
<1>4. kind # "config" => read = {}
  OBVIOUS
<1>. HIDE DEF gone, read
<1>5. \A u \in Threads : thread'[u] = IF u \in gone THEN Registry!Idle ELSE thread[u]
  BY <1>1
<1>6. Registry!RegistryTypeOK'
  <2>1. thread' \in [Threads -> Registry!ThreadStates]
    BY <1>1, RegistryIdle DEF Registry!RegistryTypeOK
  <2>2. cache' \in [Registry!Processes -> SUBSET [mtime: 0..file.mtime, rows: Registry!Contents]]
    BY <1>1, <1>3 DEF Registry!RegistryTypeOK
  <2>. QED  BY <1>1, <2>1, <2>2 DEF Registry!RegistryTypeOK
<1>7. \A u \in Threads : thread'[u].step # "idle" => thread'[u] = thread[u] /\ u \notin gone
  BY <1>5, RegistryIdle
<1>8. RegistryHeld'
  BY <1>1, <1>7 DEF RegistryInv, RegistryHeld
<1>9. kind # "config" => RegistryCached'
  <2>1. \A q \in Registry!Processes : kind # "config" => cache'[q] \subseteq cache[q]
    BY <1>1, <1>4 DEF Registry!RegistryTypeOK
  <2>. QED  BY <1>1, <1>7, <2>1 DEF RegistryInv, RegistryCached
<1>10. RegistryReadable' => RegistryKept'
  BY <1>1, <1>7 DEF RegistryInv, RegistryReadable, RegistryKept
<1>. QED  BY <1>1, <1>6, <1>8, <1>9, <1>10 DEF RegistryInv

LEMMA RegistryInvInit == ASSUME Registry!RegistryInit PROVE RegistryInv
<1>1. /\ file.mtime = 0 /\ file \in [mtime: Nat, rows: Registry!Contents]
      /\ acked = file.rows
      /\ repo \in [sha: Nat, rows: Registry!Contents]
  BY DEF Registry!RegistryInit, Registry!Contents, Registry!Values
<1>2. /\ thread \in [Threads -> Registry!ThreadStates]
      /\ \A t \in Threads : thread[t].step = "idle"
  BY RegistryIdle DEF Registry!RegistryInit
<1>3. cache \in [Registry!Processes -> SUBSET [mtime: 0..file.mtime, rows: Registry!Contents]]
  BY <1>1 DEF Registry!RegistryInit
<1>4. Registry!RegistryTypeOK
  BY <1>1, <1>2, <1>3 DEF Registry!RegistryInit, Registry!RegistryTypeOK
<1>5. RegistryHeld
  BY <1>2 DEF Registry!RegistryInit, RegistryHeld
<1>6. kind # "config" => RegistryCached
  BY <1>2 DEF Registry!RegistryInit, RegistryCached
<1>7. RegistryKept
  BY <1>1, <1>2 DEF RegistryKept
<1>. QED  BY <1>4, <1>5, <1>6, <1>7 DEF RegistryInv

LEMMA RegistryInvStep == ASSUME RegistryInv, Registry!RegistryNext PROVE RegistryInv'
<1>1. CASE \E t \in Threads : Registry!RegistryStep(t)
  <2>1. PICK t \in Threads : Registry!RegistryStep(t)
    BY <1>1
  <2>2. CASE Registry!LookUp(t) \/ Registry!Parse(t) \/ Registry!Cache(t)
    BY <2>2, RegistryReads
  <2>3. CASE \E op \in Registry!Ops, r \in Rows : Registry!Begin(t, op, r)
    BY <2>3, RegistryBegins
  <2>4. CASE Registry!Load(t)
    BY <2>4, RegistryLoads
  <2>5. CASE Registry!Replace(t)
    BY <2>5, RegistryReplaces
  <2>6. CASE Registry!Invalidate(t)
    BY <2>6, RegistryInvalidates
  <2>7. CASE \/ Registry!Lock(t) \/ Registry!Refuse(t)
             \/ Registry!SyncRead(t) \/ Registry!SyncAsk(t) \/ Registry!SyncPut(t) \/ Registry!SyncFails(t)
    BY <2>7, RegistryRests
  <2>. QED  BY <2>1, <2>2, <2>3, <2>4, <2>5, <2>6, <2>7 DEF Registry!RegistryStep
<1>2. CASE \E p \in Registry!Processes : Registry!Restart(p)
  BY <1>2, RegistryRestarts
<1>. QED  BY <1>1, <1>2 DEF Registry!RegistryNext

LEMMA RegistryInvSafe ==
    ASSUME ReadMayFail = FALSE, RegistryInv PROVE Registry!NoChangeIsLost
BY DEF RegistryInv, RegistryReadable, RegistryKept, Registry!NoChangeIsLost, Registry!RegistryTypeOK,
       Registry!Kinds, Registry!KeyKinds

LEMMA RegistryInvStays == ASSUME RegistryInv, UNCHANGED registryVars PROVE RegistryInv'
BY DEF registryVars, RegistryInv, Registry!RegistryTypeOK, RegistryCached, RegistryReadable,
       RegistryKept, RegistryHeld

------------------------------------------------------------------------------
(* NightCapture: every chunk of the night is accounted for.                 *)

\* Where a chunk of the night may be; while the dawn process runs a closed one is ready or its
\* event is under way, and in the last pass it is still to do or somewhere.
NightSomewhere == stacked \cup failed \cup lost \cup events \cup Night!Waiting
NightKnown == ready \cup lost \cup events
NightClosed == {c \in Chunks : chunk[c] = "closed"}
NightAccounted ==
    /\ hour = "night" => dawn = "idle" /\ outcome = "none"
    /\ dawn # "idle" => NightClosed \subseteq NightKnown
    /\ dawn = "final" => NightClosed \subseteq todo \cup NightSomewhere
    /\ outcome = "whole" => NightClosed \subseteq NightSomewhere
NightInv == Night!CaptureTypeOK /\ NightAccounted

LEMMA NightInvSafe == ASSUME NightInv PROVE Night!MorningCatchesUp
BY DEF NightInv, NightAccounted, NightClosed, NightSomewhere, Night!MorningCatchesUp

\* What waits for the stacker when a chunk is queued or taken.
LEMMA NightWaiting ==
    ASSUME Night!CaptureTypeOK
    PROVE  /\ Night!Waiting \subseteq Chunks
           /\ \A c \in Chunks : LET longer == Append(queue, c) IN
                longer \in Seq(Chunks) /\ {longer[i] : i \in DOMAIN longer} = {queue[i] : i \in DOMAIN queue} \cup {c}
           /\ queue # <<>> =>
                /\ Head(queue) \in Chunks /\ Tail(queue) \in Seq(Chunks)
                /\ {queue[i] : i \in DOMAIN queue} =
                     {Head(queue)} \cup {Tail(queue)[i] : i \in DOMAIN Tail(queue)}
<1>1. queue \in Seq(Chunks) /\ stacking \subseteq Chunks
  BY DEF Night!CaptureTypeOK
<1>2. Night!Waiting \subseteq Chunks
  BY <1>1 DEF Night!Waiting
<1>3. ASSUME NEW c \in Chunks
      PROVE  /\ Append(queue, c) \in Seq(Chunks)
             /\ {Append(queue, c)[i] : i \in DOMAIN Append(queue, c)} = {queue[i] : i \in DOMAIN queue} \cup {c}
  <2>1. Append(queue, c) \in Seq(Chunks) /\ Len(queue) \in Nat /\ DOMAIN queue = 1..Len(queue)
    BY <1>1
  <2>2. DOMAIN Append(queue, c) = 1..(Len(queue) + 1)
    BY <1>1
  <2>3. \A i \in 1..(Len(queue) + 1) : Append(queue, c)[i] = IF i = Len(queue) + 1 THEN c ELSE queue[i]
    BY <1>1
  <2>4. Len(queue) + 1 \in DOMAIN Append(queue, c) /\ Append(queue, c)[Len(queue) + 1] = c
    BY <2>1, <2>2, <2>3
  <2>5. \A i \in DOMAIN queue : i \in DOMAIN Append(queue, c) /\ Append(queue, c)[i] = queue[i]
    BY <2>1, <2>2, <2>3
  <2>6. \A i \in DOMAIN Append(queue, c) : i \in DOMAIN queue \/ Append(queue, c)[i] = c
    BY <2>1, <2>2, <2>3
  <2>. QED  BY <2>1, <2>4, <2>5, <2>6
<1>4. ASSUME queue # <<>>
      PROVE  /\ Head(queue) \in Chunks /\ Tail(queue) \in Seq(Chunks)
             /\ {queue[i] : i \in DOMAIN queue} =
                  {Head(queue)} \cup {Tail(queue)[i] : i \in DOMAIN Tail(queue)}
  <2>1. Head(queue) = queue[1] /\ Head(queue) \in Chunks /\ Tail(queue) \in Seq(Chunks)
    BY <1>1, <1>4
  <2>2. DOMAIN queue = 1..Len(queue) /\ DOMAIN Tail(queue) = 1..(Len(queue) - 1) /\ Len(queue) \in Nat \ {0}
    BY <1>1, <1>4
  <2>3. \A i \in DOMAIN Tail(queue) : Tail(queue)[i] = queue[i + 1]
    BY <1>1, <1>4
  <2>4. \A i \in DOMAIN queue : i # 1 => i - 1 \in DOMAIN Tail(queue) /\ Tail(queue)[i - 1] = queue[i]
    BY <2>2, <2>3
  <2>5. \A i \in DOMAIN Tail(queue) : i + 1 \in DOMAIN queue
    BY <2>2
  <2>. QED
    BY <2>1, <2>2, <2>3, <2>4, <2>5
<1>. QED  BY <1>2, <1>3, <1>4

\* A step that leaves the dawn process where it is keeps the account when no chunk leaves the
\* places it may be in, and one that is closed is seen or lost.
LEMMA NightKeeps ==
    ASSUME NightInv, UNCHANGED <<dawn, todo, outcome>>, hour' = "night" => hour = "night",
           hour # "night" => /\ NightClosed' \subseteq NightClosed \cup events' \cup lost'
                             /\ NightSomewhere \subseteq NightSomewhere' /\ NightKnown \subseteq NightKnown'
    PROVE  NightAccounted'
<1>1. CASE hour = "night"
  BY <1>1 DEF NightInv, NightAccounted
<1>2. CASE hour # "night"
  <2>1. events' \cup lost' \subseteq NightKnown' /\ events' \cup lost' \subseteq NightSomewhere'
    BY DEF NightKnown, NightSomewhere
  <2>. QED  BY <1>2, <2>1 DEF NightInv, NightAccounted
<1>. QED  BY <1>1, <1>2

\* What the steps make of the segment that is open, and of its event.
LEMMA NightCloses ==
    ASSUME Night!CaptureTypeOK, Night!Closed
    PROVE  /\ chunk' \in [Chunks -> {"none", "open", "closed"}]
           /\ NightClosed' = NightClosed \cup Night!Open
           /\ Night!Open \subseteq Chunks
BY DEF Night!CaptureTypeOK, Night!Closed, Night!Open, NightClosed

LEMMA NightCloseOpen ==
    ASSUME Night!CaptureTypeOK, Night!CloseOpen
    PROVE  /\ chunk' \in [Chunks -> {"none", "open", "closed"}]
           /\ events' \in SUBSET Chunks /\ lost' \in SUBSET Chunks
           /\ events \subseteq events' /\ lost \subseteq lost'
           /\ hour # "night" => NightClosed' \subseteq NightClosed \cup events' \cup lost'
<1>1. /\ chunk' \in [Chunks -> {"none", "open", "closed"}]
      /\ NightClosed' = NightClosed \cup Night!Open
      /\ Night!Open \subseteq Chunks
  BY NightCloses DEF Night!CloseOpen
<1>2. events \subseteq Chunks /\ lost \subseteq Chunks
  BY DEF Night!CaptureTypeOK
<1>. QED  BY <1>1, <1>2 DEF Night!CloseOpen, Night!Lost

\* What the camera and its daemon do.
LEMMA NightRecording == ASSUME NightInv, Night!Recording PROVE NightInv'
<1>. Night!CaptureTypeOK
  BY DEF NightInv
<1>1. CASE Night!StartFfmpeg \/ Night!DiskChanges
  <2>1. UNCHANGED <<hour, day, chunk, deaths, lost, events, watcher, ready, stacked, queue, stacking, dawn, todo,
                    outcome, timelapse, failed, troubles>>
    BY <1>1 DEF Night!StartFfmpeg, Night!DiskChanges, Night!stationVars, Night!dawnVars
  <2>2. capture' \in {"off", "on", "dead", "paused"} /\ diskLow' \in BOOLEAN
    BY <1>1 DEF Night!StartFfmpeg, Night!DiskChanges, Night!CaptureTypeOK
  <2>3. Night!CaptureTypeOK'
    BY <2>1, <2>2 DEF Night!CaptureTypeOK
  <2>4. NightClosed' = NightClosed /\ NightSomewhere' = NightSomewhere /\ NightKnown' = NightKnown
    BY <2>1 DEF NightClosed, NightSomewhere, NightKnown, Night!Waiting
  <2>. QED  BY <2>1, <2>3, <2>4, NightKeeps DEF NightInv
<1>2. CASE \E c \in Chunks : Night!OpenSegment(c)
  <2>1. PICK c \in Chunks : Night!OpenSegment(c)
    BY <1>2
  <2>2. UNCHANGED <<hour, day, capture, diskLow, deaths, lost, events, watcher, ready, stacked, queue, stacking,
                    dawn, todo, outcome, timelapse, failed, troubles>>
    BY <2>1 DEF Night!OpenSegment, Night!stationVars, Night!dawnVars
  <2>3. chunk' = [chunk EXCEPT ![c] = "open"]
    BY <2>1 DEF Night!OpenSegment
  <2>4. Night!CaptureTypeOK'
    BY <2>2, <2>3 DEF Night!CaptureTypeOK
  <2>5. NightClosed' \subseteq NightClosed
    BY <2>3 DEF NightClosed, Night!CaptureTypeOK
  <2>6. NightSomewhere' = NightSomewhere /\ NightKnown' = NightKnown
    BY <2>2 DEF NightSomewhere, NightKnown, Night!Waiting
  <2>. QED  BY <2>2, <2>4, <2>5, <2>6, NightKeeps DEF NightInv
<1>3. CASE Night!CloseSegment \/ Night!FfmpegEnds \/ Night!IdleStop
  <2>1. UNCHANGED <<hour, day, diskLow, watcher, ready, stacked, queue, stacking, dawn, todo, outcome, timelapse,
                    failed, troubles>>
    BY <1>3 DEF Night!CloseSegment, Night!FfmpegEnds, Night!IdleStop, Night!stationVars, Night!dawnVars
  <2>2. capture' \in {"off", "on", "dead", "paused"} /\ deaths' \in 0..MaxDeaths
    BY <1>3, NightAssumption DEF Night!CloseSegment, Night!FfmpegEnds, Night!IdleStop, Night!CaptureTypeOK
  <2>3. /\ chunk' \in [Chunks -> {"none", "open", "closed"}]
        /\ events' \in SUBSET Chunks /\ lost' \in SUBSET Chunks
        /\ events \subseteq events' /\ lost \subseteq lost'
        /\ hour # "night" => NightClosed' \subseteq NightClosed \cup events' \cup lost'
    BY <1>3, NightCloseOpen DEF Night!CloseSegment, Night!FfmpegEnds, Night!IdleStop
  <2>4. Night!CaptureTypeOK'
    BY <2>1, <2>2, <2>3 DEF Night!CaptureTypeOK
  <2>5. NightSomewhere \subseteq NightSomewhere' /\ NightKnown \subseteq NightKnown'
    BY <2>1, <2>3 DEF NightSomewhere, NightKnown, Night!Waiting
  <2>. QED  BY <2>1, <2>3, <2>4, <2>5, NightKeeps DEF NightInv
<1>. QED  BY <1>1, <1>2, <1>3 DEF Night!Recording

\* The watcher and the stacker; a closed chunk that is handled ends the dawn process.
LEMMA NightHandles == ASSUME NightInv, NEW c \in Chunks, Night!HandleClosed(c) PROVE NightInv'
<1>. Night!CaptureTypeOK
  BY DEF NightInv
<1>1. UNCHANGED <<hour, day, capture, diskLow, chunk, deaths, lost, watcher, stacked, stacking, outcome, timelapse,
                  failed, troubles>>
  BY DEF Night!HandleClosed, Night!captureVars
<1>2. /\ c \in events /\ events' = events \ {c} /\ ready' = ready \cup {c} /\ dawn' = "idle" /\ todo' = {}
      /\ queue' = IF c \in Night!Waiting THEN queue ELSE Append(queue, c)
  BY DEF Night!HandleClosed
<1>3. queue' \in Seq(Chunks) /\ Night!Waiting' = Night!Waiting \cup {c}
  <2>1. CASE c \in Night!Waiting
    BY <1>1, <1>2, <2>1 DEF Night!Waiting, Night!CaptureTypeOK
  <2>2. CASE c \notin Night!Waiting
    <3>1. /\ queue' \in Seq(Chunks)
          /\ {queue'[i] : i \in DOMAIN queue'} = {queue[i] : i \in DOMAIN queue} \cup {c}
      BY <1>2, <2>2, NightWaiting
    <3>. QED  BY <1>1, <3>1 DEF Night!Waiting
  <2>. QED  BY <2>1, <2>2
<1>4. Night!CaptureTypeOK'
  BY <1>1, <1>2, <1>3 DEF Night!CaptureTypeOK
<1>5. NightClosed' = NightClosed /\ NightSomewhere \subseteq NightSomewhere'
  BY <1>1, <1>2, <1>3 DEF NightClosed, NightSomewhere
<1>. QED  BY <1>1, <1>2, <1>4, <1>5 DEF NightInv, NightAccounted

LEMMA NightStacks ==
    ASSUME NightInv, Night!WatcherCrashes \/ Night!WatcherRestarts \/ Night!WorkerTakes \/ Night!WorkerDone
    PROVE  NightInv'
<1>. Night!CaptureTypeOK
  BY DEF NightInv
<1>1. UNCHANGED <<hour, day, capture, diskLow, chunk, deaths, ready, dawn, todo, outcome, timelapse, failed>>
  BY DEF Night!WatcherCrashes, Night!WatcherRestarts, Night!WorkerTakes, Night!WorkerDone, Night!captureVars,
         Night!stationVars, Night!dawnVars
<1>2. troubles' \in 0..MaxFaults
  BY NightAssumption
     DEF Night!WatcherCrashes, Night!WatcherRestarts, Night!WorkerTakes, Night!WorkerDone, Night!Trouble,
         Night!CaptureTypeOK
<1>3. NightClosed' = NightClosed
  BY <1>1 DEF NightClosed
<1>4. CASE Night!WatcherCrashes
  <2>1. UNCHANGED <<stacked, queue, stacking>> /\ watcher' = "down" /\ events' = {} /\ Night!Lost(events)
    BY <1>4 DEF Night!WatcherCrashes
  <2>2. Night!CaptureTypeOK'
    BY <1>1, <1>2, <2>1 DEF Night!CaptureTypeOK, Night!Lost
  <2>3. hour # "night" => NightSomewhere \subseteq NightSomewhere' /\ NightKnown \subseteq NightKnown'
    BY <1>1, <2>1 DEF NightSomewhere, NightKnown, Night!Waiting, Night!Lost
  <2>. QED  BY <1>1, <1>3, <2>2, <2>3, NightKeeps DEF NightInv
<1>5. CASE Night!WatcherRestarts
  <2>1. UNCHANGED <<stacked, queue, stacking, events, lost>> /\ watcher' = "up"
    BY <1>5 DEF Night!WatcherRestarts, Night!captureVars
  <2>2. Night!CaptureTypeOK'
    BY <1>1, <1>2, <2>1 DEF Night!CaptureTypeOK
  <2>3. NightSomewhere' = NightSomewhere /\ NightKnown' = NightKnown
    BY <1>1, <2>1 DEF NightSomewhere, NightKnown, Night!Waiting
  <2>. QED  BY <1>1, <1>3, <2>2, <2>3, NightKeeps DEF NightInv
<1>6. CASE Night!WorkerTakes
  <2>1. /\ UNCHANGED <<stacked, watcher, events, lost>>
        /\ stacking = {} /\ queue # <<>> /\ stacking' = {Head(queue)} /\ queue' = Tail(queue)
    BY <1>6 DEF Night!WorkerTakes, Night!captureVars
  <2>2. /\ Head(queue) \in Chunks /\ Tail(queue) \in Seq(Chunks)
        /\ {queue[i] : i \in DOMAIN queue} = {Head(queue)} \cup {Tail(queue)[i] : i \in DOMAIN Tail(queue)}
    BY <2>1, NightWaiting
  <2>5. Night!Waiting' = Night!Waiting
    BY <2>1, <2>2 DEF Night!Waiting
  <2>3. Night!CaptureTypeOK'
    BY <1>1, <1>2, <2>1, <2>2 DEF Night!CaptureTypeOK
  <2>4. NightSomewhere' = NightSomewhere /\ NightKnown' = NightKnown
    BY <1>1, <2>1, <2>5 DEF NightSomewhere, NightKnown
  <2>. QED  BY <1>1, <1>3, <2>3, <2>4, NightKeeps DEF NightInv
<1>7. CASE Night!WorkerDone
  <2>1. UNCHANGED <<watcher, events, queue>> /\ stacking' = {}
    BY <1>7 DEF Night!WorkerDone
  <2>2. \/ stacked' = stacked \cup stacking /\ Night!Lost({})
        \/ stacked' = stacked /\ Night!Lost(stacking)
    BY <1>7 DEF Night!WorkerDone
  <2>3. Night!CaptureTypeOK'
    BY <1>1, <1>2, <2>1, <2>2 DEF Night!CaptureTypeOK, Night!Lost
  <2>4. hour # "night" => NightSomewhere \subseteq NightSomewhere' /\ NightKnown \subseteq NightKnown'
    BY <1>1, <2>1, <2>2 DEF NightSomewhere, NightKnown, Night!Waiting, Night!Lost
  <2>. QED  BY <1>1, <1>3, <2>3, <2>4, NightKeeps DEF NightInv
<1>. QED  BY <1>4, <1>5, <1>6, <1>7

LEMMA NightRestarts == ASSUME NightInv, Night!DaemonRestarts PROVE NightInv'
<1>. Night!CaptureTypeOK
  BY DEF NightInv
<1>1. /\ UNCHANGED <<hour, day, diskLow, deaths, ready, stacked, dawn, todo, outcome, timelapse, failed>>
      /\ capture' = "off" /\ events' = {} /\ watcher' = "up" /\ queue' = <<>> /\ stacking' = {}
      /\ Night!Closed /\ Night!Lost(events \cup Night!Open \cup Night!Waiting)
  BY DEF Night!DaemonRestarts, Night!dawnVars
<1>2. troubles' \in 0..MaxFaults
  BY NightAssumption DEF Night!DaemonRestarts, Night!Trouble, Night!CaptureTypeOK
<1>3. /\ chunk' \in [Chunks -> {"none", "open", "closed"}]
      /\ NightClosed' = NightClosed \cup Night!Open
      /\ Night!Open \subseteq Chunks
  BY <1>1, NightCloses
<1>4. lost' \in SUBSET Chunks
  BY <1>1, <1>3, NightWaiting DEF Night!Lost, Night!CaptureTypeOK
<1>5. queue' \in Seq(Chunks)
  BY <1>1
<1>6. Night!CaptureTypeOK'
  BY <1>1, <1>2, <1>3, <1>4, <1>5 DEF Night!CaptureTypeOK
<1>7. hour # "night" => /\ NightSomewhere \subseteq NightSomewhere' /\ NightKnown \subseteq NightKnown'
                        /\ NightClosed' \subseteq NightClosed \cup lost'
  BY <1>1, <1>3 DEF NightSomewhere, NightKnown, Night!Lost
<1>. QED  BY <1>1, <1>6, <1>7, NightKeeps DEF NightInv

\* The dawn process goes from phase to phase; the last pass is over what has no stack yet.
LEMMA NightDawns == ASSUME NightInv, Night!Dawn PROVE NightInv'
<1>. Night!CaptureTypeOK
  BY DEF NightInv
<1>1. UNCHANGED <<hour, day, capture, diskLow, chunk, deaths, lost, events, watcher, queue, stacking>>
  BY DEF Night!Dawn, Night!DawnStart, Night!Verify, Night!SkipOptional, Night!StartTimelapse, Night!RunTimelapse,
         Night!StartFinal, Night!DawnDone, Night!StackOne, Night!DawnMoves, Night!captureVars, Night!stationVars
<1>2. NightClosed' = NightClosed /\ NightClosed \subseteq Night!OnDisk /\ Night!OnDisk \subseteq Chunks
  BY <1>1 DEF NightClosed, Night!OnDisk
<1>3. Night!Waiting' = Night!Waiting
  BY <1>1 DEF Night!Waiting
<1>4. CASE Night!DawnStart
  <2>1. /\ UNCHANGED <<stacked, outcome, timelapse, failed, troubles>>
        /\ hour = "morning" /\ outcome = "none" /\ dawn' = "stack"
        /\ ready' = ready \cup Night!OnDisk /\ todo' = Night!OnDisk \ stacked
    BY <1>4 DEF Night!DawnStart, Night!Reconciled, Night!Unstacked, Night!Phase
  <2>2. Night!CaptureTypeOK'
    BY <1>1, <1>2, <2>1 DEF Night!CaptureTypeOK
  <2>. QED  BY <1>1, <1>2, <2>1, <2>2 DEF NightInv, NightAccounted, NightKnown
<1>5. CASE \E c \in Chunks : Night!StackOne(c)
  <2>1. PICK c \in Chunks : Night!StackOne(c)
    BY <1>5
  <2>2. UNCHANGED <<ready, dawn, outcome, timelapse>> /\ todo' = todo \ {c} /\ dawn \in {"stack", "restack", "final"}
    BY <2>1 DEF Night!StackOne
  <2>3. troubles' \in 0..MaxFaults
    BY <2>1, NightAssumption DEF Night!StackOne, Night!Trouble, Night!CaptureTypeOK
  <2>4. /\ stacked' \in SUBSET Chunks /\ failed' \in SUBSET Chunks
        /\ stacked \subseteq stacked' /\ failed \subseteq failed'
        /\ dawn = "final" /\ c \in ready => c \in stacked' \cup failed'
    BY <2>1 DEF Night!StackOne, Night!CaptureTypeOK
  <2>5. Night!CaptureTypeOK'
    BY <1>1, <2>2, <2>3, <2>4 DEF Night!CaptureTypeOK
  <2>6. NightKnown' = NightKnown /\ NightSomewhere \subseteq NightSomewhere'
    BY <1>1, <1>3, <2>2, <2>4 DEF NightKnown, NightSomewhere
  <2>7. dawn = "final" /\ c \in NightKnown => c \in NightSomewhere'
    BY <1>1, <2>2, <2>4 DEF NightKnown, NightSomewhere
  <2>. QED  BY <1>1, <1>2, <2>2, <2>5, <2>6, <2>7 DEF NightInv, NightAccounted
<1>6. CASE Night!Verify \/ Night!SkipOptional \/ Night!StartTimelapse \/ Night!StartFinal
  <2>1. UNCHANGED <<ready, stacked, outcome, failed, troubles, timelapse>> /\ dawn # "idle"
    BY <1>6 DEF Night!Verify, Night!SkipOptional, Night!StartTimelapse, Night!StartFinal, Night!DawnMoves,
                Night!stationVars
  <2>2. \/ dawn' \in {"restack", "final"} /\ todo' = Night!OnDisk \ stacked
        \/ dawn' \in {"clips", "timelapse"} /\ todo' = {}
    BY <1>6 DEF Night!Verify, Night!SkipOptional, Night!StartTimelapse, Night!StartFinal, Night!DawnMoves,
                Night!Phase, Night!Unstacked
  <2>3. Night!CaptureTypeOK'
    BY <1>1, <1>2, <2>1, <2>2 DEF Night!CaptureTypeOK
  <2>4. NightKnown' = NightKnown /\ NightSomewhere' = NightSomewhere
    BY <1>1, <1>3, <2>1 DEF NightKnown, NightSomewhere
  <2>5. dawn' = "final" => NightClosed \subseteq todo' \cup NightSomewhere'
    BY <1>2, <2>2, <2>4 DEF NightSomewhere
  <2>. QED  BY <1>1, <1>2, <2>1, <2>3, <2>4, <2>5 DEF NightInv, NightAccounted
<1>7. CASE Night!RunTimelapse
  <2>1. UNCHANGED <<ready, stacked, outcome, failed>> /\ dawn = "timelapse" /\ dawn' = "clips" /\ todo' = {}
    BY <1>7 DEF Night!RunTimelapse, Night!Phase, Night!stationVars
  <2>2. timelapse' \in {"none", "deferred", "done"} /\ troubles' \in 0..MaxFaults
    <3>1. CASE timelapse = "done"
      BY <1>7, <3>1 DEF Night!RunTimelapse, Night!CaptureTypeOK
    <3>2. CASE timelapse # "done" /\ Night!Sparse
      BY <1>7, <3>2 DEF Night!RunTimelapse, Night!CaptureTypeOK
    <3>3. CASE timelapse # "done" /\ ~Night!Sparse
      <4>1. Night!BuildTimelapse
        BY <1>7, <3>3 DEF Night!RunTimelapse
      <4>. QED  BY <4>1, NightAssumption DEF Night!BuildTimelapse, Night!Trouble, Night!CaptureTypeOK
    <3>. QED  BY <3>1, <3>2, <3>3
  <2>3. Night!CaptureTypeOK'
    BY <1>1, <2>1, <2>2 DEF Night!CaptureTypeOK
  <2>4. NightKnown' = NightKnown /\ NightSomewhere' = NightSomewhere
    BY <1>1, <1>3, <2>1 DEF NightKnown, NightSomewhere
  <2>. QED  BY <1>1, <1>2, <2>1, <2>3, <2>4 DEF NightInv, NightAccounted
<1>8. CASE Night!DawnDone
  <2>1. /\ UNCHANGED <<ready, stacked, timelapse, failed, troubles>> /\ todo = {}
        /\ dawn # "idle" /\ outcome' = IF dawn = "final" THEN "whole" ELSE "cut"
        /\ dawn' = "idle" /\ todo' = {}
    BY <1>8 DEF Night!DawnDone, Night!Phase, Night!stationVars
  <2>2. Night!CaptureTypeOK'
    BY <1>1, <2>1 DEF Night!CaptureTypeOK
  <2>3. NightSomewhere' = NightSomewhere
    BY <1>1, <1>3, <2>1 DEF NightSomewhere
  <2>. QED  BY <1>1, <1>2, <2>1, <2>2, <2>3 DEF NightInv, NightAccounted
<1>. QED  BY <1>4, <1>5, <1>6, <1>7, <1>8 DEF Night!Dawn

\* The hours; what the daily reboot cuts off is lost.
LEMMA NightPasses ==
    ASSUME NightInv, Night!MorningComes \/ Night!DeadlinePasses \/ Night!NextMorning \/ Night!MorningPasses
    PROVE  NightInv'
<1>. Night!CaptureTypeOK
  BY DEF NightInv
<1>1. UNCHANGED <<capture, diskLow, chunk, deaths, lost, events, watcher, ready, stacked, queue, stacking, dawn, todo,
                  outcome, timelapse, failed, troubles>>
  BY DEF Night!MorningComes, Night!DeadlinePasses, Night!NextMorning, Night!MorningPasses, Night!captureVars,
         Night!stationVars, Night!dawnVars
<1>2. hour' \in {"morning", "late", "day"} /\ day' \in 0..3
  BY DEF Night!MorningComes, Night!DeadlinePasses, Night!NextMorning, Night!MorningPasses, Night!CaptureTypeOK
<1>3. Night!CaptureTypeOK'
  BY <1>1, <1>2 DEF Night!CaptureTypeOK
<1>4. NightClosed' = NightClosed /\ NightSomewhere' = NightSomewhere /\ NightKnown' = NightKnown
  BY <1>1 DEF NightClosed, NightSomewhere, NightKnown, Night!Waiting
<1>. QED  BY <1>1, <1>2, <1>3, <1>4, NightKeeps DEF NightInv

LEMMA NightEnds == ASSUME NightInv, Night!DayComes PROVE NightInv'
<1>. Night!CaptureTypeOK
  BY DEF NightInv
<1>1. /\ UNCHANGED <<day, diskLow, deaths, watcher, ready, stacked, timelapse, failed, troubles>>
      /\ hour \in {"morning", "late"} /\ hour' = "day" /\ capture' = "off" /\ dawn' = "idle" /\ todo' = {}
      /\ outcome' = (IF outcome = "none" THEN "cut" ELSE outcome)
      /\ events' = {} /\ queue' = <<>> /\ stacking' = {}
      /\ Night!Closed /\ Night!Lost(events \cup Night!Open \cup Night!Waiting)
  BY DEF Night!DayComes, Night!Phase
<1>2. /\ chunk' \in [Chunks -> {"none", "open", "closed"}]
      /\ NightClosed' = NightClosed \cup Night!Open
      /\ Night!Open \subseteq Chunks
  BY <1>1, NightCloses
<1>3. lost' = lost \cup events \cup Night!Open \cup Night!Waiting
  BY <1>1 DEF Night!Lost
<1>4. lost' \in SUBSET Chunks
  BY <1>2, <1>3, NightWaiting DEF Night!CaptureTypeOK
<1>5. queue' \in Seq(Chunks)
  BY <1>1
<1>6. Night!CaptureTypeOK'
  BY <1>1, <1>2, <1>4, <1>5 DEF Night!CaptureTypeOK
<1>7. NightSomewhere \subseteq NightSomewhere' /\ NightClosed' \subseteq NightClosed \cup lost'
  BY <1>1, <1>2, <1>3 DEF NightSomewhere
<1>8. lost' \subseteq NightSomewhere'
  BY DEF NightSomewhere
<1>. QED  BY <1>1, <1>6, <1>7, <1>8 DEF NightInv, NightAccounted

LEMMA NightRetries == ASSUME NightInv, Night!RetryTimelapse PROVE NightInv'
<1>. Night!CaptureTypeOK
  BY DEF NightInv
<1>1. UNCHANGED <<hour, day, capture, diskLow, chunk, deaths, lost, events, watcher, ready, stacked, queue, stacking,
                  dawn, todo, outcome, failed>>
  BY DEF Night!RetryTimelapse, Night!captureVars, Night!stationVars
<1>2. timelapse' \in {"none", "deferred", "done"} /\ troubles' \in 0..MaxFaults
  BY NightAssumption DEF Night!RetryTimelapse, Night!BuildTimelapse, Night!Trouble, Night!CaptureTypeOK
<1>3. Night!CaptureTypeOK'
  BY <1>1, <1>2 DEF Night!CaptureTypeOK
<1>4. NightClosed' = NightClosed /\ NightSomewhere' = NightSomewhere /\ NightKnown' = NightKnown
  BY <1>1 DEF NightClosed, NightSomewhere, NightKnown, Night!Waiting
<1>. QED  BY <1>1, <1>3, <1>4, NightKeeps DEF NightInv

LEMMA NightInvInit == ASSUME Night!CaptureInit PROVE NightInv
<1>1. queue \in Seq(Chunks) /\ 0 \in 0..MaxFaults /\ 0 \in 0..MaxDeaths
  BY NightAssumption DEF Night!CaptureInit
<1>4. /\ hour = "night" /\ day = 0 /\ capture = "off" /\ diskLow = FALSE /\ deaths = 0 /\ lost = {}
      /\ chunk = [c \in Chunks |-> "none"] /\ watcher = "up" /\ events = {} /\ ready = {} /\ stacked = {}
      /\ stacking = {} /\ dawn = "idle" /\ todo = {} /\ outcome = "none" /\ timelapse = "none" /\ failed = {}
      /\ troubles = 0
  BY DEF Night!CaptureInit
<1>2. Night!CaptureTypeOK
  <2>1. /\ chunk \in [Chunks -> {"none", "open", "closed"}] /\ deaths \in 0..MaxDeaths /\ troubles \in 0..MaxFaults
        /\ day \in 0..3
    BY <1>1, <1>4
  <2>4. diskLow \in BOOLEAN
    BY <1>4
  <2>2. /\ events \in SUBSET Chunks /\ ready \in SUBSET Chunks /\ stacked \in SUBSET Chunks
        /\ stacking \in SUBSET Chunks /\ todo \in SUBSET Chunks /\ failed \in SUBSET Chunks
        /\ lost \in SUBSET Chunks
    BY <1>4
  <2>3. /\ hour \in {"night", "morning", "late", "day"} /\ capture \in {"off", "on", "dead", "paused"}
        /\ watcher \in {"up", "down"}
        /\ dawn \in {"idle", "stack", "restack", "timelapse", "clips", "final"}
        /\ outcome \in {"none", "whole", "cut"} /\ timelapse \in {"none", "deferred", "done"}
    BY <1>4
  <2>. QED  BY <1>1, <2>1, <2>2, <2>3, <2>4 DEF Night!CaptureTypeOK
<1>3. dawn = "idle" /\ outcome = "none"
  BY DEF Night!CaptureInit
<1>. QED  BY <1>2, <1>3 DEF NightInv, NightAccounted

LEMMA NightInvStep == ASSUME NightInv, Night!CaptureNext PROVE NightInv'
<1>1. CASE Night!Recording
  BY <1>1, NightRecording
<1>2. CASE Night!Stacking
  BY <1>2, NightHandles, NightStacks, NightRestarts DEF Night!Stacking
<1>3. CASE Night!Dawn
  BY <1>3, NightDawns
<1>4. CASE Night!Calendar
  BY <1>4, NightPasses, NightEnds DEF Night!Calendar
<1>5. CASE Night!RetryTimelapse
  BY <1>5, NightRetries
<1>. QED  BY <1>1, <1>2, <1>3, <1>4, <1>5 DEF Night!CaptureNext

LEMMA NightInvStays == ASSUME NightInv, UNCHANGED nightVars PROVE NightInv'
BY DEF nightVars, NightInv, Night!CaptureTypeOK, NightAccounted, NightSomewhere, Night!Waiting,
       NightClosed, NightKnown

==============================================================================
