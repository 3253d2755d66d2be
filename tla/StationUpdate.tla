---------------------------- MODULE StationUpdate ----------------------------
(***************************************************************************)
(* The scripts directory of one station and everything that changes it:    *)
(* updater.sh, started by the timer or crontab and by the station API, its *)
(* config migration, the settings the API patches, the services that load  *)
(* the scripts, toggle_rovimen.sh and reboots.  Nothing excludes one from  *)
(* another.                                                                *)
(***************************************************************************)
EXTENDS Integers, FiniteSets

CONSTANTS
    Runs,               \* of updater.sh: by the timer or crontab, and "api", by the station API
    MaxVersion,         \* bundles published
    MaxPatches,         \* settings patched
    MaxTroubles         \* runs cut off, meeting another one or a new bundle

Versions == 0..MaxVersion
Mixed == -1             \* some files of one version, some of another
None == -2
PatchIds == 1..MaxPatches
Services == {"color-capture", "rovimen-station-api"}

VARIABLES
    bundle,             \* the version on the VPS
    dir, bak, bakNew,   \* LOCAL_DIR, BACKUP_DIR and its ".new"
    run,                \* the runs of updater.sh
    patch,              \* api_settings_patch
    service,            \* what each has loaded (None when it is not active), systemd's enabled
    troubles,
    accepted,           \* settings acknowledged while no update was running
    torn                \* a run was in trouble, and no later one has repaired what it left

updateVars == <<bundle, dir, bak, bakNew, run, patch, service, troubles, accepted, torn>>

Gone == [version |-> None, code |-> None, schema |-> None, settings |-> {}]
Whole(v) == [version |-> v, code |-> v, schema |-> v, settings |-> {}]
Dirs == [version : Versions \cup {None}, code : Versions \cup {Mixed, None},
         schema : Versions \cup {None}, settings : SUBSET PatchIds]

NoRun == [step |-> "idle", capturing |-> FALSE, read |-> {}]
RunSteps == {"idle", "backup", "swap", "sync", "syncing", "restore", "synced", "migrate",
             "restart capture", "restart api"}
RunStates == [step : RunSteps, capturing : BOOLEAN, read : SUBSET PatchIds]
NoPatch == [step |-> "idle", settings |-> {}, schema |-> None, apart |-> TRUE]
PatchStates == [step : {"idle", "write"}, settings : SUBSET PatchIds,
                schema : Versions \cup {None}, apart : BOOLEAN]
ServiceStates == [loaded : Versions \cup {Mixed, None}, enabled : BOOLEAN]

UpdateInit ==
    /\ bundle = 0
    /\ dir = Whole(0) /\ bak = Gone /\ bakNew = Gone
    /\ run = [r \in Runs |-> NoRun] /\ patch = NoPatch
    /\ service = [s \in Services |-> [loaded |-> 0, enabled |-> TRUE]]
    /\ troubles = 0 /\ accepted = {} /\ torn = FALSE

At(r, step) == run[r].step = step
Active(s) == service[s].loaded # None
Running == \E r \in Runs : ~At(r, "idle")
Goto(r, step) == run' = [run EXCEPT ![r].step = step]
Ends(r) == run' = [run EXCEPT ![r] = NoRun]

------------------------------------------------------------------------------
\* A run in trouble of any kind; the bounds make it rare.
Trouble ==
    /\ troubles < MaxTroubles
    /\ troubles' = troubles + 1 /\ torn' = TRUE
NoTrouble == UNCHANGED <<troubles, torn>>

\* The dashboard repository's workflow puts a new bundle on the VPS.
Publish ==
    /\ bundle < MaxVersion
    /\ bundle' = bundle + 1
    /\ IF Running THEN Trouble ELSE NoTrouble
    /\ UNCHANGED <<dir, bak, bakNew, run, patch, service, accepted>>

------------------------------------------------------------------------------
(* updater.sh                                                               *)

\* A run that finds dawn_process at work, no VPS, a FREEZE file or its own version ends
\* here; whether ffmpeg is recording is looked up once.
Begin(r) ==
    /\ At(r, "idle") /\ dir # Gone /\ dir.version # bundle
    /\ r = "api" => Active("rovimen-station-api")
    /\ \E c \in {FALSE, Active("color-capture")} :
         run' = [run EXCEPT ![r] = [step |-> "backup", capturing |-> c, read |-> {}]]
    /\ patch' = [patch EXCEPT !.apart = FALSE]
    /\ IF Running THEN Trouble ELSE NoTrouble
    /\ UNCHANGED <<bundle, dir, bak, bakNew, service, accepted>>

\* cp -a into a ".new" that is already there copies into it, and leaves it as it was.
BackUp(r) ==
    /\ At(r, "backup")
    /\ bakNew' = IF bakNew = Gone THEN dir ELSE bakNew
    /\ Goto(r, "swap")
    /\ UNCHANGED <<bundle, dir, bak, patch, service, troubles, accepted, torn>>

\* rm -rf and mv; without a ".new" the mv fails and ends the run (set -e).
Swap(r) ==
    /\ At(r, "swap")
    /\ bak' = bakNew /\ bakNew' = Gone
    /\ IF bakNew = Gone THEN Ends(r) ELSE Goto(r, "sync")
    /\ UNCHANGED <<bundle, dir, patch, service, troubles, accepted, torn>>

\* .version travels with the other files, before or after them.
RsyncPart(r) ==
    /\ At(r, "sync")
    /\ \E v \in {dir.version, bundle} :
         dir' = [dir EXCEPT !.version = v, !.code = Mixed]
    /\ Goto(r, "syncing")
    /\ UNCHANGED <<bundle, bak, bakNew, patch, service, troubles, accepted, torn>>

\* A bundle published meanwhile may be fetched in part.
RsyncDone(r) ==
    /\ At(r, "syncing")
    /\ \E c \in {bundle} \cup (IF torn THEN {Mixed} ELSE {}) :
         dir' = [dir EXCEPT !.version = bundle, !.code = c]
    /\ Goto(r, "synced")
    /\ UNCHANGED <<bundle, bak, bakNew, patch, service, troubles, accepted, torn>>

\* Faulty variant: what rsync left is still there when the backup is moved.
LeftThere == dir

Cleared == Gone

RsyncFails(r) ==
    /\ run[r].step \in {"sync", "syncing"}
    /\ dir' = Cleared
    /\ Goto(r, "restore")
    /\ UNCHANGED <<bundle, bak, bakNew, patch, service, troubles, accepted, torn>>

\* mv of a directory onto one that exists moves it inside.
Restore(r) ==
    /\ At(r, "restore")
    /\ dir' = IF dir = Gone THEN bak ELSE dir
    /\ bak' = Gone
    /\ Ends(r)
    /\ UNCHANGED <<bundle, bakNew, patch, service, troubles, accepted, torn>>

\* config_migrate.migrate: existing values win, without a config.json nothing happens.
MigrateRead(r) ==
    /\ At(r, "synced")
    /\ run' = [run EXCEPT ![r].step = IF dir.schema = None THEN "restart capture" ELSE "migrate",
                          ![r].read = dir.settings]
    /\ UNCHANGED <<bundle, dir, bak, bakNew, patch, service, troubles, accepted, torn>>

\* Faulty variant: the defaults win over what the file has.
DefaultsOnly(r) == {}

Merged(r) == run[r].read

MigrateWrite(r) ==
    /\ At(r, "migrate")
    /\ dir' = IF dir = Gone THEN Gone
              ELSE [dir EXCEPT !.settings = Merged(r), !.schema = dir.version]
    /\ Goto(r, "restart capture")
    /\ UNCHANGED <<bundle, bak, bakNew, patch, service, troubles, accepted, torn>>

Restarted(s) == [service EXCEPT ![s].loaded = dir.code]
LoadedWhole == \A s \in Services : service[s].loaded # Mixed

\* After the unit files, crons and the sudoers file, none of them modelled.
RestartCapture(r) ==
    /\ At(r, "restart capture")
    /\ service' = IF /\ service["color-capture"].enabled /\ Active("color-capture")
                     /\ ~run[r].capturing
                  THEN Restarted("color-capture") ELSE service
    /\ Goto(r, "restart api")
    /\ UNCHANGED <<bundle, dir, bak, bakNew, patch, troubles, accepted, torn>>

\* The restart ends a run the API has started, and a change of the settings in its hands.  A
\* run that met no trouble of its own repairs what an earlier one left, unless that one's
\* ".new" is still there.
RestartApi(r) ==
    LET restarts == Active("rovimen-station-api")
        clears == /\ dir # Gone /\ bakNew = Gone /\ dir.code = dir.version
                  /\ \A other \in Runs \ {r} : At(other, "idle")
                  /\ service["color-capture"].loaded # Mixed
    IN
    /\ At(r, "restart api")
    /\ service' = IF restarts THEN Restarted("rovimen-station-api") ELSE service
    /\ run' = [q \in Runs |-> IF q = r \/ (q = "api" /\ restarts) THEN NoRun ELSE run[q]]
    /\ torn' = (torn /\ ~clears)
    /\ accepted' = IF torn /\ clears THEN accepted \cap dir.settings ELSE accepted
    /\ patch' = IF restarts THEN NoPatch ELSE patch
    /\ UNCHANGED <<bundle, dir, bak, bakNew, troubles>>

------------------------------------------------------------------------------
(* The station API and toggle_rovimen.sh                                    *)

PatchRead ==
    /\ patch.step = "idle" /\ dir.schema # None
    /\ Active("rovimen-station-api")
    /\ patch' = [step |-> "write", settings |-> dir.settings, schema |-> dir.schema,
                 apart |-> ~Running]
    /\ UNCHANGED <<bundle, dir, bak, bakNew, run, service, troubles, accepted, torn>>

PatchWrite(k) ==
    /\ patch.step = "write"
    /\ dir' = IF dir = Gone THEN Gone
              ELSE [dir EXCEPT !.settings = patch.settings \cup {k}, !.schema = patch.schema]
    /\ accepted' = IF patch.apart THEN accepted \cup {k} ELSE accepted
    /\ patch' = NoPatch
    /\ UNCHANGED <<bundle, bak, bakNew, run, service, troubles, torn>>

\* api_restart_service and api_services_restart, which start color-capture when it is off,
\* and toggle_rovimen.sh restart; a restart of the API is one of what it has started.
OperatorRestarts(s) ==
    /\ Active(s) \/ (s = "color-capture" /\ Active("rovimen-station-api"))
    /\ service' = Restarted(s)
    /\ IF s = "color-capture" THEN UNCHANGED <<run, patch>>
       ELSE run' = [run EXCEPT !["api"] = NoRun] /\ patch' = NoPatch
    /\ IF Running THEN Trouble ELSE NoTrouble
    /\ UNCHANGED <<bundle, dir, bak, bakNew, accepted>>

\* toggle_rovimen.sh on and off, without --include-api, and api_color_capture_toggle.
Toggle(on) ==
    /\ dir # Gone /\ service["color-capture"].enabled # on
    /\ service' = [service EXCEPT !["color-capture"] =
                     [loaded |-> IF on THEN dir.code ELSE None, enabled |-> on]]
    /\ IF on /\ Running THEN Trouble ELSE NoTrouble
    /\ UNCHANGED <<bundle, dir, bak, bakNew, run, patch, accepted>>

------------------------------------------------------------------------------
\* Cut off: a copy of the backup may be there in part.
Partial ==
    IF bakNew = Gone /\ \E r \in Runs : At(r, "backup")
    THEN {Gone, [dir EXCEPT !.code = Mixed]} ELSE {bakNew}

Kill(r) ==
    /\ ~At(r, "idle")
    /\ \E b \in Partial : bakNew' = b
    /\ Ends(r)
    /\ Trouble
    /\ UNCHANGED <<bundle, dir, bak, patch, service, accepted>>

\* reboot_guard.sh when the morning is done or at its time-out, which does not look at the
\* updater, or api_reboot.
Reboot ==
    /\ \E b \in Partial : bakNew' = b
    /\ run' = [r \in Runs |-> NoRun] /\ patch' = NoPatch
    /\ service' = [s \in Services |->
                     [service[s] EXCEPT !.loaded = IF service[s].enabled THEN dir.code ELSE None]]
    /\ IF Running THEN Trouble ELSE NoTrouble
    /\ UNCHANGED <<bundle, dir, bak, accepted>>

UpdaterStep(r) ==
    \/ Begin(r) \/ BackUp(r) \/ Swap(r)
    \/ RsyncPart(r) \/ RsyncDone(r) \/ RsyncFails(r) \/ Restore(r)
    \/ MigrateRead(r) \/ MigrateWrite(r)
    \/ RestartCapture(r) \/ RestartApi(r)
    \/ Kill(r)

UpdateNext ==
    \/ Publish
    \/ \E r \in Runs : UpdaterStep(r)
    \/ PatchRead \/ \E k \in PatchIds : PatchWrite(k)
    \/ \E s \in Services : OperatorRestarts(s)
    \/ \E on \in BOOLEAN : Toggle(on)
    \/ Reboot

------------------------------------------------------------------------------
UpdateTypeOK ==
    /\ bundle \in Versions
    /\ dir \in Dirs /\ bak \in Dirs /\ bakNew \in Dirs
    /\ run \in [Runs -> RunStates] /\ patch \in PatchStates
    /\ service \in [Services -> ServiceStates]
    /\ troubles \in 0..MaxTroubles
    /\ accepted \subseteq PatchIds /\ torn \in BOOLEAN

\* Between updates the scripts are those of their .version, all of them, config.json has
\* every setting that was acknowledged, and no service runs a mixture, whether the last
\* update succeeded or its download failed, and after a repair (updater.sh, config_migrate,
\* api_settings_patch).
QuietStationIsWhole ==
    ~torn /\ ~Running =>
      /\ dir # Gone /\ dir.code = dir.version
      /\ accepted \subseteq dir.settings
      /\ LoadedWhole

==============================================================================
