# ROVIMEN station tools: TLA+ models

The repository runs a network of meteor stations. A station records the night sky of its
cameras, processes the night in the morning and uploads what matters; a dashboard on a VPS
shows the fleet and sends commands. This directory holds TLA+ modules of the parts where
several processes, machines or restarts meet, TLC configurations that check them on small
instances, and TLAPS proofs of the results that matter most for every size.

Paths below are relative to `src/`.

## 1. The system

| Component | State it keeps | Operations | Meets | Module |
|---|---|---|---|---|
| Signed command channel: `dashboard/command_{store,api,dispatch,signing}.py`, `CommandWorker` in `rovimen-scripts/rovimen_pusher.py`, `command_verify.py` | `commands` table; the worker's in-memory set of executed ids | issue, poll (select, expire, deliver), verify, dispatch, ack | station API by loopback; systemd restarts the pusher | `CommandChannel` |
| Push data plane: `Publisher`, `SeqCounter`, `Spool` in `rovimen_pusher.py`; `dashboard/ingest_api.py`, `station_state.py` | seq state file, spool table; last seq, station cache, mirror | publish in a cycle, drain the spool, check the seq, store | dashboard restarts, store errors | `PushIngest` |
| Redis seq guard: `dashboard/cache_backend.py` | one hash, a field per station | WATCH, HGET, MULTI HSET EXEC | all gunicorn workers | `RedisSeqBump` |
| Night state file: `rovimen-scripts/flags_manager.py` | `state.json` of a night, `.lock`, `.tmp`, a dictionary of thread locks | `mark_*`, `lock_chunk`, `unlock_chunk`, `relock_chunk`, `load` | capture, dawn process, API, janitor | `FlagsManager` |
| Clip retention: `encoder.py`, `detection_lock.py`, `archive_upload.py`, `dawn_process.py`, `janitor_storage_watchdog.py`, `station_api.api_lock` | the clips on disk, their flags, the remote archive | encode, confirm, upload, delete, purge, escalate | each other, through the night's directory and `state.json` | `ClipRetention` |
| Capture and stacking: `color_capture.py`, `stacker.py`, `timelapse_build.py`, `dawn_process.py` | segments, ready and stacked marks, the stacker's queue, deferred nights | watch, mark ready, stack, stack again, build or defer the timelapse | the calendar, disk space, `flags_manager` | `NightCapture` |
| Detection index: `detection_indexer.py`, `dashboard/index_poller.py`, `detection_db.py`, `bootstrap_index.py` | a station's index with fingerprints, `detections.db`, poll state and backoff | scan sessions, serve rows since a date, poll, upsert, bootstrap | RMS, which rewrites its files; station and VPS | `DetectionIndex` |
| Station watchdog: `dashboard/station_watchdog.py` | active alerts, in memory | check, queue, dispatch, resolve | Discord | `StationWatch` |
| Polling cache and status stream: `dashboard/station_client.py`, `/api/events/status` | status, signature, version, snapshot, listeners | poll, store, subscribe, snapshot, broadcast | browsers | `StatusCache` |
| Archive index and nights page: `_ArchiveIndex` in `dashboard/cache_store.py`, `routes/archive.py` | listing of the storage box, on-demand cache, page | scan in full, refresh, publish, view, rebuild | sshfs mounts | `ArchiveIndex` |
| Thumbnails: `cache_store.py`, `routes/media.py`, `_prefetch_night` in `rovimen_dashboard.py` | hot cache, cold tier, dedup keys | prefetch, serve, promote, prune | station, storage box | `ThumbCache` |
| Compilations: `compilation_store.py`, `routes/compilation.py`, `youtube_upload.py` | manifests, build threads, work directories | create, patch, delete, tick, build, upload | cron, YouTube | `Compilations` |
| Registries: `auth.py`, `api_keys.py`, `station_keys.py`, `dashboard_config.yaml` | YAML files, copies of them by mtime | add, change, remove a row, reload | gunicorn workers, key daemon, the configuration repository | `Registries` |
| Update of a station: `updater.sh`, `config_migrate.py`, `toggle_rovimen.sh`, `reboot_guard.sh` | scripts directory, backup, `config.json`, loaded services | fetch, back up, swap, migrate, restart, restore, reboot | timer, crontab, station API, settings | `StationUpdate` |
| Tunnels: `dashboard/tunnels.py` | ssh processes, health, streak, backoff | establish, watch, reconnect, close | jump hosts, requests | `Tunnels` |
| Storage-box retention: `storagebox_janitor.py` | videos and `state.json` on the box | scan, threshold, prune | pushes of stations, GMN | `StorageRetention` |
| GMN data: `gmn_data.py`, `gmn_poller.py` | month files, counts, per-date cache, pins | download, poll, fetch on demand, inject | the GMN server, two processes | `GmnMonth`, `GmnPoller` |
| Clip caches: `routes/archive.py`, `public_api.py` | cached clips, `.tmp` files, LRU of MP4s | stream and store, promote, clean up, evict | stations, browsers | `ClipCache`, `RemuxCache` |
| Media jobs and downloads: `routes/media.py` | executor queue, slots, temporary files, byte budgets | remux, stitch, ZIP | ffmpeg | `MediaJobs`, `BatchDownload` |
| Live pictures: `rovimen_dashboard.py`, `station_api.py` | semaphores at both ends, ffmpegs | relay, stream, leave | browsers | `LiveStreams` |
| Camera focus: `camera_focus.py` | pool of streams | hand out, start, watch, evict, stop | viewers | `FocusStreams` |
| Sky dome: `routes/sky_dome.py` | cached PNG, frames, mute, dawn film | render, archive, build | scheduler and requests | `SkyDome` |
| Detections page: `routes/detections.py`, `public_events.py` | none | cluster, filter, match with GMN, rows | archive and stations | `DetectionGrid` |
| Settings and timelapse pages: `station_api.cached`, `api_settings_patch`, `routes/station_proxy.py` | two caches, `config.json`; a stale-while-revalidate cache | load, merge, write, refresh | requests | `SettingsCache`, `SwrCache` |
| Nightly post: `nightly_telegram.py` | marker file | collect, classify, send, mark | the index, Telegram | `NightlyPost` |
| Sign-in and sessions; pure computations; pages, browser code, install scripts | | | | not modelled (section 6) |

`PROJECT.json` lists each of them with its files, and what of it is left out.

### How the parts interact

A station never accepts a connection for its own data: it POSTs telemetry (push data
plane) and long-polls for commands (command channel). Commands are rows of an SQLite table,
signed at issue; the worker verifies, carries them out over the loopback API and acks.
Telemetry carries a per-station seq, so that a resend or a late request can be dropped; the
guard is one SQLite transaction or, with several gunicorn processes, a Redis loop. On the
station four programs share a night's directory. They talk through `state.json`: the
capture process marks segments ready and stacks them; the dawn process (cron, one instance)
makes up for what the night lost, locks the clips with a detection, encodes and uploads them
and then encodes the rest; the API locks or unlocks a clip for a user and starts an upload or
delete thread; the janitor (cron) deletes by age and by disk pressure, trusting the flags.
The indexer reads what RMS writes and serves it to the VPS's poller. On the VPS one process
with many threads (or several workers) keeps everything else: registries in YAML, caches on
disk and in memory, pollers of stations and of GMN, ssh tunnels, jobs with ffmpeg; cron jobs
beside it prune the storage box and post the night's summary.

### What is hard here

- **Interleaving**: poll, ack and expiry on one row; several handlers of one station's
  pushes; three processes on one `state.json`; encoder, uploader and janitor on one clip; RMS
  rewriting the files that the indexer reads; a status change between snapshot and
  subscription; two requests on one temporary file.
- **Failure and restart**: a worker that stops after running a command and before its ack;
  a publisher that dies between persisting a seq and sending; a writer killed inside `save`;
  an uploader killed between the transfer and the flag; an updater cut off between any two
  commands, by its own restart of a service too.
- **Lost, late and repeated calls**: acks are sent once; a request the client gave up on is
  still handled; rsync reports a failure for a transfer that took place; a lost Discord
  message is not sent again; inotify events are lost with their watcher.
- **Time**: TTLs on two clocks, retention in days, the 11:00 UTC deadline, nights that run
  over midnight, dawn that is seen once.
- **Limits**: the spool during a long outage, a dictionary of locks that is cleared, disk
  pressure, cache budgets and stream slots counted while others write.

## 2. The modules

Each module is one component. Its actions are handlers or steps, named after the code, and
a comment says which; `PROJECT.json` maps each definition to its lines. Definitions headed
"Faulty variant" are not part of a specification: each changes one definition the way a
plausible bug would, and shows that the property it is paired with can fail.

### CommandChannel (abstract: CommandLedger)

`row` is the table, `poll[h]` what request handler `h` is doing, `waits[s]` the handler the
worker of station `s` waits for; `pc`, `batch`, `cur`, `outcome` and `executed` are the worker,
`acks` the ack requests on their way. A handler goes round the loop of `fleet_poll_commands`
until it has something to answer or its deadline comes: the query (`SelectPending`), then the
expiry of the lapsed rows it found and either another round (`HoldOn`) or the answer
(`Answer`), so that an ack may land between query and expiry. It does not notice that its client
has gone: a worker that times out or loses the connection (`AbandonPoll`), polls anew or stops
leaves its handler selecting and expiring, beside the handler of its next poll. `FailPoll` is a
handler that dies. The station and server clocks differ by `ClockSkew`.

`CommandLedger` is the promise: issued once, settled once, acked only when handled. "Never run
once expired" is not part of it, because the code does not keep it: an abandoned handler may
expire a row that a newer poll has just handed out, and the worker runs it. What holds is that
this happens once (`RunLate`, `ExpiredRunsOnceAtMost`): a row shown as expired is handed out to
nobody. The refinement maps a row's status and result to `life` and `verdict`.

Abstractions: a payload is a kind (`plain`; `self_restart`, whose loopback answer may be
lost; `unverifiable`); rows created in the same instant are unordered; equal ack requests
are one; `Handlers` bounds the polls the server holds at a time; revocation and the
admin interface's listing are left out.

### PushIngest (abstract: PushLedger)

The publisher's cycle (`StartDrain`, `Resend`, `EndDrain`, then `Push` for each kind of
`Schedule`), the seq file, the
spool, and `Slots` of requests: lost, turned away, handled in steps (`accepted`, `cached`,
`ok`), answered or abandoned. `stamp` numbers bodies in the order of issue and equals the
seq as long as the seq file can be written; `issued`, `accepted`, `takes`, `applied` and
`swallowed` are history variables. `SharedStore` chooses Redis or SQLite and memory;
`StoreMayFail`, `ApplyMayFail` and `PersistMayFail` choose which error paths an instance
explores. `PushLedger` accepts bodies in order, each once, and stores an accepted body once.

### RedisSeqBump (abstract: SeqGuard)

The optimistic loop of `seq_bump`, one action per Redis command, on one hash for all
stations: EXEC is refused when any field was written since WATCH. `SeqGuard` is the atomic
check-and-bump with the three answers of the code (accepted, replay, error).

### FlagsManager (abstract: FlagStore)

Threads of several processes call one of the marking functions: the dictionary entry, the
thread lock, `flock`, load, the shared `state.json.tmp`, write, `os.replace`, the way out.
The dictionary may be cleared at any time (`EvictLocks`), reads and saves fail and processes die
at any step. A read that fails gives the empty state, as the code has it (`LoadFails`), and a call
that sets a mark then writes a night with no other. Inodes are explicit, because a killed writer leaves a truncated tmp file which the next
one truncates again. The fields of `state.json` are abstracted to a set of marks.
`FlagStore` lets each call change one mark at one instant, or fail without effect; a call that
could not read the file (`unread`) may take the other marks with it, and no other call may.
`Procs` says which threads share a process and so a dictionary. `SweepSpec` adds the unlocked load
and save of `dawn_process._sweep_stale_locks`.

### ClipRetention

`file`, `lock`, `reenc`, `up` and `morning` are the clip and its entry in `state.json`;
`archive` is the remote copy; `enc[w]` an encoder run; `task[k]` a thread of the API; `pc`
and `todo` the dawn process; `victim` the janitor between its check and the unlink; `age` and
`pressure` its reasons. A flag change is one step, which is what `FlagsManager` shows; a
transfer, an encoder run, a remote delete and a check followed by an unlink are several.
`DawnKilled` is color_capture's SIGTERM or the daily reboot, `ApiStops` the end of the API's
daemon threads. Which clips have a detection (`hits`) is chosen in the initial state.

Abstractions: a clip's picture is `raw` or `enc`; the pool's workers take one clip at a time;
a batch transfer is one instant that delivers any part of the batch and returns any part of
that; the two ages are `color_days` (`old`) and `locked_days` (`expired`, taken equal to
`stale_lock_days`: both are 7), and a night does not age while the dawn process runs (five
hours against two days); stitched clips, the uploads of `state.json` and RMS files, legacy
sidecars and the `videos/` layout, which nothing writes, are left out; segments, stacks and
timelapses are `NightCapture`'s.

### NightCapture

One camera over the hours of a day: segments open and close, the watcher may break and its
`events` be lost, closed segments become `ready`, wait in the stacker's `queue` and are
`stacked`; disk space may run low and pause the capture. In the morning `dawn` reconciles,
stacks again what has no stack, builds the timelapse or defers it, encodes (one step here) and
makes a final pass. `outcome` says whether it ran to its end. `MorningCatchesUp` is the point
of all that redundancy.

### DetectionIndex, StationWatch, StatusCache, ArchiveIndex

- `DetectionIndex`: a row is the version (modification time) of the files it was parsed
  from, so that stale and current rows can be told apart; RMS may write any of a night's two
  files at any moment, between the indexer's `stat`, its two reads and its transaction too.
  The poller has its rolling window, first contact, errors and backoff, restarts; the
  bootstrap reads the archive's copies.
- `StationWatch`: a cycle is the checks, which queue notifications, and their dispatch, one
  message a kind, which may be lost; grace for a station that is offline, delayed resolves,
  the cooldown after which an alert is repeated, restarts that forget everything.
- `StatusCache`: the writer's steps under and outside of its lock, the cached snapshot and
  its version, bounded queues and listeners, clients that subscribe, are refused or time out.
- `ArchiveIndex`: a full scan at the start and each hour, a refresh of recent nights each
  minute, reads on demand, the page that is served stale while it is rebuilt, what is loaded
  from disk after a restart; reads of the mount that fail or see a part.

### Registries, ThumbCache, Compilations

- `Registries`: threads of two processes and four kinds of file. Readers parse without the
  lock and keep the mtime they saw; writers take `flock`, read, write `.tmp`, rename; the
  configuration is written by each worker from memory and pushed to a repository. Rows are
  model values: nothing of what a row contains is modelled.
- `ThumbCache`: one thumbnail of one night, in colour or black and white, with the prefetch
  job, a request, the bulk prefetch, promotion and prune, and restarts in between. The copy to
  the cold tier may fail while the prune goes on (`cache_store.py:221`).
- `Compilations`: requests that read a manifest and then write it, ticks, build threads
  behind a semaphore, failures at every step, restarts.

### The services of Stores

| Module | What a step is | What its property says |
|---|---|---|
| `StationUpdate` | a command of `updater.sh`; a settings patch in two steps; restarts, toggles, kills, reboots | `QuietStationIsWhole`: between updates the scripts are one version with every acknowledged setting |
| `Tunnels` | the watchdog's and `start_all`'s steps, the exceptions that end either, an ssh process that connects or ends, a jump host that changes | `FewOrphanSsh`; nothing is said of the watchdog's going on, which any exception in its loop ends |
| `StorageRetention` | scanning a camera, pruning a clip in its three writes, a station's push | `OnlyPassedOverGo`: against the policy of the docs, written down separately, only clips go that `scan_date` passes over |
| `NightlyPost` | collect, classify, look for the marker, one chat, mark | `PostedOnce` |
| `ClipCache` | a request reading and writing half of a clip; re-encoding, cleanup, broken connections | `CachedIsWhole` |
| `RemuxCache` | the steps of `_serve_as_mp4` around semaphore, listing, eviction, rename | `WithinBudget` |
| `MediaJobs` | submitting, an executor's start and end, time-outs | `TmpFilesGo`: files and slots come back |
| `BatchDownload` | a chunk of a download, the ZIP generator | `BatchIsBounded` |
| `LiveStreams` | taking and giving back each of four semaphores, spawn, frames | `SlotsComeBack` |
| `FocusStreams` | the pool's hand-out and the viewer's start, eviction, the reader's end | `PoolOwnsFfmpeg` |
| `SkyDome` | lock, render, write of a request; render, replace, dawn of the scheduler | `DomeIsWhole`, `DawnIsBuilt` |
| `GmnMonth` | two parts of a download, the rename, the two steps of counting | `MonthIsSound` |
| `GmnPoller` | look, fetch, store of three loops; requests; injections | `PinsSurvive` |
| `DetectionGrid` | a detection is added; the rest are operators on the night | `EventsAreTrue`, `WindowIsTrue`, `PublicListIsTrue`, each against a definition by quantifiers |
| `SettingsCache` | the claim, load and store of `cached()`, merge, dump and replace of a patch | `ChangesStay` |
| `SwrCache` | marker, computation, store of a cold request or a refresh | `SwrGoesForward` |

Several of these properties do not hold in races that the code does not prevent. There the
module keeps a variable for the race (`raced`, `shared`, `crossed`, `doubled`, `torn`, `over` ...)
and the property says what holds beside it: of the ssh processes, one is left and not more; of a
clip two requests write, nothing until a request opens its file alone; of a station whose update
was cut off, nothing until a run has gone through. The hazards of `PROJECT.json` say in a note what their
property leaves out, and section 5 lists each of these races as a fault of the code.

### How modules are composed

`Pipelines` extends `DetectionIndex` and instantiates `StationWatch`, `StatusCache`,
`ArchiveIndex` and `RedisSeqBump`; `Stores` extends `RedisSeqBump`, `ThumbCache` and
`Compilations` and instantiates `Registries`, `NightCapture` and the sixteen modules of the
table. Both leave every size open: their CONSTANTS have named ASSUMEs, `Pipelines.cfg`,
`Stores.cfg` and the definitions of `MCStores` give small instances, and the proofs need no
more than the ASSUMEs. These components share no state in the code, so that an interleaving of
two of them would show nothing: a behaviour picks one `part` and is a behaviour of that part,
and one run explores them all. Of the properties of the table `Stores` makes ten, each of the
services that share a question: `StationIsWhole`, `FewOrphanSsh`, `OnlyPassedOverGo`, `PostedOnce`
and `CachedIsWhole` of one service each, `BudgetsHold` (`RemuxCache`, `BatchDownload`),
`NothingLeaks` (`LiveStreams`, `MediaJobs`, `FocusStreams`), `DomesAreBuilt`, `NewerStays`
(`GmnMonth`, `GmnPoller`, `SettingsCache`, `SwrCache`) and `EventsAreTrue`. Every conjunct has a
faulty variant of its service that breaks it.

Parts that do interact are composed by refinement: `ClipRetention` and `NightCapture` take a
change of flags as atomic because `FlagsManager` implements `FlagStore`; `PushIngest` takes
the guard as atomic because `RedisSeqBump` implements `SeqGuard`; `SweepSpec` composes the sweep
with the locked calls and shows what it costs.

## 3. What TLC checks

| Run | Question | Bounds |
|---|---|---|
| `channel` | The safety of queue and worker, the refinement of the ledger, and that every pending command is settled | 1 command of any of 3 kinds, 1 station, 2 poll handlers, clock 0..2, TTL at most 1, 2 stops, station clock one behind |
| `channel_order` | Commands of a station start in the order of issue | 2 commands, 1 poll handler, 1 stop, otherwise as above |
| `channel_reexecution` | Violation: a command can run twice | as `channel` |
| `push` | Stored when confirmed, seq file, spool, refinement of the ledger | 3 bodies of 3 kinds, 2 slots, 1 stop, 1 dashboard restart |
| `push_live` | The spool drains, with store errors and an unwritable seq file | 2 kinds, 2 bodies, 1 stop |
| `push_stale_overwrite` | Violation: an older body overwrites a newer one | 1 kind, 3 bodies |
| `flags` | Atomicity of the calls with failing reads and saves, whole files | 3 threads in 2 processes, 3 lock objects, 2 inodes, 2 marks |
| `flags_sweep_lost` | Violation: the sweep loses another process's mark | the sweep and one caller |
| `clips` | The three properties of ClipRetention | 1 clip, 2 API threads, calls unbounded (2.7 million states) |
| `clips_nuclear` | Violation: a confirmed meteor is chosen at the nuclear level | as above |
| `redis_guard` | The seq guard and its refinement; every store, cache, stream and upkeep job of `Stores` | below |
| `pipelines` | What reaches a reader in the end: detections, alerts, status, archive pages, the guard's answers | below |

`redis_guard` (about 524,000 states): the guard with 3 handlers, 2 stations, seqs 0..2;
registries with 2 threads in 2 processes, 2 rows and one write from outside; one thumbnail;
1 manifest with 2 requests, 2 builders, 1 slot and 1 restart; a night of 1 segment with 2
faults and 1 death; and each service at the constants of `Stores.cfg`: 2 requests, viewers,
threads or runs, because every race listed is one of two, and one cut-off, restart or trouble;
3 clips where an eviction needs a choice, 4 clips of 2 cameras for retention (bright, plain,
confirmed, its partner), 3 cameras of 2 stations and 3 detections for the grid on a day of 6
minutes, so that windows, nights and buckets run over their ends.

`pipelines` (about 130,000 states): 1 meteor, 2 nights, 2 writes by RMS and 1 restart, which
gives a rewrite during a scan, an outage over the window and a backoff; 1 fault besides
offline, 1 restart of the watchdog; 2 browsers for 1 place and a queue of 1; 2 nights, 2
changes, 1 failed read, 1 restart of the archive page; 2 handlers of 2 stations.

Why the other bounds are enough. *Channel*: two commands give order and a batch with a rest
(`channel_order`); what else is said is said of one command at a time. A TTL of 1 on a clock of
3 instants lets a command lapse before, in and after a batch; one stop separates two process
lives, two stops let a command run twice. Two handlers are the one the worker waits for and
one whose client has gone, which is all it takes to expire a command in the worker's hands.
Stations share nothing but the table, whose statements name one host. *Push*: one request awaited and one abandoned is
all a publisher can have per timeout; three bodies give an older, a newer and a spooled one.
*Redis*: two racers on one field and a third writer on another station's field. *Flags*: two
threads share a dictionary and the third is another process; the tmp path is reused, so
two inodes suffice, three with a sweeper, which opens it without the lock. *Clips*: clips
meet only in `state.json`, whose changes are atomic; the second API thread gives upload
against upload and upload against delete. The proofs remove these bounds for the safety
properties named in section 4.

`redis_guard` and `pipelines` stop when a part has used up its bounds (calls answered, faults
and changes spent), so they run without the deadlock check; the other runs check for deadlock.

### Fairness

- *Channel*: weak fairness of time, of the worker's steps and of its restart (`Restart=always`
  in its systemd unit); strong fairness of each handler's query and answer: not every handler
  dies, and none holds its poll for ever (`_MAX_WAIT_SEC`). No fairness of the network: acks may
  be lost for ever, and the row is then expired by a later poll, which the worker's fairness
  (`Worker`) brings.
- *Push*: weak fairness of the publisher and of handlers that have started (threads of a
  server that is up); strong fairness that a resend reaches the guard and is answered: the
  outage ends and connections succeed again and again, without which nothing could drain.
- *Redis*: weak fairness of each handler. The loop has no bound on its retries; it ends since
  a conflict means that somebody else's EXEC succeeded, which happens once per call.
- *Detections*: weak fairness of the indexer's and poller's loops (both are services that
  systemd restarts); strong fairness that a write of the index and a fetch succeed now and
  then. No fairness of RMS, of the calendar, or against restarts, which are bounded.
- *Watchdog*: weak fairness of its cycle; strong fairness that a check sees a fault that lasts
  and that a message with something to say gets through now and then.
- *Status*: weak fairness of the poll and of a client's stream and deadline; strong fairness
  that a client that goes on trying gets in. It is given to one of two like clients, the
  constant `Reader`, and the property is about that one.
- *Archive page*: weak fairness of the threads, of expiry, and of a viewer who goes on looking;
  strong fairness that a scan succeeds now and then.

In `pipelines` one strong condition stands for one of each part: it is the disjunction of an
action of each, and since a behaviour never changes its part, only one disjunct is ever
enabled.

## 4. What is proved

TLAPS proves, for every number of commands, stations, bodies, slots, handlers, threads,
processes, clips, nights, manifests, builders, requests, viewers and files:

| Module | Theorems |
|---|---|
| `CommandChannelProofs` | `ChannelInvariant`, `TypeCorrect`, `AckedOnlyIfHandled`, `AtMostOncePerBoot`, `ExpiredRunsAtMostOnce`, `StartsInOrder`, `SettledIsFinal`, `ChannelImplementsLedger` |
| `PushIngestProofs` | `IngestInvariant`, `IngestTypeCorrect`, `StateFileNeverBehind`, `IngestImplementsLedger`, `FreshBodiesAreStored`, `SpoolHasOneRowPerKind` |
| `FlagsManagerProofs` | `FlagsInvariant`, `FlagsTypeCorrect`, `StateFileIsWhole`, `CallsAreAtomic` |
| `ClipRetentionProofs` | `ClipTypeCorrect`, `UploadedClipsAreArchived`, `ConfirmedMeteorsAreKept`, `RawIsAskedFor` |
| `PipelinesProofs` | `RecordedSessionsAreIndexed`, `PipelinesInvariant`, `PipelinesTypes`, `PipelinesIndexIsComplete` |
| `StoresProofs` | `GuardInvariant`, `OneRacerWinsAlways`, `CheckedValueStays`, `LoopImplementsGuard`, `PrefetchedNightsAreCached`, `LostOnlyUncopied`, `NoBuildHangs`, `PartsInvariant`, `StoresTypes`, `RegistriesLoseNothing`, `MorningsCatchUp`, `StationsStayWhole`, `TunnelsLeaveFewOrphans`, `PassRemovesOnlyPassedOver`, `LockedVideosAreKept`, `NightsArePostedOnce`, `CachedClipsAreWhole`, `BudgetsAreKept`, `EverythingComesBack`, `DawnsAreNoticed`, `NothingGoesBack`, `EventsStayTrue` (with the lemmas of the detection grid) |
| `UpkeepProofs` | the lemmas for updates, tunnels, retention, the post, GMN, registries and the night |
| `MediaProofs` | the lemmas for settings, timelapse pages, clips, remuxes, the dome, focus and live streams, media jobs and downloads |

Each rests on an inductive invariant, since none of the properties is inductive alone.

- `ChannelInv` (`Provenance`, `Phases`, `AcksFollowHandling`, `RunsAreRemembered`,
  `DoomedHasLapsed`, `LateIsGone`, `HeldInOrder`): every id in an ack, in a batch, in the executed
  set or in an expiry list has its reason: an ack in flight belongs to a handled command, a batch
  holds rows of its own station, only a lapsed row is expired or about to be.
  `ExpiredRunsAtMostOnce` needs `LateIsGone`: a command that ran although it was expired is in no
  batch, in no worker's hand before its run, and in no answer anybody waits for. `StartsInOrder`
  needs that whatever is older than a held command is handled, lapsed or handled first.
- `IngestInv` (`BodiesGenuine`, `CountersAgree`, `GuardCovers`, `HandlersHoldAccepted`,
  `WaitsForSlot`): seqs grow with stamps; every body under way, in the spool or in the drain list
  is at most what the seq file has; an awaited first sending carries the newest stamp, so the
  guard cannot have passed it and no row of the spool has its seq. It assumes that the seq file is written
  (`PersistMayFail = FALSE`), and `FreshBodiesAreStored` that the seq store raises nothing
  (`StoreMayFail = FALSE`): without either the statements are false, see section 5.
- `GuardInv`: a handler whose watched hash is untouched has read the present value, and an
  accepted answer means a field at least that high.
- `FlagInv`: who is inside holds the `flock`; only the holder has the tmp inode open and it
  is not the inode of `state.json`; its buffer is what it read, changed as it asked, where a
  holder whose read failed has read nothing (`BufIsChange`), and nobody but a holder past its
  load has missed the marks (`UnreadIsPastLoad`).
- `ClipInv`: what is about to be flagged is archived, a delete thread works on an unlocked
  clip, what is about to be sent is encoded or asked for, the detection pass unlocks no
  hit, confirmed clips stay locked in a calm night, and a clip that is gone or chosen in a
  young night is archived *before* anybody knows whether it will be confirmed. The last
  conjunct covers the janitor's check followed by its unlink against the detection pass.
- `IndexedInv` (`StampsGrow`, `SessionIsTrue`): a fingerprint is never newer than the files, and
  a session in hand whose time stamp is still the current one has read the files as they are.
  This is why the stamp must be taken *before* the files are read; the faulty variant that
  takes it after loses a rewrite for ever. It assumes `ReadMayFail = FALSE`.
- `ThumbInv` (`CopiedIsPromoted`): what the prune has copied is in the cold tier when the
  directory goes. Nothing is assumed of the copy: `LostOnlyUncopied` says that a night leaves
  both tiers only in a prune whose copy has failed, which the code lets happen (section 5).
- `BuildInv` (`NewIsCalm`): no route stores a status of a build, so a manifest becomes busy only
  together with a thread, and a thread that ends leaves it at rest.

The composed specifications have one invariant, `PartsInv` for `Stores` and `PipelinesInv` for
`Pipelines`: the conjunction of the inductive invariants of their parts. For each part three
lemmas show that its initial states satisfy its invariant (`...Init`), that its steps keep it
(`...Step`) and that a step of another part does (`...Stay(s)`); `PartSteps` and
`PipelineSteps` say that a step is, as each part sees it, a step of its own or none. What the
invariants add to the properties:

- `UpdateInv`: while nothing went wrong there is one run, and at each of its stages script
  directory and backup have between them every setting that was acknowledged. `torn` is cleared
  only by a run that found everything back in order, and the invariant says what that is.
- `TunnelsInv`: a thread has a process in its hands only while it ends or awaits it. Until
  `start_all` and the watchdog have both been establishing (`doubled`) no tunnel is recorded
  while one is opened, and afterwards one process at most is in nobody's hands: `start_all` opens
  once, so that only the second of the two records can find one before it. Both hold until a
  shutdown or the overflow of the backoff; a thread may end at every place where the code raises.
- `RetentionInv`: what the prune pass has left is old and, by what the pass has read, has no lock,
  no witness at another station that the scan has not passed over, and no place among the brightest or the longest; what it read is what the
  box says unless the camera has pushed since. The thresholds are proved by counting: the i-th
  value of the sorted list exists, and a clip more than the promised share of clips are below is
  not under the percentile. `Multistation` runs over the clips in the order of time; that it marks every
  clip with a partner in the window, but those whose partners were all marked before their turn
  (`PassedOver`), is proved by looking at the first clip where it would not. `OnlyPassedOverGo` and
  `LockedVideosAreKept` follow. The policy itself, `WorthKeeping`, knows nothing of the exception.
- `GridInv`: the night stays in the order of time. Of the recursive function `Taken` two facts
  are enough, both by the least counterexample (`LeastOf`): what is taken stays taken, and a detection that
  is taken belongs to the group of an earlier head. Hence groups of two heads share no
  detection, a group has at most one witness of a camera, and every row has two stations
  or is not shown. That a window around midnight or a row of the list is the right one is modular
  arithmetic.
- `PostInv`: without a second run or a kill, whoever is sending is alone and the marker is not
  there; what a chat got and what is still to be sent never overlap.
- `MonthInv`: the temporary file of a download is its own, and counts of the present mtime are
  counts of the present content. `PollerInv` needs that the dates picked are dates of the list.
- `RegistryInv`: the holder of the lock has read what the file has; whoever has written but not yet
  let go has left all other rows as they were; a cache with the file's mtime has its rows. It
  needs `ReadMayFail = FALSE`, without which the statement is false (section 5).
- `NightInv`: from the reconciliation on, every closed chunk is ready or known to be lost,
  and in the final pass it is to be done or accounted for.
- `ClipsInv`: a half-written inode has one writer, unless two requests met (`shared`), until a
  request opens the file alone.
  `RemuxInv`: at every moment there is an assignment of half-done files to the requests that counted them, so
  that the sum of the files a request leaves and those it has counted is within the budget.
- `LiveInv`, `MediaInv`, `FocusInv`, `BatchInv` are about counting: free places and the holders
  of places add up to the size of the pool, a file is somebody's who has not ended, what was
  written is what was counted. They rest on the library's facts about finite sets.
- `SettingsInv`, `SwrInv`: one thread loads, one changes; every cached copy that is not the
  file's content is in the hands of a thread that is about to write it.
- `StatusInv`: the writer carries a status a station can have, and listeners stay within their
  limit: only `Join` adds one, and it looks first.

Assumptions are the named ASSUMEs of the modules (bounds are numbers, what is counted is
finite, markers such as `None` are not elements of the sets they mark, every thread has a
process, `Dawn` is not an API thread, a writer finds a free inode or copy, the retention shares are
in 0..100, clips are numbered by time, a window of the grid is shorter than a day) and those written in a
theorem's own ASSUME. TLC evaluates all of them on the instances of the runs.

Every safety property of every passing run has a theorem. The type invariants are proved and
not checked in the runs (`TypeCorrect`, `IngestTypeCorrect`, `FlagsTypeCorrect`, `ClipTypeCorrect`,
`PipelinesTypes`, `StoresTypes`), and so is `SpoolHasOneRowPerKind`. Only model-checked:

- `PendingSettles`, `SpoolDrains`, `EveryCallReturns`, `NightsArrive`, `LastingProblemIsHeard`
  and `ViewsCatchUp`: liveness is outside the prover.

The composition of the modules by refinement is argued, not checked in one run:
`ClipRetention` takes flag changes as atomic because `CallsAreAtomic` says so, `PushIngest`
takes the guard as atomic because `LoopImplementsGuard` says so.

## 5. Disagreements found

With a run (also under `findings`):

1. A command can be carried out twice: the executed ids live in memory, and a worker that
   stops between running a command and its ack runs it again. `command_store.py:16` says "a
   re-delivered id is acked without re-execution station-side".
2. A stale body can overwrite a newer one: the guard and the store are two steps, and two
   handlers that pass in order may store in the other one. `ingest_api.py:548` says a stale
   one "can't overwrite a newer one".
3. `dawn_process._sweep_stale_locks` loads and saves a night outside the lock, and can undo
   another process's mark. `flags_manager.py:9-10` says per-night locks prevent it.
4. At the nuclear level the janitor deletes `state.json` of the flat layout and thereby its
   own knowledge of locks; the next clips of that night count as unlocked.
   `janitor_storage_watchdog.py:561` promises that locked clips that are not uploaded stay.

Seen while reading or checking, without a run of their own:

**Command channel and push.**

- A redelivered id is acked as ok even if the command was refused or failed and only that ack
  was lost (`rovimen_pusher.py:919`, against `:803`).
- A body buffered after a timeout is dropped as a replay when newer ones have gone through
  meanwhile (`rovimen_pusher.py:679`, against `:36`).
- A store error in the guard answers 2xx, and the body is not sent again
  (`cache_backend.py:295`, against `:292`). Workers choose Redis or SQLite each at its own
  start (`cache_backend.py:470`), so two of them may guard with different stores.
- With an unwritable state file seqs repeat after a restart (`rovimen_pusher.py:258`,
  against `:224`).
- A poll handler does not notice that its client has gone, and goes on selecting and expiring for
  up to 25 s (`command_api.py:312-317`). A worker that timed out or reconnected has meanwhile got
  the command from its next poll (`rovimen_pusher.py:760-774`); the row is then shown as expired
  although the command runs, and its ack is dropped.
- The durable mirror is written and never read back (`station_state.py:312`, against `:6`).

**A station's night.**

- `_sweep_stale_locks` can also tear the file: it shares the tmp path with lock holders
  (`dawn_process.py:186`). Any `OSError` on reading `state.json` counts as an empty night and is
  written back by the next mark (`flags_manager.py:124`).
- Unlock and lock again while both threads run: the flag may stay although the archive lost
  the clip (`archive_upload.py:651`). `UploadedIsArchived` therefore leaves out clips a user
  unlocked.
- The detection pass also removes locks users set before dawn (`detection_lock.py:417`). A
  locked clip whose encode failed before the deadline is never uploaded (`archive_upload.py:290`).
- Two encoders on one clip share a tmp file, and a crash before the flag encodes the clip twice
  (`encoder.py:533`, `:603`).
- The flat sweep deletes timelapses and night stacks at `color_days`, though the branch above it
  retains those not yet uploaded (`janitor_storage_watchdog.py:367`, `:398`).
- Capture: `_last_segment_mtime` survives a restart of the capture; a restarted watcher does not
  scan what closed meanwhile; `_reconcile_ready` marks a segment ready that is still open; any
  closing segment sends `dawn_process` a SIGTERM; past the deadline the timelapse is skipped
  without being deferred, and a first build that fails is not tried again. The docstring of
  `_run_reencode_all` speaks of a resumption on the next morning that no code carries out.
- `reboot_guard.sh` at 12:00 looks at the coming night, so that it always waits its four hours,
  and does not look at the updater's window.

**Update and settings of a station.**

- `.version` travels with the files: a kill in the middle of the copy may leave the new version
  number with old files, and "Already up to date" from then on. A partial `.new` makes the next
  `cp -a` nest, and the partial copy is what a later restore brings back. A kill between `rm -rf`
  and `mv` leaves no scripts.
- A failed copy restores the old `config.json`, and settings patched meanwhile are lost (against
  `updater.sh:5`); `config_migrate` and `api_settings_patch` share `config.json.tmp` without a
  lock.
- A color-capture restart skipped during capture is not made up for; a failed health check is
  not rolled back; a run started over the API is killed by its own restart of that service;
  `--ensure-crons` installs crons on a station that is toggled off, and the API's restart starts
  a capture that was turned off; timer, crontab and API runs do not exclude one another.
- `cached()`: an invalidation during a load is overwritten by the old value, so that a patch
  within the next five seconds may drop the one before; the patch merges into the cached
  dictionary in place, so a change whose write failed stays visible and is written by the next;
  a loader that raises leaves its waiters waiting.

**Indexes, caches and stores of the dashboard.**

- Detection index: text files that cannot be read count as empty and their fingerprint is
  recorded; FTP file and radiants are read at different moments, and the placeholder row then
  stays beside the real one; removed detections are never deleted; the rolling window loses the
  nights of a longer outage; a skipped cycle resets the poller's own error count
  (`dashboard/index_poller.py:182`); the bootstrap may overwrite newer rows of a station.
- Watchdog: "resolved" is sent for alerts that were not; a lost "resolved" is not repeated; the
  dawn announcement is marked before it is sent; a mount that vanishes stays an active alert.
- Status: a snapshot may be cached stale; concurrent writers may store and broadcast in opposite
  orders; `_with_sshfs_timeout` can leave its count of leaked threads one too high.
- Registries: `_load_raw` of both key stores answers any read error with an empty list, which the
  next `add_key` writes back; `_save_config` dumps before it takes the lock, and each worker saves
  its own memory (`rovimen_dashboard.py:1054`; `docs/networking.md:176` advises more workers), so
  `NoChangeIsLost` leaves the configuration out; a 409 of the configuration repository drops the
  push, and an older content may be pushed last.
- Thumbnails: a night is pruned although its promotion failed (`cache_store.py:221-223`), and its
  thumbnails are then in no tier, against the docstring at `:199-202` ("MOVED rather than deleted"); hot
  thumbnails are written in place; the colour pass is not retried, against the docstring of
  `_prefetch_night`.
- Archive index: `refresh_recent` only adds; a full build that started before a refresh may
  publish the older scan; an error of the mount publishes an empty camera; the RMS route pairs
  radiants with FTP rows by position.
- Compilations: the comment on not firing twice is not true of two ticks; two builds share a work
  directory; a restart leaves "building" or "uploading" for ever, and every later request gets a
  409; a video whose status was lost after its upload is uploaded again; a corrupt file counts as
  no compilations.
- Storage-box retention: clips pruned before do not count for the next threshold, so repeated
  runs wear away the "brightest 20 % of all time"; a clip already marked hides its later partners
  (`storagebox_janitor.py:305-307`), so that clips seen from a second camera are deleted, which
  `:13-14` and `:301-302` and `docs/storagebox_retention.md:21` promise to keep; a failed GMN lookup counts as no confirmation; the decision uses
  the lock read in the first pass; the write of `state.json` may overwrite a pushed one and the
  other way round.
- GMN: dashboard and janitor are two processes with one `.tmp`, so that a torn month may be
  published, and the loser's `replace` raises; a poll during an outage overwrites a good payload
  with an error; the date sent for `If-Modified-Since` is that of the download, which misses what
  was published during it; an on-demand answer may overwrite a pinned one; the flag of the initial
  pass is set only when the thread ends (`gmn_poller.py:475`), so the on-demand fetch that
  `overview.py:216` promises does not take place while it lives.
- Clip and media caches: two downloads of one clip share `<file>.tmp`; a file may be evicted
  between promotion and sending; temporary files of a killed process count toward the budget for
  ever; a request that times out in the queue leaves the file of its job; a ZIP generator closed
  before its first block leaves its directory; `int(body.get("focused_idx") or -1)` makes index 0
  impossible.

**Live services and pages.**

- Tunnels: `start_all` and the watchdog both establish (`rovimen_dashboard.py:1634`), though the
  comment names the watchdog as sole owner, and one of two ssh processes is orphaned; a silent
  jump host counts as connected, and the second is not tried; nothing in the watchdog's loop
  catches what its sweep raises: the overflow of the backoff's power after about 1,025 failures, a
  dictionary that changes under the iteration (`tunnels.py:122`, and `:108` in `start_all`) and
  the lack of a free port (`:227`) each end the thread for good.
- Live streams: a response generator that never starts keeps its semaphores and the station's
  ffmpeg, against `rovimen_dashboard.py:348`; clearing the table at 1,024 entries lets a user hold
  a second stream; a station notices that its relay has gone only at the next frame.
- Focus: the viewer starts ffmpeg outside the pool's lock, and a stream stopped in between runs
  outside the pool; evicting an entry whose ffmpeg has ended frees nothing, so that `max_streams`
  can be exceeded; an old reader's end can stop the new one.
- Sky dome: at civil dawn the films it needs usually do not exist, the build fails once and is
  not tried again; `_build_sky_dome_timelapse` has no caller; a PNG that another request is writing
  may be served.
- Detections and events: clusters are anchored at their first detection, which may split a pair
  that is within the window; the night becomes "past" at 00:00 UTC while it still runs; one grid
  does not wrap its window over midnight and the other does; nights covered by the index list no
  local event; a meteor after midnight is listed under two dates, and its page has no clips under
  the second.
- Timelapse pages: two cold requests may store in opposite orders, and a cold one may overwrite a
  later refresh.
- Nightly post: failed sends are swallowed and the night is marked; a kill before the marker posts
  it twice, as do two runs at once.

## 6. Not modelled

- Signatures, hashes and key formats are one bit of a command (`unverifiable`). HTTP validation
  and size limits are the kind of a request.
- Sign-in, sessions, rate limits and header policy: the storage of accounts and keys is in
  `Registries`, the flows are left out.
- Image processing, astrometry, geometry, rendering, parsing of RMS and GMN text, pages,
  filters and paging, browser code, installation: no state that several parties share.
- `mdc_poller`, `network_stats`, `usage_stats`, `scan_shower_counts`, `platepar_store`: one thread
  each, writing whole files.
- Dawn runs by hand with `--date` and the waits of `reboot_guard.sh`; the branch of the thumbnail
  prune for a station without a cold tier (`THUMB_ARCHIVE_DIR` unset), which only deletes.
- Liveness is checked and not proved.

## 7. What is left

- Inductive invariants for the rest of what `ArchiveIndex` and `StationWatch` promise beyond types:
  today their promises are liveness only.
- A composition in which `ClipRetention` goes through `FlagStore` step by step.
- Runs of their own for the disagreements seen by reading, the station's update and the two
  registries first.
- A night of two segments in `NightCapture`, and the uploads of stacks and timelapses.
