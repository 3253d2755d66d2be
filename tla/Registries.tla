----------------------------- MODULE Registries -----------------------------
(***************************************************************************)
(* The YAML registries of the dashboard: users.yaml (auth), api_keys.yaml, *)
(* station_keys.yaml and dashboard_config.yaml.  Threads of several        *)
(* processes change them: flock on a sidecar file, write <file>.tmp,       *)
(* rename.  Readers take no lock and keep what they parsed with the mtime  *)
(* they had seen.  kind says which registry a behaviour is about.          *)
(***************************************************************************)
EXTENDS Integers

CONSTANTS
    Threads, ProcOf(_),  \* the process of a thread
    Rows,               \* accounts, keys or cameras
    ReadMayFail,        \* an unreadable key file is taken for an empty one
    MaxWrites           \* bound

VARIABLES
    kind, file,         \* [mtime, rows]
    tmp,                \* the rows in <file>.tmp, if there is one
    holder,             \* threads that hold the flock
    cache,              \* per process: at most one [mtime, rows]; for config its memory
    thread,
    acked,              \* what the last successful change of each row made of it
    repo                \* config_sync: the file in the repository [sha, rows]

registryVars == <<kind, file, tmp, holder, cache, thread, acked, repo>>

Kinds == {"users", "api_keys", "station_keys", "config"}
KeyKinds == {"api_keys", "station_keys"}
Values == {"absent", "plain", "on", "off"}
Contents == [Rows -> Values]
Empty == [r \in Rows |-> "absent"]
Processes == {ProcOf(t) : t \in Threads}

\* steps: of a reader parsing, caching; of a writer waiting, locked, written, unlocked;
\* of a sync thread reading, asking, putting
Steps == {"idle", "parsing", "caching", "waiting", "locked", "written", "unlocked",
          "reading", "asking", "putting"}
Ops == {"create", "patch", "delete"}
ThreadStates == [step: Steps, op: Ops \cup {"none"}, row: Rows, seen: Nat, rows: Contents]
Idle == [step |-> "idle", op |-> "none", row |-> CHOOSE r \in Rows : TRUE, seen |-> 0,
         rows |-> Empty]

RegistryInit ==
    /\ kind \in Kinds
    /\ file \in [mtime: {0}, rows: {[r \in Rows |-> IF kind \in KeyKinds THEN "plain" ELSE "on"]}]
    /\ tmp = {}
    /\ holder = {}
    /\ cache = [p \in Processes |-> IF kind = "config" THEN {file} ELSE {}]
    /\ thread = [t \in Threads |-> Idle]
    /\ acked = file.rows
    /\ repo = [sha |-> 0, rows |-> file.rows]

Becomes(t, new) == thread' = [thread EXCEPT ![t] = new]
Goto(t, step) == Becomes(t, [thread[t] EXCEPT !.step = step])

------------------------------------------------------------------------------
(* Readers: _load_users, api_keys._get_indexes, station_keys._get_indexes.  *)

Fresh(p) == {c \in cache[p] : c.mtime = file.mtime}

Stat(t) == thread[t].seen

\* _load_users / _get_indexes: the cached rows do unless the mtime differs.
LookUp(t) ==
    /\ kind # "config" /\ thread[t].step = "idle" /\ Fresh(ProcOf(t)) = {}
    /\ Becomes(t, [Idle EXCEPT !.step = "parsing", !.seen = file.mtime])
    /\ UNCHANGED <<kind, file, tmp, holder, cache, acked, repo>>

Parse(t) ==
    /\ thread[t].step = "parsing"
    /\ Becomes(t, [thread[t] EXCEPT !.step = "caching", !.rows = file.rows])
    /\ UNCHANGED <<kind, file, tmp, holder, cache, acked, repo>>

Cache(t) ==
    /\ thread[t].step = "caching"
    /\ cache' = [cache EXCEPT ![ProcOf(t)] = {[mtime |-> Stat(t), rows |-> thread[t].rows]}]
    /\ Becomes(t, Idle)
    /\ UNCHANGED <<kind, file, tmp, holder, acked, repo>>

------------------------------------------------------------------------------
(* What the operations make of a row; they are refused in every other case. *)

\* admin_config's user routes, and the logins that burn or set a credential.
UserChange(op, old) ==
    CASE op = "create" /\ old = "absent" -> {"on"}
      [] op = "patch"  /\ old # "absent" -> {"on", "off"} \ {old}
      [] op = "delete" /\ old # "absent" -> {"absent"}
      [] OTHER -> {}

\* api_keys.add_key (any row with the id is in the way), disable_key, and validate's
\* rewriting of a plaintext row.
ApiKeyChange(op, old) ==
    CASE op = "create" /\ old = "absent" -> {"on"}
      [] op = "patch"  /\ old = "plain"  -> {"on"}
      [] op = "delete" /\ old # "absent" -> {"off"}
      [] OTHER -> {}

\* station_keys.add_key: only an enabled row is in the way.
StationKeyChange(op, old) ==
    CASE op = "create" /\ old \in {"absent", "off"} -> {"on"}
      [] op = "patch"  /\ old = "plain" -> {"on"}
      [] op = "delete" /\ old # "absent" -> {"off"}
      [] OTHER -> {}

\* admin_config's network routes.
ConfigChange(op, old) ==
    CASE op = "create" /\ old = "absent" -> {"on"}
      [] op = "patch"  /\ old # "absent" -> {"on", "off"} \ {old}
      [] op = "delete" -> {"absent"}
      [] OTHER -> {}

Change(op, old) ==
    CASE kind = "users" -> UserChange(op, old)
      [] kind = "api_keys" -> ApiKeyChange(op, old)
      [] kind = "station_keys" -> StationKeyChange(op, old)
      [] kind = "config" -> ConfigChange(op, old)

------------------------------------------------------------------------------
(* Writers                                                                  *)

\* A request or an administrator's script begins a change; the configuration is changed
\* in the process's memory, and dumped, before any lock.
Begin(t, op, r) ==
    /\ thread[t].step = "idle" /\ file.mtime < MaxWrites
    /\ IF kind = "config"
       THEN LET p == ProcOf(t) IN
            \E m \in cache[p] : \E v \in ConfigChange(op, m.rows[r]) :
               LET rows == [m.rows EXCEPT ![r] = v] IN
               /\ cache' = [cache EXCEPT ![p] = {[m EXCEPT !.rows = rows]}]
               /\ Becomes(t, [Idle EXCEPT !.step = "waiting", !.op = op, !.row = r, !.rows = rows])
       ELSE /\ Becomes(t, [Idle EXCEPT !.step = "waiting", !.op = op, !.row = r])
            /\ UNCHANGED cache
    /\ UNCHANGED <<kind, file, tmp, holder, acked, repo>>

\* Faulty variant: the flock is not taken.
Unlocked(t) == TRUE

Free(t) == holder = {}

Lock(t) ==
    /\ thread[t].step = "waiting" /\ Free(t)
    /\ holder' = holder \cup {t}
    /\ Goto(t, "locked")
    /\ UNCHANGED <<kind, file, tmp, cache, acked, repo>>

\* _update_users reads the file, and then takes what the process has cached of it if the
\* mtime is the same: rows that are in the file only are kept as they are.
UserBase(t) ==
    LET before == {c.rows : c \in Fresh(ProcOf(t))} IN
    IF before = {} THEN {file.rows} ELSE before

\* _load_raw
KeyBase(t) == {file.rows} \cup (IF ReadMayFail THEN {Empty} ELSE {})

Base(t) == CASE kind = "users" -> UserBase(t)
             [] kind \in KeyKinds -> KeyBase(t)
             [] OTHER -> {thread[t].rows}

\* Load, change, and write <file>.tmp.
Load(t) ==
    /\ thread[t].step = "locked"
    /\ \E base \in Base(t) :
          \E v \in IF kind = "config" THEN {base[thread[t].row]}
                   ELSE Change(thread[t].op, base[thread[t].row]) :
             LET rows == [base EXCEPT ![thread[t].row] = v] IN
             /\ tmp' = {rows}
             /\ Becomes(t, [thread[t] EXCEPT !.step = "written", !.rows = rows])
    /\ UNCHANGED <<kind, file, holder, cache, acked, repo>>

\* _Conflict, _NotFound, ValueError, "not found", "already migrated".
Refuse(t) ==
    /\ thread[t].step = "locked" /\ kind # "config"
    /\ \E base \in Base(t) : Change(thread[t].op, base[thread[t].row]) = {}
    /\ holder' = holder \ {t}
    /\ Becomes(t, Idle)
    /\ UNCHANGED <<kind, file, tmp, cache, acked, repo>>

\* os.replace, whatever is in <file>.tmp by now.
Replace(t) ==
    /\ thread[t].step = "written"
    /\ \E rows \in tmp : file' = [mtime |-> file.mtime + 1, rows |-> rows]
    /\ acked' = [acked EXCEPT ![thread[t].row] = thread[t].rows[thread[t].row]]
    /\ holder' = holder \ {t}
    /\ Goto(t, IF kind = "config" THEN "reading" ELSE "unlocked")
    /\ tmp' = {}
    /\ UNCHANGED <<kind, cache, repo>>

\* _invalidate_users_cache, _invalidate_cache
Invalidate(t) ==
    /\ thread[t].step = "unlocked"
    /\ cache' = [cache EXCEPT ![ProcOf(t)] = {}]
    /\ Becomes(t, Idle)
    /\ UNCHANGED <<kind, file, tmp, holder, acked, repo>>

------------------------------------------------------------------------------
(* config_sync: the saved file goes to the repository in the background.    *)

SyncRead(t) ==
    /\ thread[t].step = "reading"
    /\ Becomes(t, [thread[t] EXCEPT !.step = "asking", !.rows = file.rows])
    /\ UNCHANGED <<kind, file, tmp, holder, cache, acked, repo>>

SyncAsk(t) ==
    /\ thread[t].step = "asking"
    /\ Becomes(t, [thread[t] EXCEPT !.step = "putting", !.seen = repo.sha])
    /\ UNCHANGED <<kind, file, tmp, holder, cache, acked, repo>>

\* The repository refuses a file that has changed since.
SyncPut(t) ==
    /\ thread[t].step = "putting"
    /\ repo' = IF thread[t].seen = repo.sha
               THEN [sha |-> repo.sha + 1, rows |-> thread[t].rows] ELSE repo
    /\ Becomes(t, Idle)
    /\ UNCHANGED <<kind, file, tmp, holder, cache, acked>>

\* No token, or a request fails: logged, and that is all.
SyncFails(t) ==
    /\ thread[t].step \in {"reading", "asking", "putting"}
    /\ Becomes(t, Idle)
    /\ UNCHANGED <<kind, file, tmp, holder, cache, acked, repo>>

\* A process ends, and with it its locks, and starts again: the configuration is read.
Restart(p) ==
    LET gone == {t \in Threads : ProcOf(t) = p} IN
    /\ thread' = [t \in Threads |-> IF t \in gone THEN Idle ELSE thread[t]]
    /\ holder' = holder \ gone
    /\ cache' = [cache EXCEPT ![p] = IF kind = "config" THEN {[mtime |-> 0, rows |-> file.rows]}
                                     ELSE {}]
    /\ UNCHANGED <<kind, file, tmp, acked, repo>>

------------------------------------------------------------------------------
RegistryStep(t) ==
    \/ LookUp(t) \/ Parse(t) \/ Cache(t)
    \/ \E op \in Ops, r \in Rows : Begin(t, op, r)
    \/ Lock(t) \/ Load(t) \/ Refuse(t) \/ Replace(t) \/ Invalidate(t)
    \/ SyncRead(t) \/ SyncAsk(t) \/ SyncPut(t) \/ SyncFails(t)

RegistryNext == (\E t \in Threads : RegistryStep(t)) \/ (\E p \in Processes : Restart(p))

RegistrySpec == RegistryInit /\ [][RegistryNext]_registryVars

------------------------------------------------------------------------------
RegistryTypeOK ==
    /\ kind \in Kinds
    /\ file \in [mtime: Nat, rows: Contents]
    /\ tmp \in SUBSET Contents /\ \A x, y \in tmp : x = y
    /\ holder \in SUBSET Threads
    /\ cache \in [Processes -> SUBSET [mtime: 0..file.mtime, rows: Contents]]
    /\ thread \in [Threads -> ThreadStates]
    /\ acked \in Contents
    /\ repo \in [sha: Nat, rows: Contents]

\* Every change of an account or of a key that was answered with success is still in the
\* registry, whichever processes changed other rows, or filled their caches, meanwhile
\* (auth._update_users, api_keys.add_key and disable_key, station_keys.add_key ...).
NoChangeIsLost == kind # "config" => file.rows = acked

==============================================================================
