----------------------------- MODULE FlagsManager -----------------------------
(***************************************************************************)
(* flags_manager.py: the load-modify-save of ONE night's state.json by     *)
(* threads of several station processes (capture, dawn_process,            *)
(* station_api).  A call takes the night's threading.Lock from a           *)
(* per-process dictionary, then an fcntl lock between processes, loads the *)
(* file, writes state.json.tmp and renames it over state.json.             *)
(* (SweepSpec adds dawn_process._sweep_stale_locks on a night that others  *)
(* still write to: it loads and saves WITHOUT those locks.)                *)
(*                                                                         *)
(* Files are inodes behind two names, so that two writers of the one       *)
(* state.json.tmp meet as they do on a file system.  What the file says is *)
(* the set of marks (one per chunk and flag) that are on.                  *)
(***************************************************************************)
EXTENDS Naturals, FiniteSets, TLC

CONSTANTS
    Threads,
    Procs,              \* the processes, each of them the set of its threads
    Marks,
    LockIds,            \* threading.Lock objects
    Inodes,
    None,
    Sweepers,           \* threads that run _sweep_stale_locks (in SweepSpec)
    LockMark            \* the mark that it clears

ASSUME ThreadsAssumption ==
    UNION Procs = Threads /\ \A p, q \in Procs : p = q \/ p \cap q = {}
ASSUME NoneAssumption == None \notin Threads \cup LockIds \cup Inodes

VARIABLES
    entry,              \* entry[p]: the night's Lock in _locks of process p
    mine,               \* mine[t]: the Lock object t was given
    owner,              \* owner[l]: the thread that holds Lock l
    flock,              \* the thread that holds the fcntl lock
    state, tmp,         \* inodes named state.json and state.json.tmp
    content,            \* content[i]: [whole, marks]; not whole is not JSON
    fd,                 \* fd[t]: the inode t is writing to
    buf,                \* buf[t]: the marks t will write
    request,            \* request[t]: {} or the change t is making
    unread,             \* the threads whose load failed and gave _empty_state
    pc

lockVars == <<entry, mine, owner, flock>>
fileVars == <<state, tmp, content>>
vars == <<lockVars, fileVars, fd, buf, request, unread, pc>>

ProcOf(t) == CHOOSE p \in Procs : t \in p

Changes == [mark: Marks, on: BOOLEAN]
Steps   == {"idle", "thread_lock", "flock", "load", "open", "write", "replace"}

Changed(s, change) ==
    IF change.on THEN s \cup {change.mark} ELSE s \ {change.mark}

Whole(s) == [whole |-> TRUE, marks |-> s]
Torn     == [whole |-> FALSE, marks |-> {}]

Goto(t, step) == pc' = [pc EXCEPT ![t] = step]

Init ==
    /\ entry = [p \in Procs |-> None]
    /\ mine = [t \in Threads |-> None]
    /\ owner = [l \in LockIds |-> None]
    /\ flock = None
    /\ state \in Inodes
    /\ tmp = None
    /\ \E s \in SUBSET Marks : content = [i \in Inodes |-> Whole(s)]
    /\ fd = [t \in Threads |-> None]
    /\ buf = [t \in Threads |-> {}]
    /\ request = [t \in Threads |-> {}]
    /\ unread = {}
    /\ pc = [t \in Threads |-> "idle"]

------------------------------------------------------------------------------
(* The two locks *)

Fresh(l) == /\ \A p \in Procs : entry[p] # l
            /\ \A t \in Threads : mine[t] # l

\* _get_lock: the dictionary's Lock for the night, a new one if there is none.
GetLock(t, l) ==
    LET p == ProcOf(t) IN
    /\ IF entry[p] = None THEN Fresh(l) ELSE l = entry[p]
    /\ entry' = [entry EXCEPT ![p] = l]
    /\ mine' = [mine EXCEPT ![t] = l]

Call(t) ==
    /\ pc[t] = "idle"
    /\ \E change \in Changes : request' = [request EXCEPT ![t] = {change}]
    /\ \E l \in LockIds : GetLock(t, l)
    /\ Goto(t, "thread_lock")
    /\ UNCHANGED <<owner, flock, fileVars, fd, buf, unread>>

\* A call about another night finds more than 60 Locks and clears them all.
EvictLocks(p) ==
    /\ entry[p] # None
    /\ entry' = [entry EXCEPT ![p] = None]
    /\ UNCHANGED <<mine, owner, flock, fileVars, fd, buf, request, unread, pc>>

TakeThreadLock(t) ==
    /\ pc[t] = "thread_lock"
    /\ owner[mine[t]] = None
    /\ owner' = [owner EXCEPT ![mine[t]] = t]
    /\ Goto(t, "flock")
    /\ UNCHANGED <<entry, mine, flock, fileVars, fd, buf, request, unread>>

\* Faulty variant: the file lock is shared between processes.
TakeFlockShared(t) ==
    /\ pc[t] = "flock"
    /\ flock' = t
    /\ Goto(t, "load")
    /\ UNCHANGED <<entry, mine, owner, fileVars, fd, buf, request, unread>>

TakeFlock(t) ==
    /\ pc[t] = "flock"
    /\ flock = None
    /\ flock' = t
    /\ Goto(t, "load")
    /\ UNCHANGED <<entry, mine, owner, fileVars, fd, buf, request, unread>>

\* The threads of T leave _lock: both locks are let go, the change is over.
Leave(T) ==
    /\ owner' = [l \in LockIds |-> IF owner[l] \in T THEN None ELSE owner[l]]
    /\ flock' = IF flock \in T THEN None ELSE flock
    /\ mine' = [t \in Threads |-> IF t \in T THEN None ELSE mine[t]]
    /\ fd' = [t \in Threads |-> IF t \in T THEN None ELSE fd[t]]
    /\ buf' = [t \in Threads |-> IF t \in T THEN {} ELSE buf[t]]
    /\ request' = [t \in Threads |-> IF t \in T THEN {} ELSE request[t]]
    /\ unread' = unread \ T
    /\ pc' = [t \in Threads |-> IF t \in T THEN "idle" ELSE pc[t]]

------------------------------------------------------------------------------
(* load and save *)

\* What load gives when the file can be read and is JSON.
Loaded == content[state].marks

\* Faulty variant: the call starts from _empty_state.
LoadEmpty(t) ==
    /\ pc[t] = "load"
    /\ \E change \in request[t] :
        buf' = [buf EXCEPT ![t] = Changed({}, change)]
    /\ Goto(t, "open")
    /\ UNCHANGED <<lockVars, fileVars, fd, request, unread>>

Load(t) ==
    /\ pc[t] = "load"
    /\ content[state].whole
    /\ \E change \in request[t] :
        buf' = [buf EXCEPT ![t] = Changed(Loaded, change)]
    /\ Goto(t, "open")
    /\ UNCHANGED <<lockVars, fileVars, fd, request, unread>>

\* The read of any file may fail (OSError), that of a torn one always does: the
\* call goes on from _empty_state.  One that clears a mark does not find the
\* chunk there and saves nothing; one that sets a mark saves a night with no other.
LoadFails(t) ==
    /\ pc[t] = "load"
    /\ \E change \in request[t] :
        \/ /\ change.on
           /\ buf' = [buf EXCEPT ![t] = Changed({}, change)]
           /\ unread' = unread \cup {t}
           /\ Goto(t, "open")
           /\ UNCHANGED <<mine, owner, flock, fd, request>>
        \/ /\ ~ change.on
           /\ Leave({t})
    /\ UNCHANGED <<entry, fileVars>>

\* Faulty variant of OpenTmp: state.json itself is truncated and written.
OpenInPlace(t) ==
    /\ pc[t] = "open"
    /\ fd' = [fd EXCEPT ![t] = state]
    /\ tmp' = state
    /\ content' = [content EXCEPT ![state] = Torn]
    /\ Goto(t, "write")
    /\ UNCHANGED <<lockVars, state, buf, request, unread>>

\* write_text opens state.json.tmp: truncates the file there is or makes one.
OpenTmp(t) ==
    /\ pc[t] = "open"
    /\ \E i \in Inodes :
        /\ IF tmp = None THEN i # state /\ \A u \in Threads : fd[u] # i
                         ELSE i = tmp
        /\ fd' = [fd EXCEPT ![t] = i]
        /\ tmp' = i
        /\ content' = [content EXCEPT ![i] = Torn]
    /\ Goto(t, "write")
    /\ UNCHANGED <<lockVars, state, buf, request, unread>>

\* Written over what another writer left, a shorter text leaves its tail.
WriteTmp(t) ==
    /\ pc[t] = "write"
    /\ \E c \in {Whole(buf[t])} \cup IF content[fd[t]].whole THEN {Torn} ELSE {} :
        content' = [content EXCEPT ![fd[t]] = c]
    /\ Goto(t, "replace")
    /\ UNCHANGED <<lockVars, state, tmp, fd, buf, request, unread>>

\* os.replace, and the way out of _lock.
Replace(t) ==
    /\ pc[t] = "replace"
    /\ tmp # None
    /\ state' = tmp
    /\ tmp' = None
    /\ Leave({t})
    /\ UNCHANGED <<entry, content>>

\* An OSError of open, write or replace is raised to the caller; replace
\* raises one when another writer has renamed state.json.tmp away.
SaveFails(t) ==
    /\ pc[t] \in {"open", "write", "replace"}
    /\ Leave({t})
    /\ UNCHANGED <<entry, fileVars>>

\* The process is killed (daily reboot, SIGTERM, systemd): its locks go.
Crash(p) ==
    /\ Leave(p)
    /\ entry' = [entry EXCEPT ![p] = None]
    /\ UNCHANGED fileVars

------------------------------------------------------------------------------
Advance(t) ==
    \/ TakeThreadLock(t) \/ TakeFlock(t)
    \/ Load(t) \/ LoadFails(t) \/ OpenTmp(t) \/ WriteTmp(t) \/ Replace(t) \/ SaveFails(t)

Next ==
    \/ \E t \in Threads : Call(t) \/ Advance(t)
    \/ \E p \in Procs : EvictLocks(p) \/ Crash(p)

Spec == Init /\ [][Next]_vars

\* No lock is taken, and nothing is saved when no chunk of the night was locked,
\* which is also what a failed read looks like.
\* The save is that of every call: OpenTmp, WriteTmp, Replace.
SweepLoad(t) ==
    /\ pc[t] = "idle"
    /\ content[state].whole
    /\ LockMark \in Loaded
    /\ buf' = [buf EXCEPT ![t] = Loaded \ {LockMark}]
    /\ request' = [request EXCEPT ![t] = {[mark |-> LockMark, on |-> FALSE]}]
    /\ Goto(t, "open")
    /\ UNCHANGED <<lockVars, fileVars, fd, unread>>

SweepSpec == Init /\ [][Next \/ \E t \in Sweepers : SweepLoad(t)]_vars

------------------------------------------------------------------------------
(* Properties *)

\* The types, and the two locks and the request as pc says they are.
TypeOK ==
    /\ entry \in [Procs -> LockIds \cup {None}]
    /\ mine \in [Threads -> LockIds \cup {None}]
    /\ owner \in [LockIds -> Threads \cup {None}]
    /\ flock \in Threads \cup {None}
    /\ state \in Inodes
    /\ tmp \in Inodes \cup {None}
    /\ content \in [Inodes -> [whole: BOOLEAN, marks: SUBSET Marks]]
    /\ fd \in [Threads -> Inodes \cup {None}]
    /\ buf \in [Threads -> SUBSET Marks]
    /\ request \in [Threads -> SUBSET Changes]
    /\ unread \subseteq Threads
    /\ pc \in [Threads -> Steps]

\* A reader of state.json, which takes no lock (is_chunk_uploaded, _is_locked
\* and every other load), never finds it half written, though writers are
\* killed and fail half way: load would take it for an empty night.
StateIsWhole == content[state].whole

\* Two calls never stand inside _lock at once, though the dictionary of thread
\* locks is cleared under them and two threads of a process may each hold a
\* Lock for the night.
OneCallInside ==
    \A t, u \in Threads :
        /\ pc[t] \in {"load", "open", "write", "replace"} /\ flock = t
        /\ pc[u] \in {"load", "open", "write", "replace"}
        => t = u

\* Whatever overlaps, fails or is killed, a call that could read the file makes its
\* change to what state.json says at that instant and to nothing else: it loses and
\* brings back no other call's mark.  Marks go only with a call that could NOT read
\* the file and sets a mark: it leaves that mark alone on the night.
Store == INSTANCE FlagStore WITH marks <- content[state].marks
ImplementsFlagStore == Store!StoreSpec

\* Both locks are let go on every way out, failing saves included: who holds one
\* is on its way through the call that took it, and holds the Lock it was given.
HoldersAreInside ==
    /\ \A t \in Threads : flock = t => pc[t] \in {"load", "open", "write", "replace"}
    /\ \A l \in LockIds :
          owner[l] # None => /\ mine[owner[l]] = l
                             /\ pc[owner[l]] \notin {"idle", "thread_lock"}

\* flags_manager.py:9 "All writes are atomic (write to .tmp then os.replace).
\* Per-night locks prevent concurrent corruption": a save that renames its own
\* text over a sound state.json, which it could read, leaves every mark but its
\* call's as it was.
OthersMarksStay ==
    [][\A t \in Threads :
          /\ pc[t] = "replace" /\ state' # state /\ t \notin unread
          /\ content[state].whole /\ content[tmp] = Whole(buf[t])
          => \E change \in request[t] :
                content[state'].marks = Changed(content[state].marks, change)]_vars

\* For TLC: the threads of a process are alike, and so are the Lock objects and the inodes.
Symmetry ==
    UNION {Permutations(p) : p \in Procs} \cup Permutations(LockIds) \cup Permutations(Inodes)

==============================================================================
