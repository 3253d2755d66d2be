-------------------------- MODULE FlagsManagerProofs --------------------------
(***************************************************************************)
(* For any number of threads and processes: on a night that the stale-lock *)
(* sweep leaves alone, the calls of flags_manager exclude each other by    *)
(* the file lock alone, readers never find a half-written file, and the    *)
(* module implements the atomic FlagStore, failed reads included.          *)
(***************************************************************************)
EXTENDS FlagsManager, TLAPS

Inside == {"load", "open", "write", "replace"}

\* Whoever is past flock(2) holds the file lock.
InsideHolds == \A t \in Threads : pc[t] \in Inside => flock = t

\* A thread has one request exactly while it is in a call.
OneRequest ==
    \A t \in Threads :
        /\ pc[t] = "idle" => request[t] = {}
        /\ pc[t] # "idle" => \E change \in Changes : request[t] = {change}

\* The holder is the only writer of state.json.tmp, which is another inode
\* than state.json.
TmpIsMine ==
    /\ tmp # state
    /\ \A t \in Threads :
        pc[t] \in {"write", "replace"} => tmp # None /\ fd[t] = tmp

\* Only the holder, past its load, has missed the marks.
UnreadIsPastLoad == \A t \in unread : pc[t] \in {"open", "write", "replace"}

\* What the holder is going to write is its change of what it read.
Read(t) == IF t \in unread THEN {} ELSE content[state].marks

BufIsChange ==
    \A t \in Threads : pc[t] \in {"open", "write", "replace"} =>
        \A change \in request[t] : buf[t] = Changed(Read(t), change)

\* state.json.tmp holds nothing after open and all of buf after the write.
TextOfTmp ==
    \A t \in Threads :
        /\ pc[t] = "write" => content[tmp] = Torn
        /\ pc[t] = "replace" => content[tmp] = Whole(buf[t])

FlagInv ==
    /\ TypeOK /\ StateIsWhole /\ InsideHolds /\ OneRequest
    /\ TmpIsMine /\ UnreadIsPastLoad /\ BufIsChange /\ TextOfTmp

LEMMA ChangedType ==
    ASSUME NEW s \in SUBSET Marks, NEW change \in Changes
    PROVE  Changed(s, change) \in SUBSET Marks
BY DEF Changed, Changes

LEMMA RequestedType ==
    ASSUME TypeOK, NEW t \in Threads, NEW change \in request[t]
    PROVE  change \in Changes
BY DEF TypeOK

------------------------------------------------------------------------------
LEMMA InitInv == ASSUME Init PROVE FlagInv
<1>1. TypeOK
  BY ThreadsAssumption DEF Init, TypeOK, Whole, Steps
<1>2. StateIsWhole /\ InsideHolds /\ OneRequest /\ UnreadIsPastLoad /\ BufIsChange /\ TextOfTmp
  BY DEF Init, StateIsWhole, InsideHolds, OneRequest, UnreadIsPastLoad, BufIsChange,
         TextOfTmp, Inside, Whole
<1>3. TmpIsMine
  BY NoneAssumption DEF Init, TmpIsMine
<1> QED BY <1>1, <1>2, <1>3 DEF FlagInv

\* The steps that touch no file and let no thread in.
LEMMA CallInv ==
    ASSUME FlagInv, NEW t \in Threads, Call(t)
    PROVE  FlagInv'
<1> USE DEF FlagInv
<1>1. /\ pc[t] = "idle" /\ pc' = [pc EXCEPT ![t] = "thread_lock"]
      /\ \E change \in Changes : request' = [request EXCEPT ![t] = {change}]
      /\ UNCHANGED <<owner, flock, state, tmp, content, fd, buf, unread>>
  BY DEF Call, Goto, fileVars
<1>2. entry' \in [Procs -> LockIds \cup {None}]
      /\ mine' \in [Threads -> LockIds \cup {None}]
  <2>1. PICK l \in LockIds : GetLock(t, l)
    BY DEF Call
  <2>2. ProcOf(t) \in Procs
    BY ThreadsAssumption DEF ProcOf
  <2>3. /\ entry' = [entry EXCEPT ![ProcOf(t)] = l]
        /\ mine' = [mine EXCEPT ![t] = l]
    BY <2>1 DEF GetLock
  <2> QED BY <2>2, <2>3 DEF TypeOK
<1>3. request' \in [Threads -> SUBSET Changes] /\ pc' \in [Threads -> Steps]
  BY <1>1 DEF TypeOK, Steps
<1>4. TypeOK'
  BY <1>1, <1>2, <1>3 DEF TypeOK
<1>5. OneRequest'
  BY <1>1 DEF OneRequest, TypeOK
<1>6. \A u \in Threads : pc'[u] \in Inside => u # t /\ pc'[u] = pc[u]
  BY <1>1 DEF TypeOK, Inside
<1>7. StateIsWhole' /\ InsideHolds' /\ TmpIsMine' /\ UnreadIsPastLoad' /\ BufIsChange'
      /\ TextOfTmp'
  BY <1>1, <1>6 DEF StateIsWhole, InsideHolds, TmpIsMine, UnreadIsPastLoad,
     Read, BufIsChange, TextOfTmp, TypeOK, Inside
<1> QED BY <1>4, <1>5, <1>7

LEMMA EvictLocksInv ==
    ASSUME FlagInv, NEW p \in Procs, EvictLocks(p)
    PROVE  FlagInv'
BY DEF FlagInv, EvictLocks, TypeOK, StateIsWhole, InsideHolds, OneRequest,
       TmpIsMine, UnreadIsPastLoad, Read, BufIsChange, TextOfTmp, fileVars

LEMMA TakeThreadLockInv ==
    ASSUME FlagInv, NEW t \in Threads, TakeThreadLock(t)
    PROVE  FlagInv'
<1> USE DEF FlagInv
<1>1. /\ pc[t] = "thread_lock" /\ pc' = [pc EXCEPT ![t] = "flock"]
      /\ owner' = [owner EXCEPT ![mine[t]] = t]
      /\ UNCHANGED <<entry, mine, flock, state, tmp, content, fd, buf, request, unread>>
  BY DEF TakeThreadLock, Goto, fileVars
<1>2. TypeOK'
  BY <1>1 DEF TypeOK, Steps
<1>3. \A u \in Threads : pc'[u] \in Inside => pc'[u] = pc[u]
  BY <1>1 DEF TypeOK, Inside
<1>4. OneRequest'
  BY <1>1 DEF OneRequest, TypeOK
<1>5. StateIsWhole' /\ InsideHolds' /\ TmpIsMine' /\ UnreadIsPastLoad' /\ BufIsChange'
      /\ TextOfTmp'
  BY <1>1, <1>3 DEF StateIsWhole, InsideHolds, TmpIsMine, UnreadIsPastLoad,
     Read, BufIsChange, TextOfTmp, TypeOK, Inside
<1> QED BY <1>2, <1>4, <1>5

\* flock(2) lets a thread in when nobody is.
LEMMA TakeFlockInv ==
    ASSUME FlagInv, NEW t \in Threads, TakeFlock(t)
    PROVE  FlagInv'
<1> USE DEF FlagInv
<1>1. /\ pc[t] = "flock" /\ pc' = [pc EXCEPT ![t] = "load"]
      /\ flock = None /\ flock' = t
      /\ UNCHANGED <<entry, mine, owner, state, tmp, content, fd, buf, request, unread>>
  BY DEF TakeFlock, Goto, fileVars
<1>2. TypeOK'
  BY <1>1 DEF TypeOK, Steps
<1>3. \A u \in Threads : u # t => pc[u] \notin Inside /\ pc'[u] = pc[u]
  BY <1>1, NoneAssumption DEF InsideHolds, TypeOK
<1>4. InsideHolds'
  BY <1>1, <1>3 DEF InsideHolds
<1>5. OneRequest'
  BY <1>1 DEF OneRequest, TypeOK
<1>6. pc'[t] = "load"
  BY <1>1 DEF TypeOK
<1>7. StateIsWhole' /\ TmpIsMine' /\ UnreadIsPastLoad' /\ BufIsChange'
      /\ TextOfTmp'
  BY <1>1, <1>3, <1>6 DEF StateIsWhole, TmpIsMine, UnreadIsPastLoad, Read,
     BufIsChange, TextOfTmp, Inside
<1> QED BY <1>2, <1>4, <1>5, <1>7

------------------------------------------------------------------------------
\* The steps of the holder.
LEMMA OthersOutside ==
    ASSUME FlagInv, NEW t \in Threads, pc[t] \in Inside, NEW u \in Threads, u # t
    PROVE  pc[u] \notin Inside
BY DEF FlagInv, InsideHolds

\* The holder loads what the file says.
LEMMA LoadInv ==
    ASSUME FlagInv, NEW t \in Threads, Load(t)
    PROVE  FlagInv'
<1> USE DEF FlagInv
<1>1. /\ pc[t] = "load" /\ pc' = [pc EXCEPT ![t] = "open"]
      /\ UNCHANGED <<entry, mine, owner, flock, state, tmp, content, fd, request, unread>>
  BY DEF Load, Goto, lockVars, fileVars
<1>2. PICK change \in request[t] :
        buf' = [buf EXCEPT ![t] = Changed(content[state].marks, change)]
  BY DEF Load, Loaded
<1>3. request[t] = {change}
  BY <1>1, <1>2 DEF OneRequest
<1>4. TypeOK'
  <2>1. content[state].marks \in SUBSET Marks
    BY DEF TypeOK
  <2>2. Changed(content[state].marks, change) \in SUBSET Marks
    BY <2>1, ChangedType, RequestedType
  <2> QED BY <1>1, <1>2, <2>2 DEF TypeOK, Steps
<1>5. \A u \in Threads : u # t => pc[u] \notin Inside /\ pc'[u] = pc[u]
  BY <1>1, OthersOutside DEF TypeOK, Inside
<1>6. pc'[t] = "open" /\ buf'[t] = Changed(content[state].marks, change)
  BY <1>1, <1>2 DEF TypeOK
<1>7. InsideHolds' /\ OneRequest'
  BY <1>1, <1>5, <1>6 DEF InsideHolds, OneRequest, Inside
<1>8. StateIsWhole' /\ TmpIsMine' /\ TextOfTmp'
  BY <1>1, <1>5, <1>6 DEF StateIsWhole, TmpIsMine, TextOfTmp, Inside
<1>9. t \notin unread /\ UnreadIsPastLoad'
  BY <1>1, <1>5 DEF UnreadIsPastLoad, TypeOK, Inside
<1>10. BufIsChange'
  BY <1>1, <1>3, <1>5, <1>6, <1>9 DEF BufIsChange, Read, Inside
<1> QED BY <1>4, <1>7, <1>8, <1>9, <1>10

\* A holder that could not read the file and sets a mark.
MissesMarks(t) ==
    /\ pc[t] = "load"
    /\ \E change \in request[t] :
        change.on /\ buf' = [buf EXCEPT ![t] = Changed({}, change)]
    /\ unread' = unread \cup {t}
    /\ pc' = [pc EXCEPT ![t] = "open"]
    /\ UNCHANGED <<entry, mine, owner, flock, state, tmp, content, fd, request>>

LEMMA LoadFailsCases ==
    ASSUME NEW t \in Threads, LoadFails(t)
    PROVE  \/ MissesMarks(t)
           \/ Leave({t}) /\ UNCHANGED fileVars /\ UNCHANGED entry
BY DEF LoadFails, MissesMarks, Goto, fileVars

LEMMA MissesMarksInv ==
    ASSUME FlagInv, NEW t \in Threads, MissesMarks(t)
    PROVE  FlagInv'
<1> USE DEF FlagInv
<1>1. /\ pc[t] = "load" /\ pc' = [pc EXCEPT ![t] = "open"]
      /\ unread' = unread \cup {t}
      /\ UNCHANGED <<entry, mine, owner, flock, state, tmp, content, fd, request>>
  BY DEF MissesMarks
<1>2. PICK change \in request[t] : buf' = [buf EXCEPT ![t] = Changed({}, change)]
  BY DEF MissesMarks
<1>3. request[t] = {change}
  BY <1>1, <1>2 DEF OneRequest
<1>4. TypeOK'
  <2>1. Changed({}, change) \in SUBSET Marks
    BY ChangedType, RequestedType
  <2> QED BY <1>1, <1>2, <2>1 DEF TypeOK, Steps
<1>5. \A u \in Threads : u # t => pc[u] \notin Inside /\ pc'[u] = pc[u]
  BY <1>1, OthersOutside DEF TypeOK, Inside
<1>6. pc'[t] = "open" /\ buf'[t] = Changed({}, change)
  BY <1>1, <1>2 DEF TypeOK
<1>7. InsideHolds' /\ OneRequest'
  BY <1>1, <1>5, <1>6 DEF InsideHolds, OneRequest, Inside
<1>8. StateIsWhole' /\ TmpIsMine' /\ TextOfTmp'
  BY <1>1, <1>5, <1>6 DEF StateIsWhole, TmpIsMine, TextOfTmp, Inside
<1>9. UnreadIsPastLoad'
  BY <1>1, <1>5, <1>6 DEF UnreadIsPastLoad, TypeOK, Inside
<1>10. BufIsChange'
  BY <1>1, <1>3, <1>5, <1>6 DEF BufIsChange, Read, Inside
<1> QED BY <1>4, <1>7, <1>8, <1>9, <1>10

LEMMA OpenTmpInv ==
    ASSUME FlagInv, NEW t \in Threads, OpenTmp(t)
    PROVE  FlagInv'
<1> USE DEF FlagInv
<1>1. /\ pc[t] = "open" /\ pc' = [pc EXCEPT ![t] = "write"]
      /\ UNCHANGED <<entry, mine, owner, flock, state, buf, request, unread>>
  BY DEF OpenTmp, Goto, lockVars
<1>2. PICK i \in Inodes :
        /\ IF tmp = None THEN i # state ELSE i = tmp
        /\ fd' = [fd EXCEPT ![t] = i]
        /\ tmp' = i
        /\ content' = [content EXCEPT ![i] = Torn]
  BY DEF OpenTmp
<1>3. i # state /\ i # None
  BY <1>2, NoneAssumption DEF TmpIsMine
<1>4. TypeOK'
  BY <1>1, <1>2 DEF TypeOK, Steps, Torn
<1>5. content'[state] = content[state] /\ content'[i] = Torn
  BY <1>2, <1>3 DEF TypeOK
<1>6. \A u \in Threads : u # t => pc[u] \notin Inside /\ pc'[u] = pc[u]
  BY <1>1, OthersOutside DEF TypeOK, Inside
<1>7. pc'[t] = "write" /\ fd'[t] = i
  BY <1>1, <1>2 DEF TypeOK
<1>8. InsideHolds' /\ OneRequest'
  BY <1>1, <1>6, <1>7 DEF InsideHolds, OneRequest, Inside
<1>9. StateIsWhole' /\ TmpIsMine' /\ TextOfTmp'
  BY <1>1, <1>2, <1>3, <1>5, <1>6, <1>7
     DEF StateIsWhole, TmpIsMine, TextOfTmp, Inside
<1>10. BufIsChange'
  BY <1>1, <1>5, <1>6, <1>7 DEF BufIsChange, Read, Inside
<1>11. UnreadIsPastLoad'
  BY <1>1, <1>6, <1>7 DEF UnreadIsPastLoad, TypeOK
<1> QED BY <1>4, <1>8, <1>9, <1>10, <1>11

LEMMA WriteTmpInv ==
    ASSUME FlagInv, NEW t \in Threads, WriteTmp(t)
    PROVE  FlagInv'
<1> USE DEF FlagInv
<1>1. /\ pc[t] = "write" /\ pc' = [pc EXCEPT ![t] = "replace"]
      /\ UNCHANGED <<entry, mine, owner, flock, state, tmp, fd, buf, request, unread>>
  BY DEF WriteTmp, Goto, lockVars
<1>2. tmp # None /\ fd[t] = tmp /\ content[tmp] = Torn /\ tmp # state
  BY <1>1 DEF TmpIsMine, TextOfTmp
<1>3. content' = [content EXCEPT ![tmp] = Whole(buf[t])]
  BY <1>2 DEF WriteTmp, Torn
<1>4. tmp \in Inodes
  BY <1>2 DEF TypeOK
<1>5. TypeOK'
  BY <1>1, <1>3 DEF TypeOK, Steps, Whole
<1>6. content'[state] = content[state] /\ content'[tmp] = Whole(buf[t])
  BY <1>2, <1>3, <1>4 DEF TypeOK
<1>7. \A u \in Threads : u # t => pc[u] \notin Inside /\ pc'[u] = pc[u]
  BY <1>1, OthersOutside DEF TypeOK, Inside
<1>8. pc'[t] = "replace"
  BY <1>1 DEF TypeOK
<1>9. InsideHolds' /\ OneRequest'
  BY <1>1, <1>7, <1>8 DEF InsideHolds, OneRequest, Inside
<1>10. StateIsWhole' /\ TmpIsMine' /\ TextOfTmp'
  BY <1>1, <1>2, <1>6, <1>7, <1>8 DEF StateIsWhole, TmpIsMine, TextOfTmp, Inside
<1>11. BufIsChange'
  BY <1>1, <1>6, <1>7, <1>8 DEF BufIsChange, Read, Inside
<1>12. UnreadIsPastLoad'
  BY <1>1, <1>7, <1>8 DEF UnreadIsPastLoad, TypeOK
<1> QED BY <1>5, <1>9, <1>10, <1>11, <1>12

------------------------------------------------------------------------------
\* The ways out.
LEMMA LeaveType ==
    ASSUME TypeOK, NEW T \in SUBSET Threads, Leave(T)
    PROVE  /\ mine' \in [Threads -> LockIds \cup {None}]
           /\ owner' \in [LockIds -> Threads \cup {None}]
           /\ flock' \in Threads \cup {None}
           /\ fd' \in [Threads -> Inodes \cup {None}]
           /\ buf' \in [Threads -> SUBSET Marks]
           /\ request' \in [Threads -> SUBSET Changes]
           /\ unread' \subseteq Threads
           /\ pc' \in [Threads -> Steps]
BY DEF TypeOK, Leave, Steps

\* The threads of T are idle, nothing changes for the others.
LEMMA LeaveEffect ==
    ASSUME TypeOK, NEW T \in SUBSET Threads, Leave(T), NEW u \in Threads
    PROVE  /\ u \in T => pc'[u] = "idle" /\ request'[u] = {}
           /\ u \notin T =>
                /\ pc'[u] = pc[u] /\ request'[u] = request[u]
                /\ buf'[u] = buf[u] /\ fd'[u] = fd[u]
                /\ (u \in unread') <=> (u \in unread)
           /\ flock = u /\ u \notin T => flock' = u
BY DEF TypeOK, Leave

LEMMA LeaveInv ==
    ASSUME FlagInv, NEW T \in SUBSET Threads, Leave(T)
    PROVE  InsideHolds' /\ OneRequest' /\ UnreadIsPastLoad'
<1> USE DEF FlagInv
<1>3. UnreadIsPastLoad'
  BY LeaveEffect DEF UnreadIsPastLoad, TypeOK, Leave
<1>1. InsideHolds'
  BY LeaveEffect DEF InsideHolds, Inside
<1>2. OneRequest'
  BY LeaveEffect DEF OneRequest
<1> QED BY <1>1, <1>2, <1>3

\* A failed save leaves the files as they are.
LEMMA LeaveFilesInv ==
    ASSUME FlagInv, NEW T \in SUBSET Threads, Leave(T), UNCHANGED fileVars,
           entry' \in [Procs -> LockIds \cup {None}]
    PROVE  FlagInv'
<1> USE DEF FlagInv
<1>1. UNCHANGED <<state, tmp, content>>
  BY DEF fileVars
<1>2. TypeOK'
  BY <1>1, LeaveType DEF TypeOK
<1>3. StateIsWhole'
  BY <1>1 DEF StateIsWhole
<1>4. TmpIsMine'
  BY <1>1, LeaveEffect DEF TmpIsMine
<1>5. BufIsChange'
  BY <1>1, LeaveEffect DEF BufIsChange, Read
<1>6. TextOfTmp'
  BY <1>1, LeaveEffect DEF TextOfTmp
<1> QED BY <1>2, <1>3, <1>4, <1>5, <1>6, LeaveInv

LEMMA SaveFailsInv ==
    ASSUME FlagInv, NEW t \in Threads, SaveFails(t)
    PROVE  FlagInv'
<1>1. Leave({t}) /\ UNCHANGED fileVars /\ UNCHANGED entry
  BY DEF SaveFails
<1>2. entry' \in [Procs -> LockIds \cup {None}]
  BY <1>1 DEF FlagInv, TypeOK
<1> QED BY <1>1, <1>2, LeaveFilesInv

LEMMA LoadFailsInv ==
    ASSUME FlagInv, NEW t \in Threads, LoadFails(t)
    PROVE  FlagInv'
<1>1. CASE MissesMarks(t)
  BY <1>1, MissesMarksInv
<1>2. CASE Leave({t}) /\ UNCHANGED fileVars /\ UNCHANGED entry
  <2>1. entry' \in [Procs -> LockIds \cup {None}]
    BY <1>2 DEF FlagInv, TypeOK
  <2> QED BY <1>2, <2>1, LeaveFilesInv
<1> QED BY <1>1, <1>2, LoadFailsCases

LEMMA CrashInv ==
    ASSUME FlagInv, NEW p \in Procs, Crash(p)
    PROVE  FlagInv'
<1>1. Leave(p) /\ UNCHANGED fileVars /\ entry' = [entry EXCEPT ![p] = None]
  BY DEF Crash
<1>2. entry' \in [Procs -> LockIds \cup {None}]
  BY <1>1 DEF FlagInv, TypeOK
<1>3. p \in SUBSET Threads
  BY ThreadsAssumption
<1> QED BY <1>1, <1>2, <1>3, LeaveFilesInv

\* The rename installs the holder's text; nobody else is inside.
LEMMA ReplaceInv ==
    ASSUME FlagInv, NEW t \in Threads, Replace(t)
    PROVE  FlagInv'
<1> USE DEF FlagInv
<1>1. pc[t] = "replace" /\ tmp # None /\ state' = tmp /\ tmp' = None
      /\ Leave({t}) /\ UNCHANGED <<entry, content>>
  BY DEF Replace
<1>2. state' \in Inodes /\ content[tmp] = Whole(buf[t])
  BY <1>1 DEF TypeOK, TextOfTmp
<1>3. TypeOK'
  BY <1>1, <1>2, LeaveType DEF TypeOK
<1>4. StateIsWhole'
  BY <1>1, <1>2 DEF StateIsWhole, Whole
<1>5. \A u \in Threads : pc'[u] \notin Inside
  <2>1. pc[t] \in Inside
    BY <1>1 DEF Inside
  <2> TAKE u \in Threads
  <2>2. CASE u = t
    BY <1>1, <2>2, LeaveEffect DEF Inside
  <2>3. CASE u # t
    BY <1>1, <2>1, <2>3, LeaveEffect, OthersOutside
  <2> QED BY <2>2, <2>3
<1>6. TmpIsMine'
  BY <1>1, <1>2, <1>5, NoneAssumption DEF TmpIsMine, Inside
<1>7. BufIsChange' /\ TextOfTmp'
  BY <1>5 DEF BufIsChange, TextOfTmp, Inside
<1> QED BY <1>1, <1>3, <1>4, <1>6, <1>7, LeaveInv

------------------------------------------------------------------------------
LEMMA NextInv ==
    ASSUME FlagInv, [Next]_vars
    PROVE  FlagInv'
<1>1. CASE UNCHANGED vars
  BY <1>1 DEF FlagInv, vars, lockVars, fileVars, TypeOK, StateIsWhole,
     InsideHolds, OneRequest, TmpIsMine, UnreadIsPastLoad, Read, BufIsChange, TextOfTmp
<1>2. CASE \E t \in Threads : Call(t)
  BY <1>2, CallInv
<1>4. CASE \E t \in Threads : Advance(t)
  BY <1>4, TakeThreadLockInv, TakeFlockInv, LoadInv, LoadFailsInv, OpenTmpInv,
     WriteTmpInv, ReplaceInv, SaveFailsInv DEF Advance
<1>5. CASE \E p \in Procs : EvictLocks(p) \/ Crash(p)
  BY <1>5, EvictLocksInv, CrashInv
<1> QED BY <1>1, <1>2, <1>4, <1>5 DEF Next

\* A thread that leaves lets go of the Lock and the file lock; only one that was
\* given a Lock takes it.
LEMMA NextHolders ==
    ASSUME FlagInv, HoldersAreInside, [Next]_vars
    PROVE  HoldersAreInside'
<1> USE DEF FlagInv
<1>1. CASE UNCHANGED vars
  BY <1>1 DEF vars, lockVars, HoldersAreInside
<1>2. ASSUME NEW t \in Threads, Call(t) PROVE HoldersAreInside'
  <2>1. /\ pc[t] = "idle" /\ pc' = [pc EXCEPT ![t] = "thread_lock"]
        /\ UNCHANGED <<owner, flock>>
    BY <1>2 DEF Call, Goto
  <2>2. PICK l \in LockIds : mine' = [mine EXCEPT ![t] = l]
    BY <1>2 DEF Call, GetLock
  <2>3. \A u \in Threads : u # t => pc'[u] = pc[u] /\ mine'[u] = mine[u]
    BY <2>1, <2>2 DEF TypeOK
  <2>4. \A k \in LockIds : owner[k] # None => owner[k] \in Threads /\ owner[k] # t
    BY <2>1 DEF TypeOK, HoldersAreInside
  <2> QED BY <2>1, <2>3, <2>4 DEF HoldersAreInside
<1>3. ASSUME NEW t \in Threads, TakeThreadLock(t) PROVE HoldersAreInside'
  <2>1. /\ pc[t] = "thread_lock" /\ pc' = [pc EXCEPT ![t] = "flock"]
        /\ owner' = [owner EXCEPT ![mine[t]] = t]
        /\ UNCHANGED <<mine, flock>>
    BY <1>3 DEF TakeThreadLock, Goto
  <2>2. \A u \in Threads : u # t => pc'[u] = pc[u]
    BY <2>1 DEF TypeOK
  <2>3. pc'[t] = "flock"
    BY <2>1 DEF TypeOK
  <2>4. \A l \in LockIds : owner'[l] = IF l = mine[t] THEN t ELSE owner[l]
    BY <2>1 DEF TypeOK
  <2>5. \A l \in LockIds : owner[l] # None => owner[l] \in Threads
    BY DEF TypeOK
  <2> QED BY <2>1, <2>2, <2>3, <2>4, <2>5 DEF HoldersAreInside
<1>4. ASSUME NEW t \in Threads,
             TakeFlock(t) \/ Load(t) \/ OpenTmp(t) \/ WriteTmp(t)
      PROVE  HoldersAreInside'
  <2>1. UNCHANGED <<owner, mine>>
    BY <1>4 DEF TakeFlock, Load, OpenTmp, WriteTmp, lockVars
  <2>2. /\ pc[t] \in {"flock", "load", "open", "write"}
        /\ \E step \in {"load", "open", "write", "replace"} :
              pc' = [pc EXCEPT ![t] = step]
    BY <1>4 DEF TakeFlock, Load, OpenTmp, WriteTmp, Goto
  <2>3. \A u \in Threads : pc'[u] = pc[u] \/ pc'[u] \in Inside
    BY <2>2 DEF TypeOK, Inside
  <2>4. flock' = flock \/ (flock' = t /\ pc'[t] \in Inside)
    BY <1>4, <2>2 DEF TakeFlock, Load, OpenTmp, WriteTmp, lockVars, Inside, TypeOK
  <2>5. \A l \in LockIds : owner[l] # None => owner[l] \in Threads
    BY DEF TypeOK
  <2> QED BY <2>1, <2>3, <2>4, <2>5 DEF HoldersAreInside, Inside
<1>5. ASSUME NEW T \in SUBSET Threads, Leave(T) PROVE HoldersAreInside'
  <2>1. \A l \in LockIds : owner'[l] # None =>
          owner'[l] = owner[l] /\ owner[l] \in Threads \ T
    BY <1>5 DEF Leave, TypeOK
  <2>2. \A u \in Threads \ T : pc'[u] = pc[u] /\ mine'[u] = mine[u]
    BY <1>5 DEF Leave, TypeOK
  <2>3. \A u \in Threads : flock' = u => flock = u /\ u \notin T
    BY <1>5, NoneAssumption DEF Leave
  <2> QED BY <2>1, <2>2, <2>3 DEF HoldersAreInside
<1>9. ASSUME NEW t \in Threads, MissesMarks(t) PROVE HoldersAreInside'
  <2>1. pc'[t] \in Inside /\ \A u \in Threads \ {t} : pc'[u] = pc[u]
    BY <1>9 DEF MissesMarks, TypeOK, Inside
  <2>2. UNCHANGED <<owner, mine, flock>>
    BY <1>9 DEF MissesMarks
  <2>3. \A l \in LockIds : owner[l] # None => owner[l] \in Threads
    BY DEF TypeOK
  <2> QED BY <2>1, <2>2, <2>3 DEF HoldersAreInside, Inside
<1>6. ASSUME NEW t \in Threads, LoadFails(t) \/ Replace(t) \/ SaveFails(t)
      PROVE  HoldersAreInside'
  BY <1>5, <1>6, <1>9, LoadFailsCases DEF Replace, SaveFails
<1>7. CASE \E p \in Procs : EvictLocks(p)
  BY <1>7 DEF EvictLocks, HoldersAreInside
<1>8. CASE \E p \in Procs : Crash(p)
  <2>1. \A p \in Procs : p \in SUBSET Threads
    BY ThreadsAssumption
  <2> QED BY <1>5, <1>8, <2>1 DEF Crash
<1> QED BY <1>1, <1>2, <1>3, <1>4, <1>6, <1>7, <1>8 DEF Next, Advance

\* The file is never found half written, the calls exclude each other, and
\* a call that ends, however it ends, keeps no lock: for any number of threads
\* and processes.
THEOREM FlagsInvariant ==
    Spec => [](TypeOK /\ StateIsWhole /\ OneCallInside /\ HoldersAreInside)
<1>1. Init => FlagInv /\ HoldersAreInside
  BY InitInv, NoneAssumption DEF Init, HoldersAreInside
<1>2. FlagInv /\ HoldersAreInside /\ [Next]_vars => FlagInv' /\ HoldersAreInside'
  BY NextInv, NextHolders
<1>3. FlagInv => TypeOK /\ StateIsWhole /\ OneCallInside
  BY DEF FlagInv, OneCallInside, InsideHolds, Inside
<1> QED BY <1>1, <1>2, <1>3, PTL DEF Spec

------------------------------------------------------------------------------
\* Refinement: Replace is the instant at which a call takes effect.
LEMMA InitStore == ASSUME Init PROVE Store!StoreInit
BY DEF Init, Store!StoreInit, Whole

LEMMA CallStore ==
    ASSUME FlagInv, NEW t \in Threads, Call(t)
    PROVE  Store!StoreNext
<1>1. request[t] = {} /\ UNCHANGED <<content[state].marks, unread>>
  BY DEF Call, FlagInv, OneRequest, fileVars
<1>2. \E change \in Store!Changes : request' = [request EXCEPT ![t] = {change}]
  BY DEF Call, Changes, Store!Changes
<1>3. Store!Ask(t)
  BY <1>1, <1>2 DEF Store!Ask
<1> QED BY <1>3 DEF Store!StoreNext

LEMMA ReplaceStore ==
    ASSUME FlagInv, NEW t \in Threads, Replace(t)
    PROVE  Store!StoreNext
<1> USE DEF FlagInv
<1>1. pc[t] = "replace" /\ state' = tmp /\ content' = content /\ Leave({t})
  BY DEF Replace
<1>2. content'[state'].marks = buf[t]
  <2>1. content[tmp] = Whole(buf[t])
    BY <1>1 DEF TextOfTmp
  <2>2. content'[state'] = content[tmp]
    BY <1>1
  <2> QED BY <2>1, <2>2 DEF Whole
<1>3. PICK change \in request[t] : buf[t] = Changed(Read(t), change)
  BY <1>1 DEF OneRequest, BufIsChange
<1>4. content'[state'].marks =
        Store!Changed(IF t \in unread THEN {} ELSE content[state].marks, change)
  BY <1>2, <1>3 DEF Changed, Read, Store!Changed
<1>5. request' = [request EXCEPT ![t] = {}] /\ unread' = unread \ {t}
  BY <1>1 DEF Leave, TypeOK
<1>6. Store!Apply(t)
  BY <1>3, <1>4, <1>5 DEF Store!Apply
<1> QED BY <1>6 DEF Store!StoreNext

LEMMA LeaveStore ==
    ASSUME FlagInv, NEW T \in SUBSET Threads, Leave(T), UNCHANGED fileVars
    PROVE  Store!StoreNext
<1>1. /\ request' = [t \in Threads |-> IF t \in T THEN {} ELSE request[t]]
      /\ unread' = unread \ T
  BY DEF Leave
<1>2. UNCHANGED content[state].marks
  BY DEF fileVars
<1>3. Store!Abandon
  BY <1>1, <1>2 DEF Store!Abandon
<1> QED BY <1>3 DEF Store!StoreNext

\* A call that could not read the file misses the marks, or is over.
LEMMA LoadFailsStore ==
    ASSUME FlagInv, NEW t \in Threads, LoadFails(t)
    PROVE  Store!StoreNext
<1>1. CASE MissesMarks(t)
  <2>1. \E change \in request[t] : change.on
    BY <1>1 DEF MissesMarks
  <2>2. UNCHANGED <<content[state].marks, request>> /\ unread' = unread \cup {t}
    BY <1>1 DEF MissesMarks
  <2>3. Store!Miss(t)
    BY <2>1, <2>2 DEF Store!Miss
  <2> QED BY <2>3 DEF Store!StoreNext
<1>2. CASE Leave({t}) /\ UNCHANGED fileVars /\ UNCHANGED entry
  BY <1>2, LeaveStore
<1> QED BY <1>1, <1>2, LoadFailsCases

\* Until the rename a call changes nothing that a reader of state.json sees.
LEMMA WriteStore ==
    ASSUME FlagInv, NEW t \in Threads, OpenTmp(t) \/ WriteTmp(t)
    PROVE  UNCHANGED <<content[state].marks, request, unread>>
<1> USE DEF FlagInv
<1>1. CASE OpenTmp(t)
  <2>1. PICK i \in Inodes :
          /\ IF tmp = None THEN i # state ELSE i = tmp
          /\ content' = [content EXCEPT ![i] = Torn]
    BY <1>1 DEF OpenTmp
  <2>2. i # state
    BY <2>1 DEF TmpIsMine
  <2>3. state' = state /\ request' = request /\ unread' = unread
    BY <1>1 DEF OpenTmp
  <2> QED BY <2>1, <2>2, <2>3 DEF TypeOK
<1>2. CASE WriteTmp(t)
  <2>1. fd[t] # state
    BY <1>2 DEF WriteTmp, TmpIsMine
  <2>2. \E c : content' = [content EXCEPT ![fd[t]] = c]
    BY <1>2 DEF WriteTmp
  <2>3. state' = state /\ request' = request /\ unread' = unread
    BY <1>2 DEF WriteTmp
  <2> QED BY <2>1, <2>2, <2>3 DEF TypeOK
<1> QED BY <1>1, <1>2

LEMMA NextStore ==
    ASSUME FlagInv, [Next]_vars
    PROVE  Store!StoreNext \/ UNCHANGED <<content[state].marks, request, unread>>
<1>1. CASE UNCHANGED vars
  BY <1>1 DEF vars, fileVars
<1>2. CASE \E t \in Threads : Call(t)
  BY <1>2, CallStore
<1>4. ASSUME NEW t \in Threads, Advance(t)
      PROVE  Store!StoreNext \/ UNCHANGED <<content[state].marks, request, unread>>
  <2>1. CASE TakeThreadLock(t) \/ TakeFlock(t) \/ Load(t)
    BY <2>1 DEF TakeThreadLock, TakeFlock, Load, fileVars
  <2>2. CASE OpenTmp(t) \/ WriteTmp(t)
    BY <2>2, WriteStore
  <2>3. CASE Replace(t)
    BY <2>3, ReplaceStore
  <2>4. CASE SaveFails(t)
    BY <2>4, LeaveStore DEF SaveFails
  <2>5. CASE LoadFails(t)
    BY <2>5, LoadFailsStore
  <2> QED BY <1>4, <2>1, <2>2, <2>3, <2>4, <2>5 DEF Advance
<1>5. CASE \E p \in Procs : EvictLocks(p)
  BY <1>5 DEF EvictLocks, fileVars
<1>6. ASSUME NEW p \in Procs, Crash(p)
      PROVE  Store!StoreNext
  <2>1. Leave(p) /\ UNCHANGED fileVars /\ p \in SUBSET Threads
    BY <1>6, ThreadsAssumption DEF Crash
  <2> QED BY <2>1, LeaveStore
<1> QED BY <1>1, <1>2, <1>4, <1>5, <1>6 DEF Next

\* Every behaviour of the locking protocol, failed reads and saves and kills
\* included, is one of the atomic store: only a call that could not read the file
\* takes other marks with it.
THEOREM CallsAreAtomic == Spec => ImplementsFlagStore
<1>1. Init => FlagInv /\ Store!StoreInit
  BY InitInv, InitStore
<1>2. FlagInv /\ [Next]_vars => FlagInv'
  BY NextInv
<1>3. FlagInv /\ [Next]_vars => [Store!StoreNext]_<<content[state].marks, request, unread>>
  BY NextStore
<1>4. Spec => Store!StoreInit /\ [][Store!StoreNext]_<<content[state].marks, request, unread>>
  BY <1>1, <1>2, <1>3, PTL DEF Spec
<1> QED BY <1>4 DEF ImplementsFlagStore, Store!StoreSpec, Store!storeVars

\* state.json of a night is never torn or half written, whichever writer dies or fails where.
THEOREM StateFileIsWhole == Spec => []StateIsWhole
<1>1. FlagInv => StateIsWhole
  BY DEF FlagInv
<1> QED BY FlagsInvariant, <1>1, PTL

\* The variables of the locking protocol keep to their types.
THEOREM FlagsTypeCorrect == Spec => []TypeOK
<1>1. FlagInv => TypeOK
  BY DEF FlagInv
<1> QED BY FlagsInvariant, <1>1, PTL

==============================================================================
