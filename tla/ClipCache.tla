------------------------------ MODULE ClipCache ------------------------------
(***************************************************************************)
(* One clip in the dashboard's cache of station videos (api_cached_video): *)
(* requests that stream it to a browser write it to <clip>.tmp and promote *)
(* that to the cache, while the station encodes the clip again or removes  *)
(* it, connections break and the hourly cleanup goes through.  A file is   *)
(* two parts; the second is there only when the first has been passed.     *)
(***************************************************************************)
EXTENDS Integers, FiniteSets

CONSTANTS
    Requests,
    Inodes              \* bound: files at once

Versions == {1, 2}      \* the recorded clip, and the encoded one, which is smaller
NoFile == "none"

VARIABLES
    upstream,           \* the version on the station, 0 once it is removed there
    content,            \* content[i]: the version in each part, 0 for nothing or a hole
    cached, tmp,        \* the inode each name stands for
    request,            \* request[r]: its step, the version it gets, the inode it has open
    shared              \* inodes two requests have had open at once since last truncated alone

clipVars == <<upstream, content, cached, tmp, request, shared>>

Empty == <<0, 0>>
Idle == [step |-> "idle", version |-> 0, inode |-> NoFile]
RequestStates == [step : {"idle", "open", "first", "second", "check"},
                  version : {0} \cup Versions, inode : Inodes \cup {NoFile}]
Contents == ({0} \cup Versions) \X ({0} \cup Versions)
At(r, step) == request[r].step = step
Goto(r, step) == request' = [request EXCEPT ![r].step = step]
Ends(r) == request' = [request EXCEPT ![r] = Idle]

ClipCacheInit ==
    /\ upstream = 1
    /\ content = [i \in Inodes |-> Empty]
    /\ cached = NoFile /\ tmp = NoFile
    /\ request = [r \in Requests |-> Idle]
    /\ shared = {}

\* The size of a file is that of the longest version whose end is in it.
Size(i) == content[i][2]
Unused == {i \in Inodes : i \notin {cached, tmp} /\ \A r \in Requests : request[r].inode # i}

\* A file without a name that nobody has open is gone.
Forget == LET kept == {cached', tmp'} \cup {request'[r].inode : r \in Requests} IN
    /\ content' = [i \in Inodes |-> IF i \in kept THEN content[i] ELSE Empty]
    /\ shared' = shared \cap kept

------------------------------------------------------------------------------
StationChanges ==
    /\ upstream' = CASE upstream = 1 -> 2 [] upstream = 2 -> 0
    /\ UNCHANGED <<content, cached, tmp, request, shared>>

\* The HEAD request: a cached clip of another size is dropped; without an answer, or with
\* the size it should have, it is served.
Validate(r) ==
    /\ At(r, "idle") /\ cached # NoFile
    /\ upstream # 0 /\ Size(cached) # upstream
    /\ cached' = NoFile
    /\ UNCHANGED <<upstream, tmp, request>> /\ Forget

\* A request for a part of the clip streams without writing.
Get(r) ==
    /\ At(r, "idle") /\ cached = NoFile /\ upstream # 0
    /\ request' = [request EXCEPT ![r] = [step |-> "open", version |-> upstream, inode |-> NoFile]]
    /\ UNCHANGED <<upstream, content, cached, tmp, shared>>

\* open(tmp, "wb"): a tmp that is there is truncated, whoever writes it.
Open(r) ==
    /\ At(r, "open")
    /\ \E i \in IF tmp = NoFile THEN Unused ELSE {tmp} :
         /\ tmp' = i
         /\ content' = [content EXCEPT ![i] = Empty]
         /\ request' = [request EXCEPT ![r].step = "first", ![r].inode = i]
         /\ shared' = IF \E q \in Requests : request[q].inode = i THEN shared \cup {i} ELSE shared \ {i}
    /\ UNCHANGED <<upstream, cached>>

WriteFirst(r) ==
    /\ At(r, "first")
    /\ content' = [content EXCEPT ![request[r].inode][1] = request[r].version]
    /\ Goto(r, "second")
    /\ UNCHANGED <<upstream, cached, tmp, shared>>

WriteSecond(r) ==
    /\ At(r, "second")
    /\ content' = [content EXCEPT ![request[r].inode][2] =
                     IF @ = 1 THEN 1 ELSE request[r].version]
    /\ Goto(r, "check")
    /\ UNCHANGED <<upstream, cached, tmp, shared>>

\* The station's answer ends early, without an error.
CutShort(r) ==
    /\ request[r].step \in {"first", "second"}
    /\ Goto(r, "check")
    /\ UNCHANGED <<upstream, content, cached, tmp, shared>>

\* The browser goes away or the station's answer breaks: what is called tmp now goes.
Broken(r) ==
    /\ request[r].step \in {"first", "second"}
    /\ tmp' = NoFile
    /\ Ends(r)
    /\ UNCHANGED <<upstream, cached>> /\ Forget

\* Faulty variant: whatever has arrived is promoted.
AnySize(r) == tmp # NoFile

Complete(r) == tmp # NoFile /\ Size(tmp) = request[r].version

\* The size looked at is that of the file called tmp.
Promote(r) ==
    /\ At(r, "check")
    /\ cached' = IF Complete(r) THEN tmp ELSE cached
    /\ tmp' = NoFile
    /\ Ends(r) /\ Forget
    /\ UNCHANGED upstream

\* _cache_cleanup: files older than the TTL; a tmp only when nobody writes it any more.
Cleanup ==
    /\ \/ cached' = NoFile /\ UNCHANGED tmp
       \/ tmp' = NoFile /\ UNCHANGED cached /\ \A r \in Requests : request[r].inode # tmp
    /\ UNCHANGED <<upstream, request>> /\ Forget

\* The dashboard restarts; the files stay.
DashboardStops ==
    /\ request' = [r \in Requests |-> Idle]
    /\ UNCHANGED <<upstream, cached, tmp>> /\ Forget

Streaming(r) ==
    \/ Validate(r) \/ Get(r) \/ Open(r) \/ WriteFirst(r) \/ WriteSecond(r)
    \/ CutShort(r) \/ Broken(r) \/ Promote(r)

ClipCacheNext ==
    \/ upstream # 0 /\ StationChanges
    \/ \E r \in Requests : Streaming(r)
    \/ Cleanup \/ DashboardStops

------------------------------------------------------------------------------
ClipCacheTypeOK ==
    /\ upstream \in {0} \cup Versions
    /\ content \in [Inodes -> Contents]
    /\ cached \in Inodes \cup {NoFile} /\ tmp \in Inodes \cup {NoFile}
    /\ request \in [Requests -> RequestStates]
    /\ shared \subseteq Inodes

\* A clip in the cache is one version from its beginning to its end, whatever broke on the
\* way, unless two requests had the same temporary file open at once (stream_and_cache).
CachedIsWhole ==
    cached # NoFile /\ cached \notin shared =>
      /\ content[cached][1] = content[cached][2]
      /\ content[cached][1] # 0

==============================================================================
