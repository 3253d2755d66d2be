---------------------------- MODULE BatchDownload ----------------------------
(***************************************************************************)
(* The batch download: workers fetch clips into one directory under a cap  *)
(* for each file and a budget they share, then a ZIP of what came whole is *)
(* streamed and its generator removes the directory.                       *)
(***************************************************************************)
EXTENDS Integers, FiniteSets

CONSTANTS
    Files,              \* the clips asked for, one worker each
    Sizes,              \* Sizes[f]: chunks of the clip
    PerFile, Total      \* _BATCH_PER_FILE_MAX_BYTES, _BATCH_TOTAL_MAX_BYTES

VARIABLES
    fetch,              \* fetch[f]: the step of _fetch_one
    wrote,              \* wrote[f]: chunks in its file
    counted,            \* counted[f]: chunks it has counted against its own cap
    used,               \* budget["used"]
    zip,                \* the request: fetching, stream (before its first block), zipping, over
    dir,                \* the temporary directory is there
    sent,               \* clips in the ZIP
    dropped             \* the response was thrown away before its first block

batchVars == <<fetch, wrote, counted, used, zip, dir, sent, dropped>>

BatchInit ==
    /\ fetch = [f \in Files |-> "read"]
    /\ wrote = [f \in Files |-> 0] /\ counted = [f \in Files |-> 0]
    /\ used = 0 /\ zip = "fetching" /\ dir = TRUE /\ sent = {} /\ dropped = FALSE

Goes(f, step) == fetch' = [fetch EXCEPT ![f] = step]

\* The next chunk has come; beyond its cap the file is given up, and stays in the directory.
Read(f) ==
    /\ fetch[f] = "read" /\ counted[f] < Sizes[f]
    /\ counted' = [counted EXCEPT ![f] = @ + 1]
    /\ Goes(f, IF counted[f] + 1 > PerFile THEN "refused" ELSE "admit")
    /\ UNCHANGED <<wrote, used, zip, dir, sent, dropped>>

\* Faulty variant: the chunk itself is not looked at.
Started(u) == u <= Total

Fits(u) == u + 1 <= Total

\* Under budget_lock.
Admit(f) ==
    /\ fetch[f] = "admit"
    /\ IF Fits(used) THEN used' = used + 1 /\ Goes(f, "write")
                     ELSE Goes(f, "refused") /\ UNCHANGED used
    /\ UNCHANGED <<wrote, counted, zip, dir, sent, dropped>>

Write(f) ==
    /\ fetch[f] = "write"
    /\ wrote' = [wrote EXCEPT ![f] = @ + 1]
    /\ Goes(f, "read")
    /\ UNCHANGED <<counted, used, zip, dir, sent, dropped>>

\* The body has ended, or the station answers with an error or not at all.
Fetched(f) ==
    /\ fetch[f] = "read"
    /\ Goes(f, IF counted[f] = Sizes[f] THEN "fetched" ELSE "refused")
    /\ UNCHANGED <<wrote, counted, used, zip, dir, sent, dropped>>

\* pool.map has come to its end.
Respond ==
    /\ zip = "fetching" /\ \A f \in Files : fetch[f] \in {"fetched", "refused"}
    /\ zip' = "stream"
    /\ UNCHANGED <<fetch, wrote, counted, used, dir, sent, dropped>>

\* Faulty variant: what could be written of a refused clip is sent as well.
Written == {f \in Files : wrote[f] > 0}

Entries == {f \in Files : fetch[f] = "fetched"}

Zip ==
    /\ zip = "stream"
    /\ sent' = Entries /\ zip' = "zipping"
    /\ UNCHANGED <<fetch, wrote, counted, used, dir, dropped>>

\* The end, an error, or a client that leaves: the finally of the generator.
ZipEnds ==
    /\ zip = "zipping"
    /\ zip' = "over" /\ dir' = FALSE
    /\ UNCHANGED <<fetch, wrote, counted, used, sent, dropped>>

\* A generator that is closed before its first block never comes to its finally.
Dropped ==
    /\ zip = "stream"
    /\ zip' = "over" /\ dropped' = TRUE
    /\ UNCHANGED <<fetch, wrote, counted, used, dir, sent>>

BatchNext ==
    \/ \E f \in Files : Read(f) \/ Admit(f) \/ Write(f) \/ Fetched(f)
    \/ Respond \/ Zip \/ ZipEnds \/ Dropped

------------------------------------------------------------------------------
BatchTypeOK ==
    /\ fetch \in [Files -> {"read", "admit", "write", "fetched", "refused"}]
    /\ wrote \in [Files -> Nat] /\ counted \in [Files -> Nat] /\ used \in Nat
    /\ zip \in {"fetching", "stream", "zipping", "over"}
    /\ dir \in BOOLEAN /\ sent \subseteq Files /\ dropped \in BOOLEAN

\* The chunks in the directory.
Blocks == UNION {{f} \X (1..wrote[f]) : f \in Files}

\* However the workers interleave, the directory never holds more than the budget, a ZIP holds
\* whole clips only, and the directory goes unless the response was thrown away
\* (api_batch_download, _stream_zip_from_files).
BatchIsBounded ==
    /\ Cardinality(Blocks) <= Total
    /\ \A f \in sent : wrote[f] = Sizes[f]
    /\ zip = "over" => dir = dropped

==============================================================================
