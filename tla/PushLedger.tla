------------------------------ MODULE PushLedger ------------------------------
(***************************************************************************)
(* What the seq envelope of the ingest API promises for one station        *)
(* (dashboard/ingest_api.py, station_state.accept_seq), without the        *)
(* requests, retries, spool and restarts behind it: bodies are accepted in *)
(* the order the station issued them, each at most once, and only an       *)
(* accepted body takes effect, at most once.                               *)
(***************************************************************************)
EXTENDS Naturals

VARIABLES
    accepted,           \* the bodies accepted so far, by order of issue
    takes,              \* how often a body was accepted
    applied             \* those whose payload has been stored

pushLedgerVars == <<accepted, takes, applied>>

PushLedgerInit ==
    /\ accepted = {}
    /\ takes = 0
    /\ applied = {}

TakeIn(n) ==
    /\ \A m \in accepted : m < n
    /\ accepted' = accepted \cup {n}
    /\ takes' = takes + 1
    /\ UNCHANGED applied

StoreOne(n) ==
    /\ n \in accepted \ applied
    /\ applied' = applied \cup {n}
    /\ UNCHANGED <<accepted, takes>>

PushLedgerNext ==
    \/ \E n \in accepted' : TakeIn(n)
    \/ \E n \in accepted : StoreOne(n)

PushLedgerSpec == PushLedgerInit /\ [][PushLedgerNext]_pushLedgerVars

==============================================================================
