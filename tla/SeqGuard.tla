------------------------------- MODULE SeqGuard -------------------------------
(***************************************************************************)
(* The replay guard of the ingest handlers as their callers see it         *)
(* (station_state.accept_seq): one atomic check-and-bump of the last       *)
(* accepted seq of a station, which says yes to a strictly greater seq     *)
(* only.  A store error is answered no, the bump made or not.              *)
(***************************************************************************)
EXTENDS Naturals

CONSTANTS Handlers, Stations

VARIABLES
    call,               \* call[p]: the station and seq handler p asks about
    last,               \* last[h]: last accepted seq of station h
    answer              \* answer[p]: "none" until the handler has its answer

guardVars == <<call, last, answer>>

GuardInit ==
    /\ call \in [Handlers -> [station: Stations, seq: Nat]]
    /\ last = [h \in Stations |-> 0]
    /\ answer = [p \in Handlers |-> "none"]

Reply(p, a) ==
    /\ answer[p] = "none"
    /\ answer' = [answer EXCEPT ![p] = a]
    /\ UNCHANGED call

Advances(p) == call[p].seq > last[call[p].station]
Bump(p) == last' = [last EXCEPT ![call[p].station] = call[p].seq]

Yes(p)  == Advances(p) /\ Bump(p) /\ Reply(p, "accepted")
No(p)   == ~Advances(p) /\ UNCHANGED last /\ Reply(p, "replay")
Fail(p) == (UNCHANGED last \/ (Advances(p) /\ Bump(p))) /\ Reply(p, "error")

GuardNext == \E p \in Handlers : Yes(p) \/ No(p) \/ Fail(p)

GuardSpec == GuardInit /\ [][GuardNext]_guardVars

==============================================================================
