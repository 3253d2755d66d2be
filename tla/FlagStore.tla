------------------------------ MODULE FlagStore ------------------------------
(***************************************************************************)
(* What flags_manager promises to the threads and processes that keep one  *)
(* night's state.json: each mark_... , lock_chunk or unlock_chunk call     *)
(* turns ONE mark on or off, takes effect at a single instant on whatever  *)
(* the marks are at that instant, or raises and has no effect.  Except     *)
(* that a call which misses the marks, because it cannot read the file,    *)
(* sets its mark on a night that has no other and clears nothing.          *)
(***************************************************************************)
CONSTANTS Threads, Marks

VARIABLES
    marks,              \* the marks that are on
    request,            \* request[t]: {} or the one change t is asking for
    unread              \* the threads whose call has missed the marks

storeVars == <<marks, request, unread>>

Changes == [mark: Marks, on: BOOLEAN]

Changed(s, change) ==
    IF change.on THEN s \cup {change.mark} ELSE s \ {change.mark}

StoreInit ==
    /\ marks \in SUBSET Marks
    /\ request = [t \in Threads |-> {}]
    /\ unread = {}

Ask(t) ==
    /\ request[t] = {}
    /\ \E change \in Changes : request' = [request EXCEPT ![t] = {change}]
    /\ UNCHANGED <<marks, unread>>

Miss(t) ==
    /\ \E change \in request[t] : change.on
    /\ unread' = unread \cup {t}
    /\ UNCHANGED <<marks, request>>

Apply(t) ==
    /\ \E change \in request[t] :
        marks' = Changed(IF t \in unread THEN {} ELSE marks, change)
    /\ request' = [request EXCEPT ![t] = {}]
    /\ unread' = unread \ {t}

\* Calls that raise, that find nothing to clear, or that a crash cuts short: those
\* of one process at once.
Abandon ==
    /\ \E T \in SUBSET Threads :
        /\ request' = [t \in Threads |-> IF t \in T THEN {} ELSE request[t]]
        /\ unread' = unread \ T
    /\ UNCHANGED marks

StoreNext == Abandon \/ \E t \in Threads : Ask(t) \/ Miss(t) \/ Apply(t)

StoreSpec == StoreInit /\ [][StoreNext]_storeVars

==============================================================================
