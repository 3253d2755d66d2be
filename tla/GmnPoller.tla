------------------------------ MODULE GmnPoller -------------------------------
(***************************************************************************)
(* The GMN poller of the dashboard: a backfill of the last nights, one     *)
(* more try of those that failed, then a refresh of the newest ones again  *)
(* and again, into a cache that requests read, fill when they find nothing *)
(* in it, and pin an event in.                                             *)
(***************************************************************************)
EXTENDS Integers, Sequences, FiniteSets

CONSTANTS
    Dates,              \* 0..n, today and the nights before
    Recent,             \* those of _GMN_RECENT_WINDOW_DAYS
    Requests,
    MaxInjects          \* bound: dates injected in

Payloads == {"events", "empty", "error"}

VARIABLES
    cache,              \* _gmn_cache[d]
    pinned,             \* dates with an event that was injected
    poller,             \* its phase and step, its place in the list, what it has fetched
    retry,              \* retry_dates
    done,               \* _gmn_initial_pass_done
    request,            \* request[q]: a fetch on demand
    injected,           \* dates an event was injected in
    over                \* those of them that a request has overwritten since

gmnVars == <<cache, pinned, poller, retry, done, request, injected, over>>

NoRequest == [step |-> "idle", date |-> 0, got |-> "none"]

PollerInit ==
    /\ cache = [d \in Dates |-> "none"] /\ pinned = {}
    /\ poller = [phase |-> "backfill", step |-> "look", todo |-> Dates, date |-> 0, got |-> "none"]
    /\ retry = {} /\ done = FALSE
    /\ request = [q \in Requests |-> NoRequest]
    /\ injected = {} /\ over = {}

At(step) == poller.step = step
Newest(ds) == CHOOSE d \in ds : \A e \in ds : d <= e

------------------------------------------------------------------------------
(* _gmn_poller_loop                                                         *)

\* The backfill and its retries pass over a date that is pinned before they fetch it.
Skips(d) == poller.phase # "steady" /\ d \in pinned

Look ==
    /\ At("look") /\ poller.todo # {}
    /\ LET d == Newest(poller.todo) IN
       poller' = [poller EXCEPT !.todo = @ \ {d}, !.date = d,
                                !.step = IF Skips(d) THEN "look" ELSE "fetch"]
    /\ UNCHANGED <<cache, pinned, retry, done, request, injected, over>>

\* events_for_date: the month's file could not be fetched, is whole, or cannot be read; some
\* errors are raised, and the date is passed over.
Fetch ==
    /\ At("fetch")
    /\ \/ \E p \in Payloads : poller' = [poller EXCEPT !.step = "store", !.got = p]
       \/ poller' = [poller EXCEPT !.step = "look"]
    /\ UNCHANGED <<cache, pinned, retry, done, request, injected, over>>

\* Faulty variant: a date is not looked at again after the fetch.
NotAgain(d) == FALSE

PinnedNow(d) == d \in pinned

Store ==
    /\ At("store")
    /\ LET d == poller.date IN
       /\ cache' = IF PinnedNow(d) THEN cache ELSE [cache EXCEPT ![d] = poller.got]
       /\ pinned' = IF PinnedNow(d) THEN pinned ELSE pinned \ {d}
       /\ retry' = IF poller.phase = "backfill" /\ poller.got = "error" /\ ~PinnedNow(d)
                   THEN retry \cup {d} ELSE retry
    /\ poller' = [poller EXCEPT !.step = "look", !.got = "none"]
    /\ UNCHANGED <<done, request, injected, over>>

Retry ==
    /\ At("look") /\ poller.todo = {} /\ poller.phase = "backfill"
    /\ poller' = [poller EXCEPT !.phase = "retry", !.todo = retry]
    /\ retry' = {}
    /\ UNCHANGED <<cache, pinned, done, request, injected, over>>

\* The initial pass is over; the flag that says so stays as it is until the thread ends.
Refresh ==
    /\ At("look") /\ poller.todo = {} /\ poller.phase # "backfill"
    /\ poller' = [poller EXCEPT !.phase = "steady", !.todo = Recent]
    /\ UNCHANGED <<cache, pinned, retry, done, request, injected, over>>

\* An error nobody expected, or the stop event.
Exit ==
    /\ ~At("over")
    /\ poller' = [poller EXCEPT !.step = "over", !.todo = {}, !.got = "none"]
    /\ done' = TRUE /\ retry' = {}
    /\ UNCHANGED <<cache, pinned, request, injected, over>>

------------------------------------------------------------------------------
(* The routes                                                               *)

\* api_debug_gmn_inject: the event joins what is there.
Inject(d) ==
    /\ injected' = injected \cup {d} /\ Cardinality(injected') <= MaxInjects
    /\ cache' = [cache EXCEPT ![d] = "events"] /\ pinned' = pinned \cup {d}
    /\ over' = over \ {d}
    /\ UNCHANGED <<poller, retry, done, request>>

\* api_gmn_multistation: what has no events, and no error to show, is fetched again; until
\* the flag is set, a date not reached has the error of a cache that is warming up.
Miss(q, d) ==
    /\ request[q].step = "idle"
    /\ cache[d] = "empty" \/ (cache[d] = "none" /\ done)
    /\ \E p \in Payloads : request' = [request EXCEPT ![q] = [step |-> "store", date |-> d, got |-> p]]
    /\ UNCHANGED <<cache, pinned, poller, retry, done, injected, over>>

\* It does not look for a pin.
Fill(q) ==
    LET d == request[q].date IN
    /\ request[q].step = "store"
    /\ cache' = [cache EXCEPT ![d] = request[q].got]
    /\ over' = IF d \in pinned THEN over \cup {d} ELSE over
    /\ pinned' = pinned \ {d}
    /\ request' = [request EXCEPT ![q] = NoRequest]
    /\ UNCHANGED <<poller, retry, done, injected>>

PollerNext ==
    \/ Look \/ Fetch \/ Store \/ Retry \/ Refresh \/ Exit
    \/ \E d \in Dates : Inject(d)
    \/ \E q \in Requests : (\E d \in Dates : Miss(q, d)) \/ Fill(q)

------------------------------------------------------------------------------
PollerTypeOK ==
    /\ cache \in [Dates -> Payloads \cup {"none"}]
    /\ pinned \subseteq Dates /\ retry \subseteq Dates /\ injected \subseteq Dates /\ over \subseteq Dates
    /\ poller \in [phase : {"backfill", "retry", "steady"}, step : {"look", "fetch", "store", "over"},
                   todo : SUBSET Dates, date : Dates \cup {0}, got : Payloads \cup {"none"}]
    /\ done \in BOOLEAN
    /\ request \in [Requests -> [step : {"idle", "store"}, date : Dates \cup {0},
                                 got : Payloads \cup {"none"}]]

\* An injected event survives the poller, whichever of its three loops is fetching that date
\* when it is pinned; only a request's own fetch may take its place (_gmn_poller_loop,
\* api_debug_gmn_inject).
PinsSurvive == \A d \in injected \ over : d \in pinned /\ cache[d] = "events"

==============================================================================
