---------------------------- MODULE StationWatch ----------------------------
(***************************************************************************)
(* station_watchdog: one station's problems, the AlertTracker's entries    *)
(* about them, and what the readers of the Discord channel have heard.     *)
(* A poll cycle is two steps: the checks, which queue notifications, and   *)
(* their dispatch, one message per kind, which may be lost.                *)
(***************************************************************************)
EXTENDS Integers

CONSTANTS
    Faults,             \* keys of alerts that need a reachable station
    GraceOffline,       \* grace_polls of "unreachable" (and api_error); 1 for the others
    ResolveDelay, Cooldown, \* in polls
    MaxRestarts         \* bound

Offline == "unreachable"
Keys == Faults \cup {Offline}
Grace(k) == IF k = Offline THEN GraceOffline ELSE 1

VARIABLES
    sick,               \* the station's problems, as a poll would find them
    active,             \* _active: at most one AlertEntry for each key
    pending,            \* _pending: notifications of this cycle
    morning,            \* the night: not processed, processed, or announced (_notified_dawn)
    heard,              \* heard[k]: the last message about k that got through
    restarts

watchVars == <<sick, active, pending, morning, heard, restarts>>

Never == -1
Entry == [ok: 0..ResolveDelay, problem: 1..GraceOffline, told: Never..Cooldown]
NewEntry(k) == [ok |-> 0, problem |-> 1, told |-> IF Grace(k) <= 1 THEN 0 ELSE Never]

Kinds == {"alert", "resolve"}

WatchInit ==
    /\ sick = {}
    /\ active = [k \in Keys |-> {}]
    /\ pending = {}
    /\ morning = "running"
    /\ heard = [k \in Keys |-> "nothing"]
    /\ restarts = 0

------------------------------------------------------------------------------
SickChanges(k, there) ==
    /\ (k \in sick) # there
    /\ sick' = IF there THEN sick \cup {k} ELSE sick \ {k}
    /\ UNCHANGED <<active, pending, morning, heard, restarts>>

DawnEnds ==
    /\ morning = "running"
    /\ morning' = "done"
    /\ UNCHANGED <<sick, active, pending, heard, restarts>>

------------------------------------------------------------------------------
(* AlertTracker.  told counts the polls since the last alert of an entry.   *)

Least(a, b) == IF a < b THEN a ELSE b

\* Faulty variant: every report starts the cooldown again.
ReportedOnce(k, e) ==
    LET p == Least(e.problem + 1, GraceOffline) IN
    [ok |-> 0, problem |-> p,
     told |-> IF e.told = Never THEN (IF p >= Grace(k) THEN 0 ELSE Never) ELSE 0]

\* report_problem on an existing entry: first alert at the end of grace, then one
\* each time the cooldown has passed.
Reported(k, e) ==
    LET p == Least(e.problem + 1, GraceOffline) IN
    [ok |-> 0, problem |-> p,
     told |-> IF e.told = Never THEN (IF p >= Grace(k) THEN 0 ELSE Never)
              ELSE IF e.told >= Cooldown THEN 0 ELSE e.told + 1]

Problem(k) == {IF active[k] = {} THEN NewEntry(k) ELSE Reported(k, CHOOSE e \in active[k] : TRUE)}

Alerted(k, entries) ==
    \E e \in entries : e.told = 0 /\ \A old \in active[k] : old.told \in {Never, Cooldown}

Older(e) == IF e.told = Never THEN Never ELSE Least(e.told + 1, Cooldown)

\* report_ok: the entry goes after ResolveDelay good polls.
Fine(k) == {[e EXCEPT !.ok = @ + 1, !.told = Older(e)] :
               e \in {e \in active[k] : e.ok + 1 < ResolveDelay}}
Resolved(k) == \E e \in active[k] : e.ok + 1 >= ResolveDelay

\* A key that is not looked at in this cycle only ages.
Unseen(k) == {[e EXCEPT !.told = Older(e)] : e \in active[k]}

\* check_station: nothing but "unreachable" is known of a station that does not answer.
\* asked: the keys whose own request succeeded (the janitor's check needs one).
CheckStation(asked) ==
    LET seen == IF Offline \in sick THEN {Offline} ELSE {Offline} \cup asked
        bad  == seen \cap sick
        good == seen \ sick
    IN
    /\ pending = {}
    /\ active' = [k \in Keys |-> IF k \in bad THEN Problem(k)
                                 ELSE IF k \in good THEN Fine(k) ELSE Unseen(k)]
    /\ pending' = {<<"alert", k>> : k \in {k \in bad : Alerted(k, Problem(k))}}
                  \cup {<<"resolve", k>> : k \in {k \in good : Resolved(k)}}
    /\ UNCHANGED <<sick, morning, heard, restarts>>

\* _check_dawn, in the hours in which it looks: a processed night is announced once,
\* whether the message arrives or not.
CheckDawn ==
    /\ morning = "done" /\ Offline \notin sick
    /\ morning' = "announced"
    /\ UNCHANGED <<sick, active, pending, heard, restarts>>

\* dispatch_notifications_batched: one message for each kind, of those in sent it arrives.
Dispatch(sent) ==
    /\ pending # {}
    /\ heard' = [k \in Keys |->
                   IF <<"resolve", k>> \in pending /\ "resolve" \in sent THEN "resolve"
                   ELSE IF <<"alert", k>> \in pending /\ "alert" \in sent THEN "alert"
                   ELSE heard[k]]
    /\ pending' = {}
    /\ UNCHANGED <<sick, active, morning, restarts>>

\* The tracker lives in memory.
Restart ==
    /\ restarts < MaxRestarts
    /\ restarts' = restarts + 1
    /\ active' = [k \in Keys |-> {}]
    /\ pending' = {}
    /\ morning' = IF morning = "announced" THEN "done" ELSE morning
    /\ UNCHANGED <<sick, heard>>

------------------------------------------------------------------------------
Cycle ==
    \/ \E asked \in SUBSET Faults : CheckStation(asked)
    \/ \E sent \in SUBSET Kinds : Dispatch(sent)

WatchNext ==
    \/ \E k \in Keys, there \in BOOLEAN : SickChanges(k, there)
    \/ DawnEnds \/ CheckDawn \/ Cycle \/ Restart

\* The service goes on; every key is asked for, and Discord answers, now and then.
WatchFairness ==
    /\ WF_watchVars(Cycle)
    /\ SF_watchVars(CheckStation(Faults))
    /\ SF_watchVars(Dispatch(Kinds))

WatchSpec == WatchInit /\ [][WatchNext]_watchVars /\ WatchFairness

------------------------------------------------------------------------------
WatchTypeOK ==
    /\ sick \in SUBSET Keys
    /\ \A k \in Keys : active[k] \in SUBSET Entry
    /\ pending \in SUBSET (Kinds \X Keys)
    /\ morning \in {"running", "done", "announced"}
    /\ heard \in [Keys -> Kinds \cup {"nothing"}]
    /\ restarts \in 0..MaxRestarts

Visible(k) == k \in sick /\ (k = Offline \/ Offline \notin sick)

\* A problem that lasts is heard of in the end, although a lost message is not sent again
\* and the tracker forgets everything at a restart (AlertTracker, send_discord_embed).
LastingProblemIsHeard ==
    \A k \in Keys : <>[]Visible(k) => <>[](heard[k] = "alert")

==============================================================================
