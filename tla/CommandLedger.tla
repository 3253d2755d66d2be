---------------------------- MODULE CommandLedger ----------------------------
(***************************************************************************)
(* What the signed command channel promises about one command, seen from   *)
(* the queue table of dashboard/command_store.py and without the polls,    *)
(* the acks in flight, the worker's memory or the restarts that implement  *)
(* it: a command is issued once, stays pending until it is settled, and is *)
(* settled once.  It is settled as acked only after its station has        *)
(* handled it; settled as expired, it may be run once more by a station    *)
(* that had it in hand.                                                    *)
(***************************************************************************)
EXTENDS Naturals

CONSTANT Commands       \* command ids (cmd_<32 hex>)

VARIABLES
    life,               \* life[c]: the row's status, or "absent" before the INSERT
    verdict,            \* verdict[c]: the station-reported result of an acked row
    handled,            \* the commands a station has run or refused
    runs,               \* runs[c]: how often the station has carried c out
    late                \* late[c]: how often it has since c was settled as expired

ledgerVars == <<life, verdict, handled, runs, late>>

Verdicts == {"none", "ok", "error"}

LedgerInit ==
    /\ life = [c \in Commands |-> "absent"]
    /\ verdict = [c \in Commands |-> "none"]
    /\ handled = {}
    /\ runs = [c \in Commands |-> 0]
    /\ late = [c \in Commands |-> 0]

\* An admin issues a command.
Issue(c) ==
    /\ life[c] = "absent"
    /\ life' = [life EXCEPT ![c] = "pending"]
    /\ UNCHANGED <<verdict, handled, runs, late>>

\* The station takes the decision on an issued command: refused or reported.
Decide(c) ==
    /\ life[c] # "absent"
    /\ handled' = handled \cup {c}
    /\ UNCHANGED <<life, verdict, runs, late>>

\* The station carries the command out: never an unissued one.
Run(c) ==
    /\ life[c] \in {"pending", "acked"}
    /\ runs' = [runs EXCEPT ![c] = @ + 1]
    /\ UNCHANGED <<life, verdict, handled, late>>

\* An expired command is carried out by a station that still held it: once.
RunLate(c) ==
    /\ life[c] = "expired"
    /\ late[c] = 0
    /\ late' = [late EXCEPT ![c] = 1]
    /\ runs' = [runs EXCEPT ![c] = @ + 1]
    /\ UNCHANGED <<life, verdict, handled>>

\* The first ack of a handled command settles it.
Settle(c, v) ==
    /\ life[c] = "pending"
    /\ c \in handled
    /\ life' = [life EXCEPT ![c] = "acked"]
    /\ verdict' = [verdict EXCEPT ![c] = v]
    /\ UNCHANGED <<handled, runs, late>>

\* One UPDATE expires several pending rows at once.
ExpireAll(E) ==
    /\ \A c \in E : life[c] = "pending"
    /\ life' = [c \in Commands |-> IF c \in E THEN "expired" ELSE life[c]]
    /\ UNCHANGED <<verdict, handled, runs, late>>

LedgerNext ==
    \/ \E c \in Commands : Issue(c) \/ Decide(c) \/ Run(c) \/ RunLate(c)
    \/ \E c \in Commands, v \in Verdicts \ {"none"} : Settle(c, v)
    \/ \E E \in SUBSET Commands : ExpireAll(E)

LedgerSpec == LedgerInit /\ [][LedgerNext]_ledgerVars

==============================================================================
