------------------------------- MODULE Tunnels -------------------------------
(***************************************************************************)
(* The ssh tunnel to one station behind jump hosts (tunnels.TunnelManager):*)
(* the thread that opens it at the start, the watchdog that opens it again *)
(* with a growing backoff, the requests that wake it, and the processes,   *)
(* which end when they like.                                               *)
(***************************************************************************)
EXTENDS Integers, Sequences, FiniteSets

CONSTANTS
    Jumps,              \* jump_hosts, in order
    Procs,              \* bound: ssh processes at once
    MaxStreak           \* the longest streak whose backoff can be computed

TunnelThreads == {"start_all", "watchdog"}
Ways == {"through", "refused", "silent"}    \* a jump host forwards, refuses, does not answer
NoProc == "none"

VARIABLES
    way,                \* way[j]
    alive,              \* alive[p]: the index of its jump host, 0 when there is no such process
    open,               \* those that are connected and listen on their local port
    tunnel,             \* _tunnels[host]: its process, and whether it has outlived _TUNNEL_HEALTHY_S
    pending,            \* _reconnect_pending[host]
    streak, backoff,    \* _fail_streak[host], _backoff_until[host] not reached
    thread,             \* thread[t]: its place in _establish_tunnel and what it has in hand
    closed,             \* shutdown has run
    doubled             \* both threads have been in _establish_tunnel at once

tunnelVars == <<way, alive, open, tunnel, pending, streak, backoff, thread, closed, doubled>>

NoTunnel == [proc |-> NoProc, healthy |-> FALSE]
AtStep(step) == [step |-> step, proc |-> NoProc, jump |-> 1]
ThreadStates == [step : {"wait", "look", "pop", "kill", "try", "settle", "ended"},
                 proc : Procs \cup {NoProc}, jump : 1..Len(Jumps) + 1]

TunnelsInit ==
    /\ way = [j \in 1..Len(Jumps) |-> "through"]
    /\ alive = [p \in Procs |-> 0] /\ open = {}
    /\ tunnel = NoTunnel /\ pending = FALSE
    /\ streak = 0 /\ backoff = FALSE
    /\ thread = [t \in TunnelThreads |-> IF t = "start_all" THEN AtStep("pop") ELSE AtStep("wait")]
    /\ closed = FALSE /\ doubled = FALSE

Lives(p) == p # NoProc /\ alive[p] # 0
Up == Lives(tunnel.proc) /\ tunnel.proc \in open      \* _is_alive
Establishing(t) == thread[t].step \in {"pop", "kill", "try", "settle"}

------------------------------------------------------------------------------
(* The network.                                                             *)

JumpChanges(j, w) ==
    /\ way[j] # w
    /\ way' = [way EXCEPT ![j] = w]
    /\ UNCHANGED <<alive, open, tunnel, pending, streak, backoff, thread, closed, doubled>>

Connect(p) ==
    /\ Lives(p) /\ p \notin open /\ way[alive[p]] = "through"
    /\ open' = open \cup {p}
    /\ UNCHANGED <<way, alive, tunnel, pending, streak, backoff, thread, closed, doubled>>

\* At once when refused, after ConnectTimeout or the keepalives when there is no answer.
SshExits(p) ==
    /\ Lives(p) /\ way[alive[p]] # "through"
    /\ alive' = [alive EXCEPT ![p] = 0] /\ open' = open \ {p}
    /\ UNCHANGED <<way, tunnel, pending, streak, backoff, thread, closed, doubled>>

TimePasses ==
    /\ \/ /\ tunnel.proc # NoProc /\ ~tunnel.healthy
          /\ tunnel' = [tunnel EXCEPT !.healthy = TRUE] /\ UNCHANGED backoff
       \/ /\ backoff
          /\ backoff' = FALSE /\ UNCHANGED tunnel
    /\ UNCHANGED <<way, alive, open, pending, streak, thread, closed, doubled>>

------------------------------------------------------------------------------
\* get_api_base, when the tunnel is down, asks for a new one and wakes the watchdog.
Request ==
    /\ ~closed /\ ~Up
    /\ pending' = TRUE
    /\ UNCHANGED <<way, alive, open, tunnel, streak, backoff, thread, closed, doubled>>

\* start_watchdog: woken up, or after 30 s.
Sweep ==
    /\ thread["watchdog"].step = "wait"
    /\ thread' = [thread EXCEPT !["watchdog"].step = "look"]
    /\ UNCHANGED <<way, alive, open, tunnel, pending, streak, backoff, closed, doubled>>

Look ==
    /\ thread["watchdog"].step = "look"
    /\ IF Up
       THEN /\ pending' = FALSE
            /\ streak' = IF tunnel.healthy THEN 0 ELSE streak
            /\ backoff' = (backoff /\ ~tunnel.healthy)
       ELSE UNCHANGED <<pending, streak, backoff>>
    /\ thread' = [thread EXCEPT !["watchdog"].step = IF Up \/ backoff THEN "wait" ELSE "pop"]
    /\ doubled' = (doubled \/ (~Up /\ ~backoff /\ Establishing("start_all")))
    /\ UNCHANGED <<way, alive, open, tunnel, closed>>

\* _note_failure: from some streak on, 2 ** (streak - 1) no longer fits a float, and the
\* exception ends the thread.
Notes(t, goes, tun) ==
    /\ streak' = streak + 1
    /\ backoff' = \/ streak < MaxStreak
                  \/ backoff
    /\ thread' = [thread EXCEPT ![t] = IF streak < MaxStreak THEN goes ELSE AtStep("ended")]
    /\ tunnel' = tun

\* The old tunnel is forgotten first; one that died young counts as a failure.
PopOld(t) ==
    LET goes == [step |-> "kill", proc |-> tunnel.proc, jump |-> 1] IN
    /\ thread[t].step = "pop"
    /\ IF tunnel.proc # NoProc /\ ~Up /\ ~tunnel.healthy
       THEN Notes(t, goes, NoTunnel)
       ELSE /\ thread' = [thread EXCEPT ![t] = goes] /\ tunnel' = NoTunnel
            /\ UNCHANGED <<streak, backoff>>
    /\ UNCHANGED <<way, alive, open, pending, closed, doubled>>

\* Faulty variant: the old process is only forgotten.
LeftRunning(p) == alive

Killed(p) == IF p = NoProc THEN alive ELSE [alive EXCEPT ![p] = 0]

KillOld(t) ==
    /\ thread[t].step = "kill"
    /\ alive' = Killed(thread[t].proc)
    /\ open' = {p \in open : alive'[p] # 0}
    /\ thread' = [thread EXCEPT ![t] = AtStep("try")]
    /\ UNCHANGED <<way, tunnel, pending, streak, backoff, closed, doubled>>

Tries(t) == thread[t].step = "try" /\ thread[t].jump <= Len(Jumps)

\* _find_free_port finds no port or descriptor: its OSError leaves _establish_tunnel, and
\* nothing above catches it.
NoPort(t) ==
    /\ Tries(t)
    /\ thread' = [thread EXCEPT ![t] = AtStep("ended")]
    /\ UNCHANGED <<way, alive, open, tunnel, pending, streak, backoff, closed, doubled>>

\* The jump host is not in the configuration, or Popen raises, which is caught.
SpawnFails(t) ==
    /\ Tries(t)
    /\ thread' = [thread EXCEPT ![t].jump = @ + 1]
    /\ UNCHANGED <<way, alive, open, tunnel, pending, streak, backoff, closed, doubled>>

Spawn(t, p) ==
    /\ Tries(t)
    /\ alive[p] = 0 /\ tunnel.proc # p /\ \A u \in TunnelThreads : thread[u].proc # p
    /\ alive' = [alive EXCEPT ![p] = thread[t].jump]
    /\ thread' = [thread EXCEPT ![t].step = "settle", ![t].proc = p]
    /\ UNCHANGED <<way, open, tunnel, pending, streak, backoff, closed, doubled>>

\* The end of _establish_tunnel; the watchdog also takes the request back.
Returns(t) == IF t = "watchdog" THEN AtStep("wait") ELSE AtStep("ended")
Answered(t) == pending' = (pending /\ t # "watchdog")

\* Two seconds later: ssh that was refused has exited, and what has not counts as a tunnel,
\* connected or not.
Settle(t) ==
    LET p == thread[t].proc IN
    /\ thread[t].step = "settle"
    /\ Lives(p) => way[alive[p]] # "refused"
    /\ IF Lives(p)
       THEN /\ tunnel' = [proc |-> p, healthy |-> FALSE]
            /\ thread' = [thread EXCEPT ![t] = Returns(t)]
            /\ Answered(t)
       ELSE /\ thread' = [thread EXCEPT ![t] = [step |-> "try", proc |-> NoProc, jump |-> @.jump + 1]]
            /\ UNCHANGED <<tunnel, pending>>
    /\ UNCHANGED <<way, alive, open, streak, backoff, closed, doubled>>

GiveUp(t) ==
    /\ thread[t].step = "try" /\ thread[t].jump > Len(Jumps)
    /\ Notes(t, Returns(t), tunnel)
    /\ Answered(t)
    /\ UNCHANGED <<way, alive, open, closed, doubled>>

\* config.stations, over which both threads iterate, changes under one of them: RuntimeError.
StationsChange(t) ==
    /\ thread[t].step = IF t = "watchdog" THEN "look" ELSE "pop"
    /\ thread' = [thread EXCEPT ![t] = AtStep("ended")]
    /\ UNCHANGED <<way, alive, open, tunnel, pending, streak, backoff, closed, doubled>>

\* The process ends; ssh, in a session of its own, ends only when it is killed.
Shutdown ==
    /\ ~closed /\ closed' = TRUE
    /\ alive' = Killed(tunnel.proc)
    /\ open' = {p \in open : alive'[p] # 0}
    /\ tunnel' = NoTunnel
    /\ thread' = [t \in TunnelThreads |-> AtStep("ended")]
    /\ UNCHANGED <<way, pending, streak, backoff, doubled>>

Establish(t) ==
    \/ PopOld(t) \/ KillOld(t) \/ \E p \in Procs : Spawn(t, p)
    \/ NoPort(t) \/ SpawnFails(t) \/ Settle(t) \/ GiveUp(t)
    \/ StationsChange(t)

TunnelsNext ==
    \/ \E j \in 1..Len(Jumps), w \in Ways : JumpChanges(j, w)
    \/ \E p \in Procs : Connect(p) \/ SshExits(p)
    \/ TimePasses \/ Request
    \/ Sweep \/ Look
    \/ \E t \in TunnelThreads : Establish(t)
    \/ Shutdown

------------------------------------------------------------------------------
TunnelsTypeOK ==
    /\ way \in [1..Len(Jumps) -> Ways] /\ alive \in [Procs -> 0..Len(Jumps)]
    /\ open \subseteq Procs
    /\ tunnel \in [proc : Procs \cup {NoProc}, healthy : BOOLEAN]
    /\ pending \in BOOLEAN /\ backoff \in BOOLEAN
    /\ streak \in 0..MaxStreak + 2
    /\ thread \in [TunnelThreads -> ThreadStates]
    /\ closed \in BOOLEAN /\ doubled \in BOOLEAN

\* The ssh processes that no thread will ever end.
Orphans ==
    {p \in Procs : Lives(p) /\ p # tunnel.proc /\ \A t \in TunnelThreads : thread[t].proc # p}

\* Outages, failing opens and the ends of the two threads leave no ssh behind; that start_all
\* and the watchdog open at once (_establish_tunnel, twice) leaves one, and never more however
\* long the watchdog goes on after it.  Until shutdown, which ends the recorded process only,
\* or the overflow of _note_failure, which ends a thread that has forgotten one.
FewOrphanSsh ==
    ~closed /\ streak <= MaxStreak =>
      /\ ~doubled => Orphans = {}
      /\ \A p, q \in Orphans : p = q

==============================================================================
