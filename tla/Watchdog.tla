------------------------------- MODULE Watchdog -------------------------------
(***************************************************************************)
(* ql-watchdog, the process on a game host that restarts a server whose    *)
(* main loop has frozen (ansible/files/ql-watchdog/watchdog.py), beside    *)
(* the servers it watches and the users who start and stop them.           *)
(*                                                                         *)
(* Time is counted in check intervals. It passes while the watchdog sleeps *)
(* and while it captures a backtrace, when servers and users go on.        *)
(***************************************************************************)
EXTENDS Naturals, Sequences, FiniteSets, SequencesExt

CONSTANTS Unit,       \* the ports of qlds@<port>.service
          Strikes,    \* STRIKES
          RateMax,    \* RATE_MAX
          Window,     \* RATE_WINDOW, in intervals
          Grace,      \* GRACE, in intervals
          Delay,      \* the intervals that a capture and a restart take at most
          MaxFaults,  \* bound: mishaps of the watchdog
          Faults      \* what may go wrong

FaultKinds ==
    {"systemctl",  \* the units cannot be listed, or a restart is refused
     "error",      \* an exception ends a round before every unit was looked at
     "watchdog"}   \* the watchdog itself is restarted

ASSUME WatchdogAssumption ==
    /\ Unit # {} /\ Unit \subseteq Nat
    /\ Strikes \in Nat \ {0} /\ RateMax \in Nat \ {0}
    /\ Window \in Nat /\ Grace \in Nat /\ Delay \in Nat /\ MaxFaults \in Nat
    /\ Delay <= Window
    /\ Faults \in SUBSET FaultKinds

VARIABLES server,    \* server[u]: up, the intervals it has been up, stuck (its
                     \* main loop does not run), backlog (its queue is long)
          worked,    \* worked[u]: its CPU time differs from the last sample
          pc,        \* asleep, round or capture
          todo,      \* the units this round has to look at, and whether each
                     \* was listed as active for at least GRACE
          at,        \* the unit whose backtrace is captured
          taken,     \* the intervals since it was decided to restart it
          strikes,   \* strikes[u]
          sampled,   \* sampled[u]: there is a sample of its CPU time
          restarts,  \* restarts[u]: the ages of the restarts remembered
          idle,      \* history: the checks of u since it last worked
          issued,    \* history: the ages of the restarts really done
          mishaps

loop == <<pc, todo, at, taken>>
memory == <<strikes, sampled, restarts>>
history == <<idle, issued, mishaps>>
vars == <<server, worked, loop, memory, history>>

AgeList == UNION {[1..n -> 0..Window + 1] : n \in 0..RateMax + 1}

TypeOK ==
    /\ server \in [Unit -> [up : BOOLEAN, age : 0..Grace, stuck : BOOLEAN, backlog : BOOLEAN]]
    /\ worked \in [Unit -> BOOLEAN]
    /\ pc \in {"asleep", "round", "capture"}
    /\ todo \in [Unit -> {"no", "look", "skip"}]
    /\ at \in Unit
    /\ taken \in 0..Delay
    /\ strikes \in [Unit -> 0..Strikes + MaxFaults]
    /\ sampled \in [Unit -> BOOLEAN]
    /\ restarts \in [Unit -> AgeList]
    /\ idle \in [Unit -> 0..Strikes + 1]
    /\ issued \in [Unit -> AgeList]
    /\ mishaps \in 0..MaxFaults

Nobody == [u \in Unit |-> "no"]
Booted == [up |-> TRUE, age |-> 0, stuck |-> FALSE, backlog |-> FALSE]

Init ==
    /\ server = [u \in Unit |-> Booted]
    /\ worked = [u \in Unit |-> TRUE]
    /\ pc = "asleep"
    /\ todo = Nobody
    /\ at = CHOOSE u \in Unit : TRUE
    /\ taken = 0
    /\ strikes = [u \in Unit |-> 0]
    /\ sampled = [u \in Unit |-> FALSE]
    /\ restarts = [u \in Unit |-> <<>>]
    /\ idle = [u \in Unit |-> 0]
    /\ issued = [u \in Unit |-> <<>>]
    /\ mishaps = 0

Fault(kind) == kind \in Faults /\ mishaps < MaxFaults /\ mishaps' = mishaps + 1

AtMost(n, bound) == IF n > bound THEN bound ELSE n
Older(ages) == [i \in DOMAIN ages |-> AtMost(ages[i] + 1, Window + 1)]

\* The oldest come first and are popped until one is recent.
Recent(ages, within) ==
    LET kept == {i \in DOMAIN ages : ages[i] <= within} IN
    IF kept = {} THEN <<>> ELSE SubSeq(ages, Min(kept), Len(ages))

\* One interval passes. A server whose loop runs uses CPU in it.
TimePasses ==
    LET runs(u) == server[u].up /\ ~server[u].stuck IN
    /\ server' = [u \in Unit |-> [server[u] EXCEPT !.age = AtMost(@ + 1, Grace)]]
    /\ worked' = [u \in Unit |-> worked[u] \/ runs(u)]
    /\ idle' = [u \in Unit |-> IF runs(u) THEN 0 ELSE idle[u]]
    /\ issued' = [u \in Unit |-> Recent(Older(issued[u]), Window)]
    /\ restarts' = [u \in Unit |-> Older(restarts[u])]

\* A new process: systemctl start, restart, and Restart=on-failure.
Boot(u) ==
    /\ server' = [server EXCEPT ![u] = Booted]
    /\ worked' = [worked EXCEPT ![u] = TRUE]

-----------------------------------------------------------------------------
(* Servers and users.                                                      *)

\* The main loop freezes, or goes on again after a stall.
Freeze(u) ==
    /\ server[u].up /\ ~server[u].stuck
    /\ server' = [server EXCEPT ![u].stuck = TRUE]
    /\ UNCHANGED <<worked, loop, memory, history>>

Thaw(u) ==
    /\ server[u].up /\ server[u].stuck
    /\ server' = [server EXCEPT ![u].stuck = FALSE]
    /\ worked' = [worked EXCEPT ![u] = TRUE]
    /\ idle' = [idle EXCEPT ![u] = 0]
    /\ UNCHANGED <<loop, memory, issued, mishaps>>

\* The queue of the game port grows long, of a healthy server too; only a
\* server that runs shortens it.
Traffic(u) ==
    /\ server[u].up
    /\ server[u].backlog => ~server[u].stuck
    /\ server' = [server EXCEPT ![u].backlog = ~@]
    /\ UNCHANGED <<worked, loop, memory, history>>

Stop(u) ==
    /\ server[u].up
    /\ server' = [server EXCEPT ![u] = [Booted EXCEPT !.up = FALSE]]
    /\ UNCHANGED <<worked, loop, memory, history>>

\* By a user, by Restart=on-failure, or a systemctl that outlived its timeout.
StartOrRestart(u) ==
    /\ Boot(u)
    /\ idle' = [idle EXCEPT ![u] = 0]
    /\ UNCHANGED <<loop, memory, issued, mishaps>>

-----------------------------------------------------------------------------
(* The watchdog.                                                           *)

\* The units are looked at in the order in which systemctl lists them.
Turn(u, verdict) ==
    /\ pc = "round" /\ todo[u] = verdict
    /\ \A v \in Unit : v < u => todo[v] = "no"
    /\ todo' = [todo EXCEPT ![u] = "no"]

\* discover_instances, at the start of a round: who has been up long enough.
Wake ==
    /\ pc = "asleep"
    /\ TimePasses
    /\ pc' = "round"
    /\ \/ /\ todo' = [u \in Unit |->
                        IF server'[u].up /\ server'[u].age >= Grace THEN "look" ELSE "skip"]
          /\ UNCHANGED mishaps
       \/ Fault("systemctl") /\ UNCHANGED todo
    /\ UNCHANGED <<at, taken, strikes, sampled>>

\* Not active, or in its grace period.
Skip(u) ==
    /\ Turn(u, "skip")
    /\ strikes' = [strikes EXCEPT ![u] = 0]
    /\ UNCHANGED <<server, worked, pc, at, taken, sampled, restarts, history>>

\* The process is gone since the units were listed: no sample, no verdict.
Gone(u) ==
    /\ Turn(u, "look")
    /\ ~server[u].up
    /\ sampled' = [sampled EXCEPT ![u] = FALSE]
    /\ strikes' = [strikes EXCEPT ![u] = 0]
    /\ UNCHANGED <<server, worked, pc, at, taken, restarts, history>>

\* Faulty variant: a long queue alone counts as a hang.
HungByQueue(u) == server[u].backlog

\* Both signals: the queue is long, and no CPU time was used since the sample.
Hung(u) == server[u].backlog /\ sampled[u] /\ ~worked[u]

Sample(u) ==
    /\ Turn(u, "look")
    /\ server[u].up
    /\ sampled' = [sampled EXCEPT ![u] = TRUE]
    /\ worked' = [worked EXCEPT ![u] = FALSE]
    /\ idle' = [idle EXCEPT ![u] = AtMost(@ + 1, Strikes + 1)]

Healthy(u) ==
    /\ Sample(u)
    /\ ~Hung(u)
    /\ strikes' = [strikes EXCEPT ![u] = 0]
    /\ UNCHANGED <<server, pc, at, taken, restarts, issued, mishaps>>

Suspect(u) ==
    /\ Sample(u)
    /\ Hung(u)
    /\ strikes[u] + 1 < Strikes
    /\ strikes' = [strikes EXCEPT ![u] = @ + 1]
    /\ UNCHANGED <<server, pc, at, taken, restarts, issued, mishaps>>

\* Faulty variant: the restarts counted are never forgotten.
RememberedForEver(u) == restarts[u]

\* The restarts within RATE_WINDOW of now.
Remembered(u) == Recent(restarts[u], Window)

\* Faulty variant: the strikes are not reset.
GiveUpKeepsStrikes(u) ==
    /\ Sample(u)
    /\ Hung(u)
    /\ strikes[u] + 1 >= Strikes
    /\ Len(Remembered(u)) >= RateMax
    /\ restarts' = [restarts EXCEPT ![u] = Remembered(u)]
    /\ strikes' = [strikes EXCEPT ![u] = @ + 1]
    /\ UNCHANGED <<server, pc, at, taken, issued, mishaps>>

\* The last strike: give up for now when the rate limit is reached.
GiveUp(u) ==
    /\ Sample(u)
    /\ Hung(u)
    /\ strikes[u] + 1 >= Strikes
    /\ Len(Remembered(u)) >= RateMax
    /\ restarts' = [restarts EXCEPT ![u] = Remembered(u)]
    /\ strikes' = [strikes EXCEPT ![u] = 0]
    /\ UNCHANGED <<server, pc, at, taken, issued, mishaps>>

Decide(u) ==
    /\ Sample(u)
    /\ Hung(u)
    /\ strikes[u] + 1 >= Strikes
    /\ Len(Remembered(u)) < RateMax
    /\ restarts' = [restarts EXCEPT ![u] = Remembered(u)]
    /\ strikes' = [strikes EXCEPT ![u] = @ + 1]
    /\ pc' = "capture" /\ at' = u /\ taken' = 0
    /\ UNCHANGED <<server, issued, mishaps>>

\* capture_hang_forensics and systemctl take their time.
Capturing ==
    /\ pc = "capture" /\ taken < Delay
    /\ TimePasses
    /\ taken' = taken + 1
    /\ UNCHANGED <<pc, todo, at, strikes, sampled, mishaps>>

\* Faulty variant: only a restart that succeeded is remembered, and its time is
\* taken when it is done.
RestartUncounted ==
    /\ pc = "capture"
    /\ Boot(at)
    /\ issued' = [issued EXCEPT ![at] = Append(@, 0)]
    /\ idle' = [idle EXCEPT ![at] = 0]
    /\ strikes' = [strikes EXCEPT ![at] = 0]
    /\ pc' = "round"
    /\ UNCHANGED <<todo, at, taken, restarts, sampled, mishaps>>

\* systemctl restart, which also starts a server that was stopped meanwhile. It
\* counts from the decision on, and also when it failed.
Restart ==
    /\ pc = "capture"
    /\ restarts' = [restarts EXCEPT ![at] = Append(@, taken)]
    /\ strikes' = [strikes EXCEPT ![at] = 0]
    /\ pc' = "round"
    /\ \/ /\ Boot(at)
          /\ issued' = [issued EXCEPT ![at] = Append(@, 0)]
          /\ idle' = [idle EXCEPT ![at] = 0]
          /\ UNCHANGED mishaps
       \/ Fault("systemctl") /\ UNCHANGED <<server, worked, issued, idle>>
    /\ UNCHANGED <<todo, at, taken, sampled>>

Sleep ==
    /\ pc = "round" /\ todo = Nobody
    /\ pc' = "asleep"
    /\ UNCHANGED <<server, worked, todo, at, taken, memory, history>>

\* loop_error: the units not yet looked at wait for the next round. One that
\* was to be restarted keeps its strikes.
LoopError ==
    /\ pc = "capture" \/ (pc = "round" /\ todo # Nobody)
    /\ Fault("error")
    /\ pc' = "round" /\ todo' = Nobody
    /\ UNCHANGED <<server, worked, at, taken, memory, idle, issued>>

\* systemd restarts the watchdog, or a new configuration does: it knows nothing
\* of what it did before.
WatchdogRestarts ==
    /\ Fault("watchdog")
    /\ pc' = "asleep" /\ todo' = Nobody
    /\ strikes' = [u \in Unit |-> 0]
    /\ sampled' = [u \in Unit |-> FALSE]
    /\ restarts' = [u \in Unit |-> <<>>]
    /\ issued' = [u \in Unit |-> <<>>]
    /\ UNCHANGED <<server, worked, at, taken, idle>>

-----------------------------------------------------------------------------
Others(u) == Freeze(u) \/ Thaw(u) \/ Traffic(u) \/ Stop(u) \/ StartOrRestart(u)
Check(u) == Skip(u) \/ Gone(u) \/ Healthy(u) \/ Suspect(u) \/ GiveUp(u) \/ Decide(u)
Loop == Wake \/ (\E u \in Unit : Check(u)) \/ Restart \/ Sleep

Next ==
    \/ Loop \/ Capturing \/ LoopError \/ WatchdogRestarts
    \/ \E u \in Unit : Others(u)

Spec == Init /\ [][Next]_vars

\* The watchdog runs on; commands have timeouts.
FairSpec == Spec /\ WF_vars(Loop)

-----------------------------------------------------------------------------
(* Properties.                                                             *)

\* A server is restarted only when it used no CPU through as many whole check
\* intervals as there are strikes (watchdog.py:20-25, 388-416): whatever users
\* did to it between the checks, and whatever checks were lost, the strikes are
\* about the process that is there now.
RestartsOnlyTheStuck ==
    [][pc # "capture" /\ pc' = "capture" =>
           idle'[at'] > Strikes /\ server[at'].up /\ server[at'].stuck]_vars

\* Within RATE_WINDOW, less the time that a restart may take, no unit is
\* restarted more often than RATE_MAX by one watchdog process
\* (watchdog.py:78-80, 418-450). A restart counts from its decision on, so over
\* the whole window there may be more.
RateLimited ==
    \A u \in Unit : Len(Recent(issued[u], Window - Delay)) <= RateMax

\* A server that is frozen while traffic piles up does not stay so
\* (watchdog.py:1-13): not when the rate limit held the watchdog back, and not
\* when a round failed.
HungIsRestarted ==
    \A u \in Unit :
        server[u].up /\ server[u].stuck /\ server[u].backlog
            ~> ~(server[u].up /\ server[u].stuck /\ server[u].backlog)
=============================================================================
