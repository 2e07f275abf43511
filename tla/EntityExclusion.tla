--------------------------- MODULE EntityExclusion ---------------------------
(***************************************************************************)
(* What the locks of ui/task_lock.py promise to their callers, said        *)
(* without keys, tokens or expiry: at most one operation works on a host   *)
(* or instance at a time, and a backup export or import runs alone.        *)
(***************************************************************************)
CONSTANTS Entity,   \* hosts and instances
          Op        \* operations

VARIABLES working,  \* working[o]: the entities operation o is working on
          backups   \* the backups that are running

exclusionVars == <<working, backups>>

Init ==
    /\ working = [o \in Op |-> {}]
    /\ backups = {}

Start(o, e) ==
    /\ backups = {}
    /\ \A p \in Op : e \notin working[p]
    /\ working' = [working EXCEPT ![o] = @ \cup {e}]
    /\ UNCHANGED backups

\* An operation may let go of several entities at once: it crashed.
Finish(o, S) ==
    /\ S \subseteq working[o]
    /\ S # {}
    /\ working' = [working EXCEPT ![o] = @ \ S]
    /\ UNCHANGED backups

StartBackup(o) ==
    /\ backups = {}
    /\ \A p \in Op : working[p] = {}
    /\ backups' = {o}
    /\ UNCHANGED working

FinishBackup(o) ==
    /\ o \in backups
    /\ backups' = backups \ {o}
    /\ UNCHANGED working

Next ==
    \E o \in Op :
        \/ \E e \in Entity : Start(o, e)
        \/ \E S \in SUBSET Entity : Finish(o, S)
        \/ StartBackup(o)
        \/ FinishBackup(o)

Spec == Init /\ [][Next]_exclusionVars
=============================================================================
