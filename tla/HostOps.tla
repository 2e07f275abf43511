------------------------------- MODULE HostOps -------------------------------
(***************************************************************************)
(* The life of a host and of the instances on it, as the host's routes and *)
(* jobs see them (ui/routes/host_routes.py, ui/tasks.py, ui/task_logic).   *)
(* A request takes the host's lock; a re-run of the setup takes the locks  *)
(* of the host's instances, too; provisioning hands its lock over to the   *)
(* setup job it enqueues; a workshop or plugin update restarts instances   *)
(* through jobs that take no lock at all.                                  *)
(*                                                                         *)
(* An instance operation is abstracted to its guard, its lock and its      *)
(* outcome: InstanceOps has the rest. A request, its token and its job are *)
(* one thing. Any queued job may be the next to start: which one a free    *)
(* worker pops first is not what the properties are about.                 *)
(***************************************************************************)
EXTENDS RedisLock, Naturals, FiniteSets

CONSTANTS Host,     \* the host; the other entities are its instances
          Workers,  \* number of RQ worker processes
          Ops,      \* the host operations users ask for
          Faults    \* what may go wrong, see FaultKinds

Instances == Entity \ {Host}

AllOps == {"provision", "adopt", "delete", "rename", "filter", "refresh",
           "reboot", "resize", "timer", "rerun", "workshop", "plugins"}

InstanceOp == {"create", "change", "remove"}

FaultKinds ==
    {"playbook",   \* ansible-playbook or terraform fails
     "raise",      \* the job raises outside its logic's own try
     "crash",      \* a worker dies
     "webcrash",   \* the web process dies in a request
     "enqueue",    \* a commit or an enqueue raises
     "mistaken",   \* terraform fails with a text that the deletion takes for
                   \* "the machine is gone already"
     "slow",       \* a setup re-run plays for more than 20 minutes
     "delay"}      \* a lock's TTL runs out before its job has ended, or before
                   \* RQ reports that the job failed

ASSUME HostOpsAssumption ==
    /\ Host \in Entity
    /\ Workers \in Nat \ {0}
    /\ Ops \in SUBSET AllOps
    /\ Faults \in SUBSET FaultKinds

VARIABLES hstat,    \* Host.status, "absent" when there is no row
          istat,    \* QLInstance.status of the host's instances
          machine,  \* a cloud machine runs for this host
          ws,       \* Host.workspace_name is recorded
          req,      \* the requests and their jobs
          tail,     \* the provision jobs whose setup job is already queued
          loose,    \* the restart jobs that were queued without a lock
          aged,     \* Host.last_updated is 20 minutes old, the host stuck
          stranded  \* history: nobody is left to end the host's transition

vars == <<lock, index, maint, hstat, istat, machine, ws, req, tail, loose, aged, stranded>>
cloudVars == <<machine, ws>>
sideVars == <<tail, loose>>

-----------------------------------------------------------------------------
(* Status vocabulary (ui/models.py). For an instance "busy" stands for every *)
(* transitional status except deleting, "settled" for every other but       *)
(* stopped.                                                                  *)

Transitional == {"provisioning", "pending_setup", "rebooting", "deleting",
                 "configuring"}
HostStatus == Transitional \cup {"absent", "pending", "active", "error"}
StaleTransitional == Transitional \ {"deleting"}

InstanceStatus == {"absent", "busy", "deleting", "settled", "stopped"}

-----------------------------------------------------------------------------
(* What distinguishes the operations.                                      *)

In(r, P) == req[r].phase \in P

Over == {"new", "done", "gone", "lost"}
InstancePhases == {"iadmitted", "ichecked", "ilocked", "iworking", "ifinishing"}

\* Nobody is about to do something to an earlier host. (SQLite may give a row
\* the id of a deleted one: the model starts over when nothing is left of it
\* but its locks.)
Quiet ==
    /\ \A r \in Token : In(r, Over) /\ tail[r] # "open"
    /\ \A i \in Instances : loose[i] = "none"

\* Bound: nobody else uses the id of a new host before the request that
\* inserted the row has asked for the lock, which it does at once.
Known == \A r \in Token : In(r, {"checked"}) => req[r].op \notin {"provision", "adopt"}

\* The status check of the route, before it asks for the lock. Creating a
\* host inserts its row; rename and the QLFilter routes look at nothing.
Admits(o) ==
    IF o \in {"provision", "adopt"} THEN hstat = "absent" /\ Quiet
    ELSE /\ Known
         /\ CASE o = "delete" -> /\ hstat # "absent"
                                 /\ \A i \in Instances : istat[i] \in {"absent", "deleting"}
              [] o \in {"rename", "filter", "refresh"} -> hstat # "absent"
              [] o = "rerun" -> hstat \in {"active", "error"}
              [] OTHER -> hstat = "active"

\* What the route writes before it enqueues the job; "keep" for nothing.
RouteWrites(o) ==
    CASE o = "provision" -> "provisioning"
      [] o = "adopt" -> "pending_setup"
      [] o = "delete" -> "deleting"
      [] o \in {"resize", "timer", "rerun"} -> "configuring"
      [] OTHER -> "keep"

\* What the job writes first. A setup finds its status, or does nothing.
JobWrites(o) ==
    CASE o = "provision" -> "provisioning"
      [] o = "delete" -> "deleting"
      [] o = "reboot" -> "rebooting"
      [] o \in {"workshop", "plugins"} -> "active"
      [] OTHER -> "keep"

\* The statuses a job insists on. A job of another kind takes any.
Expects(o) ==
    CASE o \in {"setup", "adopt"} -> {"pending_setup"}
      [] o = "rerun" -> {"pending_setup", "configuring"}
      [] o = "resize" -> {"configuring"}
      [] OTHER -> HostStatus \ {"absent"}

\* What the job writes in the end. QLFilter means ACTIVE either way.
Concludes(o, ok) ==
    CASE o = "refresh" -> "keep"
      [] o = "provision" /\ ok -> "pending_setup"
      [] o = "filter" \/ (ok /\ o \notin {"provision", "refresh"}) -> "active"
      [] OTHER -> "error"

\* The phases in which a request relies on the host's lock, or works on an
\* instance. In the end it only lets go of what it has.
HostOwning == {"locked", "listing", "taking", "backoff", "revert", "letgo",
               "committed", "queued", "started", "running", "ok", "bad",
               "handoff", "marking", "settling", "undoing", "reconciling"}
InstanceOwning == {"ilocked", "iworking"}

-----------------------------------------------------------------------------
(* Types.                                                                  *)

Phase == {"new", "checked", "locked", "listing", "taking", "backoff", "revert",
          "letgo", "drop", "committed", "queued", "started", "running", "ok",
          "bad", "handoff", "marking", "settling", "undoing", "reconciling",
          "finishing", "unwinding", "failed", "handling", "cleanup", "lost", "gone", "done",
          "iadmitted", "ichecked", "ilocked", "iworking", "ifinishing"}

\* robbed is history: the host's lock was taken from the request at its work.
Request == [phase : Phase, op : AllOps \cup InstanceOp \cup {"setup", "none"},
            inst : Instances \cup {None}, seen : HostStatus,
            held : SUBSET Instances, todo : SUBSET Instances, robbed : BOOLEAN,
            snap : [Instances -> InstanceStatus]]

NoSnap == [i \in Instances |-> "absent"]

NoRequest == [phase |-> "new", op |-> "none", inst |-> None, seen |-> "absent",
              held |-> {}, todo |-> {}, robbed |-> FALSE, snap |-> NoSnap]

TypeOK ==
    /\ RedisTypeOK
    /\ hstat \in HostStatus
    /\ istat \in [Instances -> InstanceStatus]
    /\ machine \in BOOLEAN
    /\ ws \in BOOLEAN
    /\ req \in [Token -> Request]
    /\ tail \in [Token -> {"none", "open"}]
    /\ loose \in [Instances -> {"none", "queued", "running"}]
    /\ aged \in BOOLEAN
    /\ stranded \in BOOLEAN

Init ==
    /\ RedisInit
    /\ \/ hstat = "absent" /\ machine = FALSE /\ ws = FALSE
       \/ hstat = "active" /\ ws \in BOOLEAN /\ machine = ws
    /\ istat \in [Instances -> {"absent", "settled", "stopped"}]
    /\ hstat = "absent" => \A i \in Instances : istat[i] = "absent"
    /\ req = [r \in Token |-> NoRequest]
    /\ tail = [r \in Token |-> "none"]
    /\ loose = [i \in Instances |-> "none"]
    /\ aged = FALSE
    /\ stranded = FALSE

Goto(r, p) == req' = [req EXCEPT ![r].phase = p]
Forget(r, p) ==
    req' = [req EXCEPT ![r].phase = p, ![r].todo = {}, ![r].snap = NoSnap]
End(r, p) == req' = [req EXCEPT ![r] = [NoRequest EXCEPT !.phase = p]]
Present == {i \in Instances : istat[i] # "absent"}

\* An UPDATE of the host's row, which may be gone. One that keeps the status
\* may still write another column, and with it last_updated.
SetHost(s) ==
    /\ hstat' = IF hstat = "absent" \/ s = "keep" THEN hstat ELSE s
    /\ aged' \in {FALSE, s = "keep" /\ aged}
    /\ stranded' = (s = "keep" /\ stranded)

SetInstance(i, s) ==
    istat' = [istat EXCEPT ![i] = IF @ = "absent" THEN @ ELSE s]

\* Who is going to write the host's status.
Ending(r) ==
    \/ In(r, {"locked", "listing", "taking", "backoff", "revert", "committed",
              "queued", "started", "running", "ok", "bad", "handoff", "marking",
              "reconciling", "unwinding", "failed"})
    \/ In(r, {"handling"}) /\ req[r].seen \in Transitional

\* Whoever should have ended the transition is gone.
StrandBy(r) ==
    stranded' = \/ stranded
                \/ /\ hstat \in Transitional
                   /\ \/ lock[Host] = r \/ req[r].robbed
                      \/ \A s \in Token \ {r} : ~Ending(s)

-----------------------------------------------------------------------------
(* The routes.                                                             *)

\* A new request takes the place of one that is over and of which no lock and
\* no job is left: its token is one nothing remembers.
Fresh(r) ==
    /\ In(r, Over)
    /\ tail[r] # "open"
    /\ \A e \in Entity : lock[e] # r

\* What the route remembers of the row it read: a resize or a re-run the status
\* it may restore, a deletion whether the host is stuck.
Reads(o) ==
    IF o \in {"resize", "rerun"} \/ (o = "delete" /\ aged) THEN hstat ELSE "absent"

Check(r, o) ==
    /\ Fresh(r)
    /\ Admits(o)
    /\ req' = [req EXCEPT ![r] = [NoRequest EXCEPT !.phase = "checked",
                                     !.op = o, !.seen = Reads(o)]]
    /\ hstat' = IF o \in {"provision", "adopt"} THEN "pending" ELSE hstat
    /\ UNCHANGED <<redisVars, istat, cloudVars, sideVars, aged, stranded>>

\* A host that is in one transitional status, and whose row nobody has written,
\* for 20 minutes. Routes and jobs do not take that long, but for a re-run's
\* playbooks and the wait in the queue.
Idle(r) ==
    /\ tail[r] # "open"
    /\ \/ In(r, Over \cup InstancePhases \cup {"failed"})
       \/ "slow" \in Faults /\ req[r].op = "rerun" /\ In(r, {"running"})
       \/ "delay" \in Faults /\ In(r, {"queued"})

Age ==
    /\ hstat \in StaleTransitional
    /\ ~aged
    /\ \A r \in Token : Idle(r)
    /\ aged' = TRUE
    /\ UNCHANGED <<redisVars, hstat, istat, cloudVars, req, sideVars, stranded>>

\* The deletion found its host stuck.
FoundStuck(r) ==
    In(r, {"checked"}) /\ req[r].op = "delete" /\ req[r].seen \in StaleTransitional

\* r has acted on what it found; whoever works under the host's lock has it no
\* more.
Robs(r) ==
    req' = [s \in Token |->
        [req[s] EXCEPT !.seen = IF s = r THEN "absent" ELSE @,
                       !.robbed = @ \/ (lock[Host] = s /\ In(s, HostOwning))]]

\* Faulty variant: the deletion of any host takes its lock, stuck or not.
ForceReleaseAny(r) ==
    /\ In(r, {"checked"})
    /\ req[r].op = "delete"
    /\ ForceReleaseEntity(Host)
    /\ IF FoundStuck(r) THEN Robs(r) ELSE UNCHANGED req
    /\ UNCHANGED <<hstat, istat, cloudVars, sideVars, aged, stranded>>

\* delete_host_api takes the lock of a host it found stuck for stale. It does
\* not ask whose it is, nor whether the row is still what it read.
ForceRelease(r) ==
    /\ FoundStuck(r)
    /\ ForceReleaseEntity(Host)
    /\ Robs(r)
    /\ UNCHANGED <<hstat, istat, cloudVars, sideVars, aged, stranded>>

Acquire(r) ==
    /\ In(r, {"checked"})
    /\ ~FoundStuck(r)
    /\ AcquireEntity(Host, r)
    /\ Goto(r, "locked")
    /\ UNCHANGED <<hstat, istat, cloudVars, sideVars, aged, stranded>>

\* 409. A cloud host's row stays, PENDING; an adopted host's is deleted.
Refused(r) ==
    /\ In(r, {"checked"})
    /\ ~FoundStuck(r)
    /\ EntityRefused(Host)
    /\ IF req[r].op = "adopt" THEN Goto(r, "drop") ELSE End(r, "done")
    /\ UNCHANGED <<hstat, istat, cloudVars, sideVars, aged, stranded>>

Commit(r) ==
    /\ In(r, {"locked"})
    /\ SetHost(RouteWrites(req[r].op))
    /\ Goto(r, IF req[r].op = "rerun" THEN "listing" ELSE "committed")
    /\ UNCHANGED <<redisVars, istat, cloudVars, sideVars>>

\* rerun_setup_api lists the host's instances and takes their locks.
List(r) ==
    /\ In(r, {"listing"})
    /\ req' = [req EXCEPT ![r].phase = "taking", ![r].todo = Present]
    /\ UNCHANGED <<redisVars, hstat, istat, cloudVars, sideVars, aged, stranded>>

Take(r, i) ==
    /\ In(r, {"taking"})
    /\ i \in req[r].todo
    /\ AcquireEntity(i, r)
    /\ req' = [req EXCEPT ![r].todo = @ \ {i}, ![r].held = @ \cup {i}]
    /\ UNCHANGED <<hstat, istat, cloudVars, sideVars, aged, stranded>>

\* One instance is busy: acquire_locks lets go of those it got.
TakeRefused(r, i) ==
    /\ In(r, {"taking"})
    /\ i \in req[r].todo
    /\ EntityRefused(i)
    /\ req' = [req EXCEPT ![r].phase = "backoff", ![r].todo = {}]
    /\ UNCHANGED <<hstat, istat, cloudVars, sideVars, aged, stranded>>

TakenAll(r) ==
    /\ In(r, {"taking"})
    /\ req[r].todo = {}
    /\ Goto(r, "committed")
    /\ UNCHANGED <<redisVars, hstat, istat, cloudVars, sideVars, aged, stranded>>

\* One instance lock at a time, then go on.
ReleaseHeld(r) ==
    /\ In(r, {"backoff", "letgo", "cleanup", "finishing", "unwinding"})
    /\ \E i \in req[r].held :
          /\ ReleaseEntity(i, r)
          /\ req' = [req EXCEPT ![r].held = @ \ {i}]
    /\ UNCHANGED <<hstat, istat, cloudVars, sideVars, aged, stranded>>

BackedOff(r) ==
    /\ In(r, {"backoff"})
    /\ req[r].held = {}
    /\ Goto(r, "revert")
    /\ UNCHANGED <<redisVars, hstat, istat, cloudVars, sideVars, aged, stranded>>

\* The status the route had found, from before it had the lock.
Revert(r) ==
    /\ In(r, {"revert"})
    /\ SetHost(req[r].seen)
    /\ Goto(r, "letgo")
    /\ UNCHANGED <<redisVars, istat, cloudVars, sideVars>>

\* Faulty variant: the host's lock goes first, the instances' stay.
UnlockEarly(r) ==
    /\ In(r, {"letgo"})
    /\ ReleaseEntity(Host, r)
    /\ End(r, "done")
    /\ UNCHANGED <<hstat, istat, cloudVars, sideVars, aged, stranded>>

Unlock(r) ==
    /\ In(r, {"letgo", "cleanup"})
    /\ req[r].held = {}
    /\ ReleaseEntity(Host, r)
    /\ End(r, "done")
    /\ UNCHANGED <<hstat, istat, cloudVars, sideVars, aged, stranded>>

Enqueue(r) ==
    /\ In(r, {"committed"})
    /\ req' = [req EXCEPT ![r].phase = "queued", ![r].seen = "absent"]
    /\ UNCHANGED <<redisVars, hstat, istat, cloudVars, sideVars, aged, stranded>>

\* Only resize and re-run restore the status; provision, delete and the timer
\* and watchdog routes leave the transitional one. An adopted host is dropped.
EnqueueFails(r) ==
    LET o == req[r].op IN
    /\ "enqueue" \in Faults
    /\ In(r, {"committed"})
    /\ \/ /\ o \in {"resize", "rerun"}
          /\ Goto(r, "revert")
          /\ UNCHANGED <<redisVars, stranded>>
       \/ /\ o \notin {"resize", "rerun"}
          /\ ReleaseEntity(Host, r)
          /\ IF o = "adopt" THEN Goto(r, "drop") /\ UNCHANGED stranded
             ELSE End(r, "done") /\ StrandBy(r)
    /\ UNCHANGED <<hstat, aged, istat, cloudVars, sideVars>>

\* A host that could not be adopted: its row is deleted, with its instances.
Drop(r) ==
    /\ In(r, {"drop"})
    /\ hstat' = "absent"
    /\ istat' = NoSnap
    /\ aged' = FALSE
    /\ stranded' = FALSE
    /\ End(r, "done")
    /\ UNCHANGED <<redisVars, cloudVars, sideVars>>

WebCrash(r) ==
    /\ "webcrash" \in Faults
    /\ In(r, {"checked", "locked", "listing", "taking", "backoff", "revert",
              "letgo", "drop", "committed"})
    /\ End(r, "gone")
    /\ StrandBy(r)
    /\ UNCHANGED <<redisVars, hstat, aged, istat, cloudVars, sideVars>>

-----------------------------------------------------------------------------
(* The worker.                                                             *)

InWorker == {"started", "running", "ok", "bad", "handoff", "marking",
             "settling", "undoing", "reconciling", "finishing", "unwinding"}

FreeWorker ==
    Cardinality({r \in Token : In(r, InWorker)})
    + Cardinality({r \in Token : tail[r] = "open"})
    + Cardinality({i \in Instances : loose[i] = "running"}) < Workers

\* The job finds its host in the status it expects, or gives up: a resize
\* marks ERROR, a setup leaves the host alone.
Start(r) ==
    LET o == req[r].op IN
    /\ In(r, {"queued"})
    /\ FreeWorker
    /\ IF hstat \in Expects(o)
       THEN /\ SetHost(JobWrites(o))
            /\ req' = [req EXCEPT
                  ![r].phase = CASE o = "provision" -> "started"
                                 [] o = "workshop" -> "marking"
                                 [] OTHER -> "running",
                  ![r].todo = IF o = "workshop" THEN Present ELSE {}]
       ELSE /\ IF o = "resize" THEN SetHost("error")
               ELSE UNCHANGED <<hstat, aged, stranded>>
            /\ Goto(r, "finishing")
    /\ UNCHANGED <<redisVars, istat, cloudVars, sideVars>>

\* The workspace's name is committed before terraform runs.
RecordWorkspace(r) ==
    /\ In(r, {"started"})
    /\ ws' = TRUE
    /\ Goto(r, "running")
    /\ UNCHANGED <<redisVars, hstat, istat, machine, sideVars, aged, stranded>>

\* What terraform leaves behind when it succeeds and when it does not.
MachineAfter(o, ok) ==
    CASE o = "provision" -> IF ok THEN {TRUE} ELSE {machine, TRUE}
      [] o = "delete" /\ ws ->
            IF ok THEN {FALSE} \cup (IF "mistaken" \in Faults THEN {machine} ELSE {})
            ELSE {machine, FALSE}
      [] OTHER -> {machine}

\* The playbook or terraform ran. A job without a workspace has nothing to
\* destroy and cannot fail at it.
Run(r) ==
    LET o == req[r].op IN
    /\ In(r, {"running"})
    /\ \/ machine' \in MachineAfter(o, TRUE) /\ Goto(r, "ok")
       \/ /\ "playbook" \in Faults
          /\ machine' \in MachineAfter(o, FALSE)
          /\ Goto(r, "bad")
    /\ UNCHANGED <<redisVars, hstat, istat, ws, sideVars, aged, stranded>>

\* Faulty variant: the deletion goes on when terraform failed.
RecordDeletedAnyway(r) ==
    /\ In(r, {"ok", "bad"})
    /\ req[r].op = "delete"
    /\ hstat' = "absent"
    /\ istat' = NoSnap
    /\ ws' = FALSE
    /\ aged' = FALSE
    /\ stranded' = FALSE
    /\ Goto(r, "finishing")
    /\ UNCHANGED <<redisVars, machine, sideVars>>

\* The row goes, and by cascade the rows of its instances.
RecordDeleted(r) ==
    /\ In(r, {"ok"})
    /\ req[r].op = "delete"
    /\ hstat' = "absent"
    /\ istat' = NoSnap
    /\ ws' = FALSE
    /\ aged' = FALSE
    /\ stranded' = FALSE
    /\ Goto(r, "finishing")
    /\ UNCHANGED <<redisVars, machine, sideVars>>

\* The instances a workshop update has marked.
Marked(r) == {i \in Instances : req[r].snap[i] # "absent"}

\* Every other operation. A re-run goes on to the instances before the host is
\* ACTIVE; a provisioned host is waiting for its setup.
Record(r) ==
    LET o == req[r].op IN
    /\ In(r, {"ok", "bad"})
    /\ o # "delete" \/ In(r, {"bad"})
    /\ ~(o = "rerun" /\ In(r, {"ok"}))
    /\ SetHost(Concludes(o, In(r, {"ok"})))
    /\ req' = [req EXCEPT
          ![r].phase =
              CASE o = "provision" /\ In(r, {"ok"}) /\ hstat # "absent" -> "handoff"
                [] o \in {"workshop", "plugins"} /\ In(r, {"ok"}) -> "settling"
                [] o = "workshop" /\ In(r, {"bad"}) -> "undoing"
                [] OTHER -> "finishing",
          ![r].todo =
              CASE o \in {"workshop", "plugins"} /\ In(r, {"ok"}) -> Present
                [] o = "workshop" /\ In(r, {"bad"}) -> Marked(r)
                [] OTHER -> {}]
    /\ UNCHANGED <<redisVars, istat, cloudVars, sideVars>>

\* The setup job gets the token. Provisioning has still to look whether it
\* keeps the lock for it.
Handoff(r) ==
    /\ In(r, {"handoff"})
    /\ \/ /\ req' = [req EXCEPT ![r].phase = "queued", ![r].op = "setup"]
          /\ tail' = [tail EXCEPT ![r] = "open"]
          /\ UNCHANGED <<hstat, aged, stranded>>
       \/ /\ "enqueue" \in Faults
          /\ SetHost("error")
          /\ Goto(r, "finishing")
          /\ UNCHANGED tail
    /\ UNCHANGED <<redisVars, istat, cloudVars, loose>>

\* Faulty variant: provisioning releases its lock in any case.
TailReleases(r) ==
    /\ tail[r] = "open"
    /\ tail' = [tail EXCEPT ![r] = "none"]
    /\ ReleaseEntity(Host, r)
    /\ UNCHANGED <<hstat, istat, cloudVars, req, loose, aged, stranded>>

\* provision_host's finally: the lock stays while the host waits for setup.
TailReads(r) ==
    /\ tail[r] = "open"
    /\ tail' = [tail EXCEPT ![r] = "none"]
    /\ IF hstat = "pending_setup" THEN UNCHANGED redisVars
       ELSE ReleaseEntity(Host, r)
    /\ UNCHANGED <<hstat, istat, cloudVars, req, loose, aged, stranded>>

\* The provision job dies, or cannot commit its last log line, with the setup
\* job queued or running: it, or the failure handler for it, marks ERROR and
\* releases the lock the setup job relies on.
TailFails(r) ==
    /\ tail[r] = "open"
    /\ \/ "enqueue" \in Faults /\ SetHost("error")
       \/ /\ "crash" \in Faults
          /\ IF hstat \in Transitional THEN SetHost("error")
             ELSE UNCHANGED <<hstat, aged, stranded>>
    /\ tail' = [tail EXCEPT ![r] = "none"]
    /\ ReleaseEntity(Host, r)
    /\ req' = [req EXCEPT ![r].robbed = In(r, HostOwning)]
    /\ UNCHANGED <<istat, cloudVars, loose>>

-----------------------------------------------------------------------------
(* A re-run reconciles the instances from one snapshot of their statuses:  *)
(* a stopped one stays so, any other is restarted.                         *)

Snapshot(r) ==
    /\ In(r, {"ok"})
    /\ req[r].op = "rerun"
    /\ req' = [req EXCEPT ![r].phase = "reconciling", ![r].snap = istat,
                          ![r].todo = Present]
    /\ UNCHANGED <<redisVars, hstat, istat, cloudVars, sideVars, aged, stranded>>

Reconcile(r, i) ==
    /\ In(r, {"reconciling"})
    /\ i \in req[r].todo
    /\ \/ SetInstance(i, IF req[r].snap[i] = "stopped" THEN "stopped" ELSE "settled")
       \/ "playbook" \in Faults /\ SetInstance(i, "settled")
    /\ req' = [req EXCEPT ![r].todo = @ \ {i}]
    /\ UNCHANGED <<redisVars, hstat, cloudVars, sideVars, aged, stranded>>

ReconciledAll(r) ==
    /\ In(r, {"reconciling"})
    /\ req[r].todo = {}
    /\ SetHost("active")
    /\ Forget(r, "finishing")
    /\ UNCHANGED <<redisVars, istat, cloudVars, sideVars>>

-----------------------------------------------------------------------------
(* A workshop update marks every instance CONFIGURING and later writes what *)
(* it had found, or what follows from it; a plugin update marks only those  *)
(* it restarts. Neither holds a lock of an instance.                        *)

Mark(r, i) ==
    /\ In(r, {"marking"})
    /\ i \in req[r].todo
    /\ IF istat[i] = "absent"
       THEN Forget(r, "unwinding") /\ UNCHANGED istat
       ELSE /\ SetInstance(i, "busy")
            /\ req' = [req EXCEPT ![r].todo = @ \ {i}, ![r].snap[i] = istat[i]]
    /\ UNCHANGED <<redisVars, hstat, cloudVars, sideVars, aged, stranded>>

MarkedAll(r) ==
    /\ In(r, {"marking"})
    /\ req[r].todo = {}
    /\ Goto(r, "running")
    /\ UNCHANGED <<redisVars, hstat, istat, cloudVars, sideVars, aged, stranded>>

\* Bound: one unlocked restart per instance at a time.
QueueLoose(i) ==
    loose' = [loose EXCEPT ![i] = IF @ = "none" THEN "queued" ELSE @]

Settle(r, i) ==
    LET found == IF req[r].op = "workshop" THEN req[r].snap[i] ELSE istat[i]
        next == [req EXCEPT ![r].todo = @ \ {i}]
        Leave(s) == SetInstance(i, s) /\ req' = next /\ UNCHANGED <<loose, hstat, aged, stranded>>
    IN
    /\ In(r, {"settling"})
    /\ i \in req[r].todo
    /\ \/ /\ found # "stopped" /\ found # "absent"
          /\ SetInstance(i, "busy")
          /\ QueueLoose(i)
          /\ req' = next
          /\ UNCHANGED <<hstat, aged, stranded>>
       \/ /\ found # "absent"
          /\ Leave(CASE req[r].op = "plugins" -> istat[i]
                     [] found = "stopped" -> "stopped"
                     [] OTHER -> "settled")
       \* An instance that was not there to be marked raises a KeyError.
       \/ /\ found = "absent" /\ req[r].op = "workshop"
          /\ SetHost("error")
          /\ req' = [req EXCEPT ![r].phase = "undoing", ![r].todo = Marked(r)]
          /\ UNCHANGED <<istat, loose>>
       \/ found = "absent" /\ req[r].op = "plugins" /\ Leave("absent")
    /\ UNCHANGED <<redisVars, cloudVars, tail>>

SettledAll(r) ==
    /\ In(r, {"settling"})
    /\ req[r].todo = {}
    /\ Forget(r, "finishing")
    /\ UNCHANGED <<redisVars, hstat, istat, cloudVars, sideVars, aged, stranded>>

Undo(r, i) ==
    /\ In(r, {"undoing"})
    /\ i \in req[r].todo
    /\ SetInstance(i, req[r].snap[i])
    /\ req' = [req EXCEPT ![r].todo = @ \ {i}]
    /\ UNCHANGED <<redisVars, hstat, cloudVars, sideVars, aged, stranded>>

\* The KeyError comes again behind the instances that were marked.
UndoneAll(r) ==
    /\ In(r, {"undoing"})
    /\ req[r].todo = {}
    /\ Forget(r, IF Present \subseteq Marked(r) THEN "finishing" ELSE "unwinding")
    /\ UNCHANGED <<redisVars, hstat, istat, cloudVars, sideVars, aged, stranded>>

\* restart_instance.queue: a restart job with no token and no callback.
LooseStart(i) ==
    /\ loose[i] = "queued"
    /\ FreeWorker
    /\ loose' = [loose EXCEPT ![i] = IF istat[i] = "absent" THEN "none" ELSE "running"]
    /\ SetInstance(i, "busy")
    /\ UNCHANGED <<redisVars, hstat, cloudVars, req, tail, aged, stranded>>

LooseEnd(i) ==
    /\ loose[i] = "running"
    /\ loose' = [loose EXCEPT ![i] = "none"]
    /\ SetInstance(i, "settled")
    /\ UNCHANGED <<redisVars, hstat, cloudVars, req, tail, aged, stranded>>

-----------------------------------------------------------------------------
(* The end of a job.                                                       *)

\* The task's finally: the instances' locks first, then the host's.
Finish(r) ==
    /\ In(r, {"finishing"})
    /\ req[r].held = {}
    /\ ReleaseEntity(Host, r)
    /\ End(r, "done")
    /\ UNCHANGED <<hstat, istat, cloudVars, sideVars, aged, stranded>>

\* The setup job has no failure callback; every other job has.
Dies(r) ==
    IF req[r].op = "setup" THEN End(r, "lost") /\ StrandBy(r)
    ELSE Forget(r, "failed") /\ UNCHANGED stranded

\* Some logics catch whatever is raised while they run, some do not. A lock may
\* be left when it is the release that raises.
JobFails(r) ==
    /\ "raise" \in Faults
    /\ \/ /\ In(r, {"running", "ok", "bad"})
          /\ req[r].op \in {"resize", "timer", "filter", "refresh"}
          /\ Goto(r, "unwinding")
          /\ UNCHANGED stranded
       \/ In(r, {"finishing"}) /\ Dies(r)
    /\ UNCHANGED <<redisVars, hstat, aged, istat, cloudVars, sideVars>>

\* The finally of the task comes before the failure handler.
Unwound(r) ==
    /\ In(r, {"unwinding"})
    /\ req[r].held = {}
    /\ ReleaseEntity(Host, r)
    /\ Goto(r, "failed")
    /\ UNCHANGED <<hstat, istat, cloudVars, sideVars, aged, stranded>>

WorkerCrash(r) ==
    /\ "crash" \in Faults
    /\ In(r, InWorker)
    /\ machine' \in IF In(r, {"running"}) THEN MachineAfter(req[r].op, FALSE)
                    ELSE {machine}
    /\ Dies(r)
    /\ UNCHANGED <<redisVars, hstat, aged, istat, ws, sideVars>>

\* host_job_failure_handler. It does not ask who holds the lock now.
HandlerReads(r) ==
    /\ In(r, {"failed"})
    /\ IF hstat = "absent" THEN End(r, "gone")
       ELSE req' = [req EXCEPT ![r].phase = "handling", ![r].seen = hstat]
    /\ UNCHANGED <<redisVars, hstat, istat, cloudVars, sideVars, aged, stranded>>

\* Faulty variant: the handler overlooks CONFIGURING.
HandlerWritesSome(r) ==
    /\ In(r, {"handling"})
    /\ IF req[r].seen \in Transitional \ {"configuring"} THEN SetHost("error")
       ELSE UNCHANGED <<hstat, aged, stranded>>
    /\ IF req[r].seen \in Transitional /\ hstat = "absent" THEN End(r, "gone")
       ELSE Goto(r, "cleanup")
    /\ UNCHANGED <<redisVars, istat, cloudVars, sideVars>>

HandlerWrites(r) ==
    /\ In(r, {"handling"})
    /\ IF req[r].seen \in Transitional THEN SetHost("error")
       ELSE UNCHANGED <<hstat, aged, stranded>>
    /\ IF req[r].seen \in Transitional /\ hstat = "absent" THEN End(r, "gone")
       ELSE Goto(r, "cleanup")
    /\ UNCHANGED <<redisVars, istat, cloudVars, sideVars>>

-----------------------------------------------------------------------------
(* Operations on an instance, as far as the host is concerned.             *)

IAdmits(o, i) ==
    /\ hstat \notin {"absent", "configuring"}
    /\ CASE o = "create" -> istat[i] = "absent" /\ hstat = "active"
         [] o = "change" -> istat[i] # "absent"
         [] o = "remove" -> istat[i] \notin {"absent", "deleting"}

ICheck(r, o, i) ==
    /\ Fresh(r)
    /\ IAdmits(o, i)
    /\ req' = [req EXCEPT ![r] = [NoRequest EXCEPT
          !.phase = IF o = "create" THEN "iadmitted" ELSE "ichecked",
          !.op = o, !.inst = i]]
    /\ UNCHANGED <<redisVars, hstat, istat, cloudVars, sideVars, aged, stranded>>

\* The row of a new instance comes after the configuration was validated; the
\* host's status is not looked at again.
IInsert(r) ==
    /\ In(r, {"iadmitted"})
    /\ IF istat[req[r].inst] = "absent"
       THEN /\ istat' = [istat EXCEPT ![req[r].inst] = "settled"]
            /\ Goto(r, "ichecked")
       ELSE End(r, "done") /\ UNCHANGED istat
    /\ UNCHANGED <<redisVars, hstat, cloudVars, sideVars, aged, stranded>>

IAcquire(r) ==
    /\ In(r, {"ichecked"})
    /\ AcquireEntity(req[r].inst, r)
    /\ Goto(r, "ilocked")
    /\ UNCHANGED <<hstat, istat, cloudVars, sideVars, aged, stranded>>

IRefused(r) ==
    /\ In(r, {"ichecked"})
    /\ EntityRefused(req[r].inst)
    /\ End(r, "done")
    /\ UNCHANGED <<hstat, istat, cloudVars, sideVars, aged, stranded>>

ICommit(r) ==
    LET i == req[r].inst IN
    /\ In(r, {"ilocked"})
    /\ IF istat[i] = "absent"
       THEN Goto(r, "ifinishing")
       ELSE Goto(r, "iworking")
    /\ SetInstance(i, IF req[r].op = "remove" THEN "deleting" ELSE "busy")
    /\ UNCHANGED <<redisVars, hstat, cloudVars, sideVars, aged, stranded>>

IRecord(r) ==
    /\ In(r, {"iworking"})
    /\ \E s \in IF req[r].op = "remove" THEN {"absent"}
                ELSE {"settled", "stopped"} : SetInstance(req[r].inst, s)
    /\ Goto(r, "ifinishing")
    /\ UNCHANGED <<redisVars, hstat, cloudVars, sideVars, aged, stranded>>

IFinish(r) ==
    /\ In(r, {"ifinishing"})
    /\ ReleaseEntity(req[r].inst, r)
    /\ End(r, "done")
    /\ UNCHANGED <<hstat, istat, cloudVars, sideVars, aged, stranded>>

-----------------------------------------------------------------------------
(* Expiry and specification.                                               *)

\* The locks a request relies on. One whose lock was taken from it while it
\* worked, by the failing provision job behind it (TailFails) or by a deletion
\* that had found the host stuck (ForceRelease), is not counted for the host:
\* these two are known gaps, not promises.
Holds(r) ==
    CASE In(r, HostOwning) ->
            (IF req[r].robbed THEN {} ELSE {Host}) \cup req[r].held
      [] In(r, InstanceOwning) -> {req[r].inst}
      [] OTHER -> {}

Expire(e) ==
    /\ \E r \in Token :
          /\ lock[e] = r
          /\ e \in Holds(r) \/ In(r, {"failed", "handling"}) => "delay" \in Faults
    /\ ExpireEntity(e)
    /\ UNCHANGED <<hstat, istat, cloudVars, req, sideVars, aged, stranded>>

Admission == \E r \in Token :
    \/ \E o \in Ops : Check(r, o)
    \/ \E o \in InstanceOp, i \in Instances : ICheck(r, o, i)

RouteStep(r) ==
    \/ ForceRelease(r) \/ Acquire(r) \/ Refused(r) \/ Commit(r)
    \/ List(r) \/ (\E i \in Instances : Take(r, i) \/ TakeRefused(r, i)) \/ TakenAll(r)
    \/ ReleaseHeld(r) \/ BackedOff(r) \/ Revert(r) \/ Unlock(r)
    \/ Enqueue(r) \/ EnqueueFails(r) \/ Drop(r)

JobStep(r) ==
    \/ Start(r) \/ RecordWorkspace(r) \/ Run(r) \/ RecordDeleted(r) \/ Record(r)
    \/ Handoff(r) \/ TailReads(r)
    \/ Snapshot(r) \/ (\E i \in Instances : Reconcile(r, i)) \/ ReconciledAll(r)
    \/ (\E i \in Instances : Mark(r, i) \/ Settle(r, i) \/ Undo(r, i))
    \/ MarkedAll(r) \/ SettledAll(r) \/ UndoneAll(r)
    \/ Finish(r) \/ Unwound(r) \/ HandlerReads(r) \/ HandlerWrites(r)

InstanceStep(r) ==
    \/ IInsert(r) \/ IAcquire(r) \/ IRefused(r) \/ ICommit(r) \/ IRecord(r) \/ IFinish(r)

LooseStep(i) == LooseStart(i) \/ LooseEnd(i)

Disturbance(r) ==
    \/ WebCrash(r) \/ TailFails(r) \/ JobFails(r) \/ WorkerCrash(r)

Next ==
    \/ Admission \/ Age
    \/ \E r \in Token : RouteStep(r) \/ JobStep(r) \/ InstanceStep(r) \/ Disturbance(r)
    \/ \E i \in Instances : LooseStep(i)
    \/ \E e \in Entity : Expire(e)

Spec == Init /\ [][Next]_vars

\* Requests run on, workers are restarted and end every job within its
\* timeout, RQ calls the handlers, Redis expires keys.
Fairness ==
    /\ \A r \in Token : WF_vars(RouteStep(r)) /\ WF_vars(JobStep(r))
                        /\ WF_vars(InstanceStep(r))
    /\ \A i \in Instances : WF_vars(LooseStep(i))
    /\ \A e \in Entity : WF_vars(Expire(e))

FairSpec == Spec /\ Fairness

-----------------------------------------------------------------------------
(* Properties.                                                             *)

Exclusion == INSTANCE EntityExclusion WITH
    Op <- Token, working <- [r \in Token |-> Holds(r)], backups <- {}

\* The work the routes and jobs do under the locks is what the locks promise
\* (task_lock.py:3-6): one operation at a time on the host and on each
\* instance, through re-runs that take several locks, a provision job that
\* hands its lock over, and forced releases of the locks of dead jobs. (A
\* request that is robbed of the host's lock is not counted for it, see Holds.)
OneAtATime == Exclusion!Spec

\* While an operation works, the keys it relies on are there and are its own:
\* the handover from provision to setup leaves no gap (tasks.py:106-128), and
\* no finally, handler or route of another operation deletes them, but for the
\* failing provision job of TailFails and a deletion that found the host stuck.
HoldersLocked ==
    \A r \in Token : \A e \in Holds(r) : lock[e] = r

\* An operation that ended in an orderly way, with success or not, has given
\* back every lock it took (host_routes.py:1293-1321, tasks.py:418-462,
\* job_failure_handlers.py:127-165).
LocksReturned ==
    \A r \in Token : In(r, {"done"}) /\ tail[r] # "open" =>
        \A e \in Entity : lock[e] # r

\* A host whose row is gone leaves no cloud machine running that nobody sees
\* and somebody pays (terraform_destroy.py:34-228): the row goes only after
\* terraform destroyed what any earlier, even a failed or killed, provision
\* or resize may have built. (TLC refutes it with the fault "mistaken".)
NoOrphanMachine == hstat = "absent" => ~machine

\* A host does not stay in a transitional status: its job ends it, the failure
\* handler marks it ERROR, or the process that should have done so is gone
\* (and then nothing but a deletion helps).
HostSettles ==
    (hstat \in Transitional /\ ~stranded) ~> (hstat \notin Transitional \/ stranded)

\* A lock is released by force only when nobody works under it
\* (task_lock.py:243: "only ... when the lock is known to be stale").
\* TLC refutes it with Ops = {"resize", "delete"} and Faults = {"webcrash"}: two
\* deletions that both read the row of a stuck host; see README.md.
NobodyRobbed == \A r \in Token : ~req[r].robbed
=============================================================================
