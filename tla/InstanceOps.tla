----------------------------- MODULE InstanceOps -----------------------------
(***************************************************************************)
(* The life of an instance operation: an HTTP request checks the           *)
(* instance's status, takes its lock, commits a transitional status and    *)
(* enqueues an RQ job; a worker runs the job's playbook and records the    *)
(* outcome; failure handlers and the poller pick up what died on the way.  *)
(* Web threads, workers, the poller and backups interleave at every        *)
(* database commit and Redis call.                                         *)
(*                                                                         *)
(* A request, its lock token and its job are one thing here: the route     *)
(* makes one uuid4, and enqueues at most one job that carries it.          *)
(***************************************************************************)
EXTENDS RedisLock, Naturals, Sequences, FiniteSets

CONSTANTS Workers,  \* number of RQ worker processes
          Ops,      \* the operations users ask for
          LanHook,  \* TRUE: the host's lan rate is applied through a hook
          Faults    \* what may go wrong, see FaultKinds

AllOps == {"deploy", "restart", "stop", "start", "config", "lan", "delete"}

FaultKinds ==
    {"playbook",   \* ansible-playbook returns non-zero
     "timeout",    \* the job exceeds its RQ timeout
     "exception",  \* the task logic raises
     "crash",      \* a worker dies
     "webcrash",   \* the web process dies in a request
     "invalid",    \* a config request is rejected after it got its lock
     "enqueue",    \* a route's preparation, commit or enqueue raises
     "delay"}      \* a lock's TTL runs out before its job ends

ASSUME InstanceOpsAssumption ==
    /\ Workers \in Nat \ {0}
    /\ Ops \in SUBSET AllOps
    /\ LanHook \in BOOLEAN
    /\ Faults \in SUBSET FaultKinds

VARIABLES status,   \* QLInstance.status, "absent" when there is no row
          svc,      \* the systemd unit on the game host
          req,      \* the requests and their jobs
          queue,    \* the RQ queue
          rec,      \* recoveries of interrupted jobs in flight
          tainted   \* history: instances some racing write-back has touched

vars == <<lock, index, maint, status, svc, req, queue, rec, tainted>>
hostVars == <<svc, queue, rec>>

-----------------------------------------------------------------------------
(* Status vocabulary (ui/models.py).                                       *)

Transitional == {"deploying", "configuring", "restarting", "starting",
                 "stopping", "deleting"}
ProbeStatuses == Transitional \ {"deploying", "deleting"}
Settled == {"idle", "running", "stopped", "updated", "error"}
Status == Transitional \cup Settled \cup {"absent"}

\* The status an operation shows while it is in progress.
Busy(o) ==
    CASE o = "deploy" -> "deploying"
      [] o = "restart" -> "restarting"
      [] o = "stop" -> "stopping"
      [] o = "start" -> "starting"
      [] o = "delete" -> "deleting"
      [] OTHER -> "configuring"

\* The status after a playbook that returned 0.
Outcome(o, restart, original) ==
    CASE o = "stop" -> "stopped"
      [] o = "config" /\ ~restart ->
            IF original = "stopped" THEN "stopped" ELSE "updated"
      [] OTHER -> "running"

\* What a playbook leaves the unit as: on success, and when it was cut short.
Effect(o, restart, s) ==
    CASE o \in {"stop", "delete"} -> "inactive"
      [] o = "config" /\ ~restart -> s
      [] OTHER -> "active"

PartialEffect(o, restart, s) == {s, Effect(o, restart, s)}

-----------------------------------------------------------------------------
(* Types.                                                                  *)

Phase == {"new", "checked", "locked", "committed", "unlock", "undo", "drop",
          "queued", "started", "ansible", "ok", "bad", "cut", "finishing",
          "failed", "handling", "dead", "abandoned", "gone", "done", "backup"}

Request == [phase : Phase, op : AllOps \cup {"hooks", "none"},
            inst : Entity \cup {None}, seen : Status, restart : BOOLEAN]

NoRequest == [phase |-> "new", op |-> "none", inst |-> None,
              seen |-> "absent", restart |-> FALSE]

\* Who recovers an interrupted job: the poller's reconcile_stale_instance_jobs
\* and RQ's callback for an abandoned job.
Agent == {"poller", "rq"}

Recovery == [req : Token \cup {None}, inst : Entity \cup {None},
             to : Settled \cup {"unprobed", "nothing"}]

NoRecovery == [req |-> None, inst |-> None, to |-> "nothing"]

TypeOK ==
    /\ RedisTypeOK
    /\ status \in [Entity -> Status]
    /\ svc \in [Entity -> {"active", "inactive"}]
    /\ req \in [Token -> Request]
    /\ queue \in Seq(Token)
    /\ rec \in [Agent -> Recovery]
    /\ tainted \in SUBSET Entity

Init ==
    /\ RedisInit
    /\ status \in [Entity -> {"absent", "running", "stopped"}]
    /\ svc = [i \in Entity |->
                 IF status[i] = "running" THEN "active" ELSE "inactive"]
    /\ req = [r \in Token |-> NoRequest]
    /\ queue = <<>>
    /\ rec = [a \in Agent |-> NoRecovery]
    /\ tainted = {}

Goto(r, p) == req' = [req EXCEPT ![r].phase = p]
End(r, p) == req' = [req EXCEPT ![r] = [NoRequest EXCEPT !.phase = p]]

\* An UPDATE by primary key. A deleted row matches nothing and the session
\* raises StaleDataError, which every writer below catches and logs.
SetStatus(i, s) ==
    status' = [status EXCEPT ![i] = IF @ = "absent" THEN @ ELSE s]

In(r, P) == req[r].phase \in P

-----------------------------------------------------------------------------
(* The routes (ui/routes/instance_routes.py).                              *)

\* The status check each route makes before it asks for the lock.
Admits(o, s) ==
    CASE o = "deploy" -> s = "absent"
      [] o = "config" -> s # "absent"
      [] o = "delete" -> s \notin {"absent", "deleting", "configuring"}
      [] o = "stop" -> s \in Settled \ {"stopped"}
      [] o = "start" -> s \in Settled \ {"running", "updated"}
      [] OTHER -> s \in Settled

\* Only config and lan-rate use the status read here again.
Check(r, o, i, restart) ==
    /\ In(r, {"new"})
    /\ Admits(o, status[i])
    /\ restart => o = "config"
    /\ req' = [req EXCEPT ![r] =
                  [phase |-> "checked", op |-> o, inst |-> i,
                   seen |-> IF o \in {"config", "lan"} THEN status[i] ELSE "absent",
                   restart |-> restart]]
    /\ status' = [status EXCEPT ![i] = IF o = "deploy" THEN "idle" ELSE @]
    /\ UNCHANGED <<redisVars, hostVars, tainted>>

\* Somebody is about to write i's status from what it read earlier.
WriteBackPending(i) ==
    \/ \E a \in Agent : rec[a].inst = i
    \/ \E s \in Token : In(s, {"undo"}) /\ req[s].inst = i

TaintIf(c, i) == tainted' = IF c THEN tainted \cup {i} ELSE tainted

\* The status was written since r read it.
Stale(r) ==
    /\ req[r].op \in {"config", "lan"}
    /\ req[r].seen # status[req[r].inst]

Acquire(r) ==
    /\ In(r, {"checked"})
    /\ AcquireEntity(req[r].inst, r)
    /\ Goto(r, "locked")
    /\ TaintIf(WriteBackPending(req[r].inst), req[r].inst)
    /\ UNCHANGED <<status, hostVars>>

\* 409. A refused deploy leaves its row behind, IDLE.
Refused(r) ==
    /\ In(r, {"checked"})
    /\ EntityRefused(req[r].inst)
    /\ End(r, "done")
    /\ UNCHANGED <<status, hostVars, tainted>>

\* An attribute set to the value it was loaded with is not written.
Commit(r) ==
    LET i == req[r].inst  o == req[r].op IN
    /\ In(r, {"locked"})
    /\ status[i] # "absent"
    /\ IF o = "config" /\ req[r].seen = Busy(o)
       THEN UNCHANGED status
       ELSE SetStatus(i, Busy(o))
    /\ TaintIf(Stale(r), i)
    /\ Goto(r, "committed")
    /\ UNCHANGED <<redisVars, hostVars>>

\* The transitional status is not committed: the row went meanwhile, a config
\* request turned out invalid, or the commit raised. deploy and
\* lan-rate compensate, if the session still can.
CommitFails(r) ==
    LET i == req[r].inst  o == req[r].op IN
    /\ In(r, {"locked"})
    /\ \/ status[i] = "absent"
       \/ "enqueue" \in Faults
       \/ "invalid" \in Faults /\ o = "config"
    /\ ReleaseEntity(i, r)
    /\ \/ End(r, "done") /\ o # "deploy"
       \/ Goto(r, "undo") /\ o \in {"deploy", "lan"}
       \/ Goto(r, "drop") /\ o = "deploy"
    /\ TaintIf(Stale(r), i)
    /\ UNCHANGED <<status, hostVars>>

\* A deploy that fails before it asks for the lock drops its row, too.
PrepareFails(r) ==
    /\ "enqueue" \in Faults
    /\ In(r, {"checked"})
    /\ req[r].op = "deploy"
    /\ Goto(r, "drop")
    /\ UNCHANGED <<redisVars, status, hostVars, tainted>>

Enqueue(r) ==
    /\ In(r, {"committed"})
    /\ queue' = Append(queue, r)
    /\ req' = [req EXCEPT ![r].phase = "queued",
                          ![r].seen = IF req[r].op = "config" THEN @ ELSE "absent"]
    /\ UNCHANGED <<redisVars, status, svc, rec, tainted>>

\* Each route compensates in its own way: config marks ERROR and then
\* releases; the others release first; restart, stop, start and delete leave
\* the transitional status as it is.
EnqueueFails(r) ==
    LET i == req[r].inst  o == req[r].op IN
    /\ "enqueue" \in Faults
    /\ In(r, {"committed"})
    /\ \/ /\ o = "config"
          /\ SetStatus(i, "error")
          /\ Goto(r, "unlock")
          /\ UNCHANGED redisVars
       \/ /\ o \in {"deploy", "lan"}
          /\ ReleaseEntity(i, r)
          /\ Goto(r, "undo")
          /\ UNCHANGED status
       \/ /\ o \notin {"config", "deploy", "lan"}
          /\ ReleaseEntity(i, r)
          /\ End(r, "done")
          /\ UNCHANGED status
    /\ UNCHANGED <<hostVars, tainted>>

Unlock(r) ==
    /\ In(r, {"unlock"})
    /\ ReleaseEntity(req[r].inst, r)
    /\ End(r, "done")
    /\ UNCHANGED <<status, hostVars, tainted>>

\* deploy: IDLE, then the row is deleted. lan-rate: RUNNING, whatever it was.
Undo(r) ==
    LET i == req[r].inst IN
    /\ In(r, {"undo"})
    /\ \/ /\ req[r].op = "deploy"
          /\ SetStatus(i, "idle")
          /\ Goto(r, "drop")
          /\ UNCHANGED tainted
       \/ /\ req[r].op = "lan"
          /\ SetStatus(i, "running")
          /\ End(r, "done")
          /\ TaintIf(req[r].seen # "running", i)
    /\ UNCHANGED <<redisVars, hostVars>>

Drop(r) ==
    /\ In(r, {"drop"})
    /\ status' = [status EXCEPT ![req[r].inst] = "absent"]
    /\ End(r, "done")
    /\ UNCHANGED <<redisVars, hostVars, tainted>>

\* The web process dies. Nothing looks for the request again.
WebCrash(r) ==
    /\ "webcrash" \in Faults
    /\ In(r, {"checked", "locked", "committed", "unlock", "undo", "drop",
              "backup"})
    /\ End(r, "gone")
    /\ UNCHANGED <<redisVars, status, hostVars, tainted>>

-----------------------------------------------------------------------------
(* The worker (ui/tasks.py, ui/task_logic/ansible_instance_mgmt.py).       *)

InWorker == {"started", "ansible", "ok", "bad", "cut", "finishing", "failed",
             "handling"}

\* A free worker pops the head of the queue.
Pop(r) ==
    /\ In(r, {"queued"})
    /\ queue # <<>>
    /\ Head(queue) = r
    /\ Cardinality({s \in Token : In(s, InWorker)}) < Workers
    /\ queue' = Tail(queue)
    /\ Goto(r, "started")
    /\ UNCHANGED <<redisVars, status, svc, rec, tainted>>

\* The task shows its transitional status; delete leaves the route's. A
\* lan-rate job on a hook host hands over to apply_instance_hooks_logic.
Begin(r) ==
    LET i == req[r].inst  o == req[r].op IN
    /\ In(r, {"started"})
    /\ \/ /\ status[i] = "absent"
          /\ Goto(r, "finishing")
          /\ UNCHANGED status
       \/ /\ status[i] # "absent"
          /\ IF o = "delete" THEN UNCHANGED status ELSE SetStatus(i, Busy(o))
          /\ req' = [req EXCEPT ![r].phase = "ansible",
                                ![r].op = IF o = "lan" /\ LanHook
                                          THEN "hooks" ELSE @]
    /\ UNCHANGED <<redisVars, hostVars, tainted>>

\* The playbook ends with 0 ("ok") or not ("bad"), or the job's timeout fires
\* while it runs: _run_ansible_playbook catches that and returns an error
\* message instead of a result ("cut").
Playbook(r) ==
    LET i == req[r].inst
        Ran(p, S) == /\ \E s \in S : svc' = [svc EXCEPT ![i] = s]
                     /\ Goto(r, p)
        part == PartialEffect(req[r].op, req[r].restart, svc[i])
    IN
    /\ In(r, {"ansible"})
    /\ \/ Ran("ok", {Effect(req[r].op, req[r].restart, svc[i])})
       \/ "playbook" \in Faults /\ Ran("bad", part)
       \/ "timeout" \in Faults /\ Ran("cut", part)
    /\ UNCHANGED <<redisVars, status, queue, rec, tainted>>

\* A deployed instance on a hook host goes straight on to its hooks.
RecordOk(r) ==
    LET i == req[r].inst  o == req[r].op IN
    /\ In(r, {"ok"})
    /\ o # "delete"
    /\ SetStatus(i, Outcome(o, req[r].restart, req[r].seen))
    /\ IF o = "deploy" /\ LanHook /\ status[i] # "absent"
       THEN req' = [req EXCEPT ![r].phase = "started", ![r].op = "hooks"]
       ELSE Goto(r, "finishing")
    /\ UNCHANGED <<redisVars, hostVars, tainted>>

RecordFailed(r) ==
    /\ In(r, {"bad"})
    /\ req[r].op # "delete"
    /\ SetStatus(req[r].inst, "error")
    /\ Goto(r, "finishing")
    /\ UNCHANGED <<redisVars, hostVars, tainted>>

\* An error message instead of a result: hooks record ERROR, every other task
\* returns and leaves the status transitional.
RecordCut(r) ==
    /\ In(r, {"cut"})
    /\ req[r].op # "delete"
    /\ IF req[r].op = "hooks" THEN SetStatus(req[r].inst, "error")
       ELSE UNCHANGED status
    /\ Goto(r, "finishing")
    /\ UNCHANGED <<redisVars, hostVars, tainted>>

\* delete cleans up whatever the playbook said.
RecordDeleted(r) ==
    /\ In(r, {"ok", "bad", "cut"})
    /\ req[r].op = "delete"
    /\ status' = [status EXCEPT ![req[r].inst] = "absent"]
    /\ Goto(r, "finishing")
    /\ UNCHANGED <<redisVars, hostVars, tainted>>

\* The task logic's own except clause: ERROR, but a DELETING row stays so.
Raise(r) ==
    LET i == req[r].inst IN
    /\ "exception" \in Faults
    /\ In(r, {"ansible", "ok", "bad", "cut"})
    /\ IF req[r].op = "delete" /\ status[i] = "deleting" THEN UNCHANGED status
       ELSE SetStatus(i, "error")
    /\ Goto(r, "finishing")
    /\ UNCHANGED <<redisVars, hostVars, tainted>>

\* The task's finally.
Finish(r) ==
    /\ In(r, {"finishing"})
    /\ ReleaseEntity(req[r].inst, r)
    /\ End(r, "done")
    /\ UNCHANGED <<status, hostVars, tainted>>

\* The timeout fires outside the logic's try: before it, or in the finally
\* with the lock released or not. RQ then calls the failure handler.
JobFails(r) ==
    /\ "timeout" \in Faults
    /\ In(r, {"started", "finishing"})
    /\ req[r].op # "hooks" \/ In(r, {"finishing"})
    /\ \/ UNCHANGED redisVars
       \/ In(r, {"finishing"}) /\ ReleaseEntity(req[r].inst, r)
    /\ Goto(r, "failed")
    /\ UNCHANGED <<status, hostVars, tainted>>

\* The worker is killed. Its playbook may have got anywhere.
WorkerCrash(r) ==
    /\ "crash" \in Faults
    /\ In(r, InWorker)
    /\ \E s \in IF In(r, {"ansible"})
                THEN PartialEffect(req[r].op, req[r].restart, svc[req[r].inst])
                ELSE {svc[req[r].inst]} :
          svc' = [svc EXCEPT ![req[r].inst] = s]
    /\ req' = [req EXCEPT ![r] = [NoRequest EXCEPT !.phase = "dead",
                                                   !.inst = req[r].inst]]
    /\ UNCHANGED <<redisVars, status, queue, rec, tainted>>

-----------------------------------------------------------------------------
(* instance_job_failure_handler, for a job that raised.                    *)

HandlerReads(r) ==
    LET i == req[r].inst IN
    /\ In(r, {"failed"})
    /\ IF status[i] = "absent" \/ Superseded(i, r)
       THEN End(r, "done")
       ELSE req' = [req EXCEPT ![r].phase = "handling", ![r].seen = status[i]]
    /\ UNCHANGED <<redisVars, status, hostVars, tainted>>

HandlerWrites(r) ==
    LET i == req[r].inst IN
    /\ In(r, {"handling"})
    /\ IF req[r].seen \in Transitional THEN SetStatus(i, "error")
       ELSE UNCHANGED status
    /\ IF req[r].seen \in Transitional /\ status[i] = "absent"
       THEN UNCHANGED redisVars
       ELSE ReleaseEntity(i, r)
    /\ End(r, "done")
    /\ UNCHANGED <<hostVars, tainted>>

-----------------------------------------------------------------------------
(* recover_interrupted_instance, for a job whose worker died: called by    *)
(* the poller while the job sits in the started registry, and by RQ's      *)
(* failure callback, once, when it declares the job abandoned.             *)

\* Faulty variant: recovery does not ask whether the lock was superseded.
NeedsRecoveryUnchecked(i, r) == status[i] \in Transitional

\* Faulty variant: only what can be probed is recovered.
NeedsRecoveryProbeOnly(i, r) ==
    /\ status[i] \in ProbeStatuses
    /\ ~Superseded(i, r)

\* The instance is in a transitional status and no newer operation owns it.
NeedsRecovery(i, r) ==
    /\ status[i] \in Transitional
    /\ ~Superseded(i, r)

RecoverReads(a, r) ==
    LET i == req[r].inst IN
    /\ In(r, {"dead"})
    /\ rec[a] = NoRecovery
    /\ IF NeedsRecovery(i, r)
       THEN /\ rec' = [rec EXCEPT ![a] =
                  [req |-> r, inst |-> i,
                   to |-> IF status[i] \in ProbeStatuses
                          THEN "unprobed" ELSE "error"]]
            /\ IF a = "rq" THEN Goto(r, "abandoned") ELSE UNCHANGED req
       ELSE /\ a = "rq"
            /\ End(r, "done")
            /\ UNCHANGED rec
    /\ UNCHANGED <<redisVars, status, svc, queue, tainted>>

\* Faulty variant: the unit's state is taken for a status.
RecoverProbesRaw(a) ==
    /\ rec[a].to = "unprobed"
    /\ rec' = [rec EXCEPT ![a].to = svc[rec[a].inst]]
    /\ UNCHANGED <<redisVars, status, svc, req, queue, tainted>>

\* The SSH probe: active, inactive, or nothing could be learnt.
RecoverProbes(a) ==
    /\ rec[a].to = "unprobed"
    /\ \E found \in {"error", IF svc[rec[a].inst] = "active"
                              THEN "running" ELSE "stopped"} :
          rec' = [rec EXCEPT ![a].to = found]
    /\ UNCHANGED <<redisVars, status, svc, req, queue, tainted>>

RecoverWrites(a) ==
    LET r == rec[a].req  i == rec[a].inst IN
    /\ rec[a].to \in Settled
    /\ SetStatus(i, rec[a].to)
    /\ IF status[i] = "absent" THEN UNCHANGED redisVars ELSE ReleaseEntity(i, r)
    /\ rec' = [rec EXCEPT ![a] = NoRecovery]
    /\ IF a = "rq" THEN End(r, "done") ELSE UNCHANGED req
    /\ UNCHANGED <<svc, queue, tainted>>

-----------------------------------------------------------------------------
(* Backups, the poller's promotion, expiry.                                *)

BackupBegins(r) ==
    /\ In(r, {"new"})
    /\ AcquireMaint(r)
    /\ Goto(r, "backup")
    /\ UNCHANGED <<status, hostVars, tainted>>

BackupRefused(r) ==
    /\ In(r, {"new"})
    /\ MaintRefused
    /\ End(r, "done")
    /\ UNCHANGED <<status, hostVars, tainted>>

BackupEnds(r) ==
    /\ In(r, {"backup"})
    /\ ReleaseMaint(r)
    /\ End(r, "done")
    /\ UNCHANGED <<status, hostVars, tainted>>

\* The poller saw a new process of an UPDATED instance. Its write is
\* conditional on the status and the baseline it read.
Promote(i) ==
    /\ status[i] = "updated"
    /\ svc[i] = "active"
    /\ SetStatus(i, "running")
    /\ UNCHANGED <<redisVars, hostVars, req, tainted>>

\* The phases in which a request relies on its lock.
Owning == {"locked", "committed", "unlock", "queued", "started", "ansible",
           "ok", "bad", "cut", "finishing"}
Working == {"started", "ansible", "ok", "bad", "cut", "finishing"}

\* TTLs outlast a route, and the job timeout by a minute or so; with "delay"
\* a job may also wait in the queue, or run, until its lock is gone.
Expire(i) ==
    /\ \E r \in Token :
          /\ lock[i] = r
          /\ In(r, Owning) => "delay" \in Faults /\ In(r, Working \cup {"queued"})
    /\ ExpireEntity(i)
    /\ UNCHANGED <<status, req, hostVars, tainted>>

ExpireMaintenance ==
    /\ \E r \in Token : maint = r /\ ~In(r, {"backup"})
    /\ ExpireMaint
    /\ UNCHANGED <<status, req, hostVars, tainted>>

\* A new request, with a token nothing remembers.
Recycle(r) ==
    /\ In(r, {"done", "gone"})
    /\ maint # r
    /\ \A i \in Entity : lock[i] # r
    /\ \A a \in Agent : rec[a].req # r
    /\ req' = [req EXCEPT ![r] = NoRequest]
    /\ UNCHANGED <<redisVars, status, hostVars, tainted>>

-----------------------------------------------------------------------------

RouteStep(r) ==
    \/ \E o \in Ops, i \in Entity, restart \in BOOLEAN : Check(r, o, i, restart)
    \/ Acquire(r) \/ Refused(r) \/ Commit(r) \/ CommitFails(r)
    \/ PrepareFails(r) \/ Enqueue(r) \/ EnqueueFails(r) \/ Unlock(r) \/ Undo(r) \/ Drop(r)
    \/ WebCrash(r)

JobStep(r) ==
    \/ Pop(r) \/ Begin(r) \/ Playbook(r)
    \/ RecordOk(r) \/ RecordFailed(r) \/ RecordCut(r) \/ RecordDeleted(r)
    \/ Raise(r) \/ Finish(r) \/ JobFails(r) \/ WorkerCrash(r)
    \/ HandlerReads(r) \/ HandlerWrites(r)

RecoveryStep(a) ==
    \/ \E r \in Token : RecoverReads(a, r)
    \/ RecoverProbes(a)
    \/ RecoverWrites(a)

OtherStep ==
    \/ \E r \in Token : BackupBegins(r) \/ BackupRefused(r) \/ BackupEnds(r)
                        \/ Recycle(r)
    \/ \E i \in Entity : Promote(i) \/ Expire(i)
    \/ ExpireMaintenance

Next ==
    \/ \E r \in Token : RouteStep(r) \/ JobStep(r)
    \/ \E a \in Agent : RecoveryStep(a)
    \/ OtherStep

Spec == Init /\ [][Next]_vars

RouteProgress(r) ==
    \/ Acquire(r) \/ Refused(r) \/ Commit(r) \/ CommitFails(r)
    \/ Enqueue(r) \/ Unlock(r) \/ Undo(r) \/ Drop(r)

JobProgress(r) ==
    \/ Pop(r) \/ Begin(r) \/ Playbook(r)
    \/ RecordOk(r) \/ RecordFailed(r) \/ RecordCut(r) \/ RecordDeleted(r)
    \/ Finish(r) \/ HandlerReads(r) \/ HandlerWrites(r)

\* Admitted requests run on, RQ workers are restarted by the container
\* runtime and every job ends within its timeout, the poller polls every 15
\* seconds and RQ sweeps its registry, Redis expires keys.
Fairness ==
    /\ \A r \in Token : WF_vars(RouteProgress(r)) /\ WF_vars(JobProgress(r))
    /\ \A a \in Agent : WF_vars(RecoveryStep(a))
    /\ \A i \in Entity : WF_vars(Expire(i))

FairSpec == Spec /\ Fairness

-----------------------------------------------------------------------------
(* Properties.                                                             *)

\* From the moment a route got the lock until the task's finally, the
\* operation's token is the value of the key: no other job's release, failure
\* handler or recovery takes it away. (With "delay" the TTL can.)
OwnerHoldsLock ==
    "delay" \notin Faults =>
        \A r \in Token :
            /\ In(r, Owning) => lock[req[r].inst] = r
            /\ In(r, {"backup"}) => maint = r

\* One operation per instance, and a backup alone (task_lock.py:3-6): the
\* promise of EntityExclusion.
Exclusion == INSTANCE EntityExclusion
    WITH Op <- Token,
         working <- [r \in Token |-> IF In(r, Owning) THEN {req[r].inst} ELSE {}],
         backups <- {r \in Token : In(r, {"backup"})}

ExclusionSpec == Exclusion!Spec

\* A backup never runs while a task does (task_lock.py:13-15). TLC refutes it
\* when jobs may be late, Faults = {"delay"}: see the README.
BackupAlone ==
    \A b, r \in Token : In(b, {"backup"}) => ~In(r, Working)

\* Nobody has anything left to do on i.
Quiet(i) ==
    /\ \A r \in Token : req[r].inst # i
    /\ \A a \in Agent : rec[a].inst # i

\* What the user sees is true: when nothing is in flight on an instance, a
\* RUNNING one runs and a STOPPED one does not, whatever crashed, timed out,
\* failed or was recovered before. Three races are the only exceptions, and
\* they mark the instance: a config or lan-rate request that committed over a
\* status newer than the one it had read, an operation admitted while a
\* recovery or a compensation was about to write, and the lan-rate
\* compensation of an instance that was not RUNNING.
StatusTruth ==
    \A i \in Entity \ tainted : Quiet(i) =>
        /\ status[i] = "running" => svc[i] = "active"
        /\ status[i] = "stopped" => svc[i] = "inactive"

\* No instance is "stuck in transitional states" (job_failure_handlers.py:4-8),
\* whoever fails or dies on the way: it stays in them for ever only while users
\* keep asking for new operations on it.
Admission(i) ==
    \E r \in Token, o \in Ops, restart \in BOOLEAN : Check(r, o, i, restart)

Settles ==
    \A i \in Entity :
        \/ []<><<Admission(i)>>_vars
        \/ status[i] \in Transitional ~> status[i] \notin Transitional

\* An interrupted job's recovery "does nothing when the instance is gone,
\* already settled, or a newer operation holds the lock"
\* (interrupted_job_recovery.py:60-61). TLC refutes it with Faults = {"crash"}.
RecoveryYields ==
    [][\A a \in Agent :
          rec[a].to \in Settled /\ rec'[a] = NoRecovery /\ status' # status
          => NeedsRecovery(rec[a].inst, rec[a].req)]_vars

\* A config sync without restart leaves the service alone, so an instance
\* whose service is down does not come out of it as UPDATED
\* (ansible_instance_mgmt.py:699: "it remains STOPPED"). TLC refutes it, also
\* with Faults = {}.
StoppedRemainsStopped ==
    [][\A i \in Entity :
          status[i] = "configuring" /\ status'[i] = "updated"
          => svc[i] = "active"]_vars
=============================================================================
