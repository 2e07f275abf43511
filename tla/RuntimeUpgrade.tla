--------------------------- MODULE RuntimeUpgrade ---------------------------
(***************************************************************************)
(* The upgrade of one host from minqlx to minqlxtended: a request reserves *)
(* the host with an operation row, an RQ job takes fenced ownership of the *)
(* row and works through the steps of a saga, recording each intent before *)
(* its side effect; a failed step, or a recovery job that takes over from  *)
(* a dead one, rolls the whole host back. Meanwhile users operate on       *)
(* instances and backups are restored, kept out by the reservation and by  *)
(* the locks of ui/task_lock.py.                                           *)
(*                                                                         *)
(* Every commit, every playbook and every Redis exchange is a step of its  *)
(* own. An execution is identified with its RQ job, a row by a number.     *)
(***************************************************************************)
EXTENDS Naturals, FiniteSets

CONSTANTS Instances,   \* the host's instances
          Jobs,        \* RQ job ids; one is used again when nothing knows it
          Users,       \* users' instance operations that may get in the way
          Backup,      \* whether a backup may get in the way as well
          Faults,      \* what may go wrong, see FaultKinds
          Budget,      \* how often something goes wrong
          MaxToken,    \* bound: ownership of an operation changes so often
          Upgrades     \* bound: reservations

FaultKinds ==
    {"playbook",   \* a step fails or raises
     "timeout",    \* the job exceeds its RQ timeout
     "unseen",     \* a probe cannot observe a service, or sees a stray process
     "crash",      \* a worker dies
     "stall",      \* a worker goes on after its heartbeat went stale
     "enqueue"}    \* a job is not pushed, or the web process dies

Host == 0
None == 0

ASSUME RuntimeUpgradeAssumption ==
    /\ Instances \subseteq Nat \ {Host}
    /\ IsFiniteSet(Instances)
    /\ Jobs \subseteq Nat \ {None}
    /\ Backup \in BOOLEAN
    /\ Faults \subseteq FaultKinds
    /\ Budget \in Nat
    /\ MaxToken \in Nat
    /\ Upgrades \in Nat

VARIABLES op,       \* the HostRuntimeUpgradeOperation row
          log,      \* its instance_outcomes_json and original states
          host,     \* the host row: status and runtime
          inst,     \* per instance: row, unit, local tree, remote files
          fence,    \* what the host's lock helper recorded of the last operation
          job,      \* the RQ jobs and the executions they are
          lock,     \* the Redis locks of the host and its instances
          route,    \* the request that starts the upgrade
          user,     \* the users' operations
          restore,  \* the backup export or import
          budget,   \* faults that may still happen
          meddled   \* history: instances a user worked on while reserved

vars == <<op, log, host, inst, fence, job, lock, route, user, restore, budget,
          meddled>>
clients == <<route, user, restore, meddled>>

-----------------------------------------------------------------------------
(* Types.                                                                  *)

Terminal == {"succeeded", "rolled_back", "failed_preparation"}
Nonterminal == {"preparing", "quiescing", "installing", "converting",
                "configuring", "rolling_back", "recovery_required"}

\* active_runtime_upgrade: the host's reservation.
Reserved == op.state \in Nonterminal

Operation == [id : Nat, state : Nonterminal \cup Terminal \cup {"none"},
              token : Nat, job : Jobs \cup {None}, required : BOOLEAN,
              snapshot : BOOLEAN]

\* What the journal says of an instance. Of the code's "start" key nothing
\* depends: it is only ever there together with "convert".
Outcome == [original : {"running", "stopped"},
            stop : {"", "requested", "ok", "failed", "verified_inactive"},
            convert : {"", "swapping", "swapped"},
            configure : {"", "requested", "ok", "failed"},
            rollback : {"", "failed", "ok", "untouched"}]

NoOutcome(status) == [original |-> status, stop |-> "", convert |-> "",
                      configure |-> "", rollback |-> ""]

Files == {"minqlx", "minqlxtended", "mixed"}

Instance == [status : {"running", "stopped", "starting", "stopping",
                       "configuring", "busy", "error"},
             svc : {"active", "inactive"},
             tree : Files,      \* configs/<host>/<id> on the controller
             files : Files]     \* managed files and unit on the game host

Pc == {"", "enter", "claim", "lock", "validate", "snapshot", "recheck", "stop",
       "stopcall", "stopplay", "stopped", "install", "installing", "convert",
       "swap", "swapping", "runtime", "configure", "play", "playing",
       "start",
       "startcall", "startplay", "started", "succeed", "cancel", "rollback",
       "quiesce", "back", "tree", "files", "replay", "restoring", "state", "finish",
       "finalize", "release"}

Execution ==
    [rq : {"none", "assigned", "queued", "started", "stalled"},
     task : {"upgrade", "recover"},
     of : Nat,                   \* the operation it is for
     pc : Pc,
     token : Nat,
     known : Nat,                \* operations a play was told have ended
     undo : BOOLEAN,             \* it rolls back
     todo : SUBSET Instances,    \* instances the current step has still to do
     failed : SUBSET Instances,  \* instances it could not roll back
     ok : BOOLEAN]               \* what the last service playbook reported

NoExecution == [rq |-> "none", task |-> "upgrade", of |-> 0, pc |-> "",
                token |-> 0, known |-> 0, undo |-> FALSE, todo |-> {}, failed |-> {}, ok |-> FALSE]

Entities == Instances \cup {Host}

\* The owner of a lock: nobody, the request, a user's operation, or the
\* execution of some operation with some token (execution_lock_token).
Owner == {"free", "route", "user", "upgrade"} \X Nat \X Nat
Nobody == <<"free", 0, 0>>
Route == <<"route", 0, 0>>
User == <<"user", 0, 0>>
Exec(execution) == <<"upgrade", execution.of, execution.token>>

TypeOK ==
    /\ op \in Operation
    /\ log \in [Instances -> Outcome]
    /\ host \in [status : {"active", "configuring", "error"},
                 runtime : {"minqlx", "minqlxtended"}]
    /\ inst \in [Instances -> Instance]
    /\ fence \in [id : Nat, token : Nat, final : BOOLEAN]
    /\ job \in [Jobs -> Execution]
    /\ lock \in [Entities -> Owner]
    /\ route \in {"idle", "locked", "reserved", "unlocked"}
    /\ user \in [Users -> [phase : {"idle", "guarded", "working", "done"},
                           inst : Entities]]
    /\ restore \in {"idle", "holding", "running", "done"}
    /\ budget \in 0 .. Budget
    /\ meddled \in SUBSET Instances

\* Hosts are upgraded with running and with stopped instances; a unit need not
\* be in the state its row says.
Init ==
    /\ op = [id |-> 0, state |-> "none", token |-> 0, job |-> None, required |-> FALSE, snapshot |-> FALSE]
    /\ log = [i \in Instances |-> NoOutcome("stopped")]
    /\ host = [status |-> "active", runtime |-> "minqlx"]
    /\ inst \in [Instances ->
                  [status : {"running", "stopped"}, svc : {"active", "inactive"},
                   tree : {"minqlx"}, files : {"minqlx"}]]
    /\ fence = [id |-> 0, token |-> 0, final |-> FALSE]
    /\ job = [j \in Jobs |-> NoExecution]
    /\ lock = [e \in Entities |-> Nobody]
    /\ route = "idle"
    /\ user = [u \in Users |-> [phase |-> "idle", inst |-> Host]]
    /\ restore = "idle"
    /\ budget = Budget
    /\ meddled = {}

Spend(kind) ==
    /\ kind \in Faults
    /\ budget > 0
    /\ budget' = budget - 1

\* acquire_lock fails while a backup holds the maintenance lock.
Maintenance == restore \in {"holding", "running"}

-----------------------------------------------------------------------------
(* The request (ui/routes/host_runtime_upgrade_routes.py:158-212).         *)

RouteLocks ==
    /\ route = "idle"
    /\ op.id < Upgrades
    /\ ~Reserved
    /\ ~Maintenance
    /\ \A e \in Entities : lock[e] = Nobody
    /\ lock' = [e \in Entities |-> Route]
    /\ route' = "locked"
    /\ UNCHANGED <<op, log, host, inst, fence, job, user, restore, budget, meddled>>

\* _reserve: the host is still eligible and looks as the operator saw it.
Eligible ==
    /\ ~Reserved
    /\ host = [status |-> "active", runtime |-> "minqlx"]
    /\ \A i \in Instances : inst[i].status \in {"running", "stopped"}

Reserve ==
    /\ route = "locked"
    /\ Eligible
    /\ op' = [id |-> op.id + 1, state |-> "preparing", token |-> 0, job |-> None,
              required |-> FALSE, snapshot |-> FALSE]
    /\ log' = [i \in Instances |-> NoOutcome(inst[i].status)]
    /\ host' = [host EXCEPT !.status = "configuring"]
    /\ route' = "reserved"
    /\ meddled' = {}
    /\ UNCHANGED <<inst, fence, job, lock, user, restore, budget>>

\* Faulty variant: the key is emptied.
FreeAllBlanking(owner) ==
    lock' = [e \in Entities |-> IF lock[e] = owner THEN <<>> ELSE lock[e]]

FreeAll(owner) ==
    lock' = [e \in Entities |-> IF lock[e] = owner THEN Nobody ELSE lock[e]]

\* The finally, after the reservation or after a rejection. The worker takes
\* the locks again.
RouteUnlocks ==
    /\ \/ route = "reserved" /\ route' = "unlocked"
       \/ route = "locked" /\ route' = "idle"
    /\ FreeAll(Route)
    /\ UNCHANGED <<op, log, host, inst, fence, job, user, restore, budget, meddled>>

\* A new uuid: the least id that is neither a job nor in the row.
Unused == {j \in Jobs : job[j].rq = "none" /\ op.job # j}
Fresh(j) == j \in Unused /\ \A k \in Unused : j <= k

\* start_upgrade_job swaps a new job id in for the one the row has now,
\* usually none, before it pushes the job.
RouteAssigns(j) ==
    /\ route = "unlocked"
    /\ Reserved
    /\ Fresh(j)
    /\ op' = [op EXCEPT !.job = j]
    /\ job' = [job EXCEPT ![j] = [NoExecution EXCEPT !.rq = "assigned", !.of = op.id]]
    /\ route' = "idle"
    /\ UNCHANGED <<log, host, inst, fence, lock, user, restore, budget, meddled>>

\* The operation ended meanwhile ("cannot be started"), or the web process
\* dies: its locks go when their TTL runs out.
RouteGivesUp ==
    /\ \/ route = "unlocked" /\ ~Reserved /\ UNCHANGED budget
       \/ route # "idle" /\ Spend("enqueue")
    /\ route' = "idle"
    /\ UNCHANGED <<op, log, host, inst, fence, job, lock, user, restore, meddled>>

\* Nobody relies on these locks any more, and their TTL runs out.
Abandoned(owner) ==
    \/ owner = Route /\ route = "idle"
    \/ /\ owner[1] = "upgrade"
       /\ \A j \in Jobs : job[j].pc # "" => Exec(job[j]) # owner

\* It takes an hour, and longer than any request that passed a guard.
LocksExpire(e) ==
    /\ Abandoned(lock[e])
    /\ \A u \in Users : user[u].phase # "guarded"
    /\ FreeAll(lock[e])
    /\ UNCHANGED <<op, log, host, inst, fence, job, clients, budget>>

-----------------------------------------------------------------------------
(* RQ and recovery (host_runtime_upgrade_recovery.py).                     *)

\* The id is in the row; the push follows, or does not.
Push(j) ==
    /\ job[j].rq = "assigned"
    /\ \/ job' = [job EXCEPT ![j].rq = "queued"] /\ UNCHANGED budget
       \/ job' = [job EXCEPT ![j] = NoExecution] /\ Spend("enqueue")
    /\ UNCHANGED <<op, log, host, inst, fence, lock, clients>>

\* job_alive: queued, or started with a fresh heartbeat.
Alive(j) == job[j].rq \in {"queued", "started"}

\* Faulty variant: only rows that name no job are looked at.
HandOverUnassigned(j) ==
    /\ Reserved
    /\ op.job = None
    /\ Fresh(j)
    /\ op' = [op EXCEPT !.job = j, !.required = TRUE]
    /\ job' = [job EXCEPT ![j] = [NoExecution EXCEPT !.rq = "assigned", !.of = op.id,
                                                     !.task = "recover"]]
    /\ UNCHANGED <<log, host, inst, fence, lock, clients, budget>>

\* request_recovery, by the poller's reconciler, or by RQ's failure callback
\* for the job the row names. (Its 120 and 300 seconds of grace only delay it.)
HandOver(j) ==
    /\ Reserved
    /\ op.job # None => ~Alive(op.job)
    /\ Fresh(j)
    /\ op' = [op EXCEPT !.job = j, !.required = TRUE]
    /\ job' = [job EXCEPT ![j] = [NoExecution EXCEPT !.rq = "assigned", !.of = op.id,
                                                     !.task = "recover"]]
    /\ UNCHANGED <<log, host, inst, fence, lock, clients, budget>>

\* A worker takes the job.
Begin(j) ==
    /\ job[j].rq = "queued"
    /\ job' = [job EXCEPT ![j].rq = "started", ![j].pc = "enter"]
    /\ UNCHANGED <<op, log, host, inst, fence, lock, clients, budget>>

At(j, pc) == job[j].rq \in {"started", "stalled"} /\ job[j].pc = pc
Goto(j, pc) == job' = [job EXCEPT ![j].pc = pc]

\* The entry checks of upgrade_host_runtime_logic, and of
\* recover_host_runtime_logic to which anything past preparation goes. The
\* token is read here, and compared when the ownership is taken.
Enter(j) ==
    LET forward == /\ job[j].task = "upgrade"
                   /\ op.state = "preparing"
                   /\ ~op.required
        mine == forward \/ op.job \in {None, j} \/ ~Alive(op.job)
    IN
    /\ At(j, "enter")
    /\ IF job[j].of = op.id /\ Reserved /\ mine
       THEN job' = [job EXCEPT ![j].pc = "claim", ![j].token = op.token,
                               ![j].undo = ~forward]
       ELSE job' = [job EXCEPT ![j] = NoExecution]
    /\ UNCHANGED <<op, log, host, inst, fence, lock, clients, budget>>

\* Bound: but for the first two, tokens are not spent on locks others hold.
Patient ==
    /\ op.token < MaxToken
    /\ op.token > 1 => ~Maintenance /\ \A e \in Entities : lock[e] \notin {User, Route}

\* Faulty variant: any execution of the operation.
OwnsAnyToken(j) == op.id = job[j].of

\* The compare of claim_operation's UPDATE and, once the claim is made, of that
\* of Execution.commit: the row has the execution's token.
Owns(j) == op.id = job[j].of /\ op.token = job[j].token

\* claim_operation: compare and set. The loser stops.
Claim(j) ==
    /\ At(j, "claim")
    /\ Patient
    /\ IF Owns(j)
       THEN /\ op' = [op EXCEPT !.token = @ + 1, !.job = j]
            /\ job' = [job EXCEPT ![j].pc = "lock", ![j].token = op.token + 1]
       ELSE /\ job' = [job EXCEPT ![j] = NoExecution]
            /\ UNCHANGED op
    /\ UNCHANGED <<log, host, inst, fence, lock, clients, budget>>

\* Faulty variant: locks are renewed, ownership is not looked at.
FenceUnchecked(j) ==
    lock' = [e \in Entities |-> IF lock[e] = Nobody /\ ~Maintenance
                               THEN Exec(job[j]) ELSE lock[e]]

\* Execution.fence: it owns an operation that has not ended, and takes locks
\* again that are gone.
Fence(j) ==
    /\ Owns(j)
    /\ Reserved
    /\ lock' = [e \in Entities |-> IF lock[e] = Nobody /\ ~Maintenance
                                   THEN Exec(job[j]) ELSE lock[e]]

\* RedisExecutionLocks.acquire: every lock is free or is another execution's of
\* the operation, thought to be older. (The lock TTL is longer than the job timeout.)
Lockable(j, e) ==
    /\ lock[e] = Nobody \/ (lock[e][1] = "upgrade" /\ lock[e][2] = job[j].of)
    /\ ~Maintenance

\* Faulty variant: whoever holds a lock, it is released by force.
TakeLocksByForce(j) ==
    /\ At(j, "lock")
    /\ lock' = [e \in Entities |-> Exec(job[j])]
    /\ Goto(j, IF ~job[j].undo THEN "validate"
               ELSE IF op.state = "preparing" THEN "cancel" ELSE "rollback")
    /\ UNCHANGED <<op, log, host, inst, fence, clients, budget>>

TakeLocks(j) ==
    /\ At(j, "lock")
    /\ \A e \in Entities : Lockable(j, e)
    /\ lock' = [e \in Entities |-> Exec(job[j])]
    /\ Goto(j, IF ~job[j].undo THEN "validate"
               ELSE IF op.state = "preparing" THEN "cancel" ELSE "rollback")
    /\ UNCHANGED <<op, log, host, inst, fence, clients, budget>>

\* The upgrade is cancelled; a recovery stays pending. The locks it had got, the
\* host's first, are given back, also those it took from other executions.
LocksRefused(j) ==
    LET lockable == {e \in Entities : Lockable(j, e)} IN
    /\ At(j, "lock")
    /\ lockable # Entities
    /\ \E got \in SUBSET lockable :
          /\ IF Host \in lockable THEN Host \in got ELSE got = {}
          /\ lock' = [e \in Entities |-> IF e \in got THEN Nobody ELSE lock[e]]
    /\ Goto(j, IF job[j].undo THEN "release" ELSE "cancel")
    /\ UNCHANGED <<op, log, host, inst, fence, clients, budget>>

-----------------------------------------------------------------------------
(* Forward, to the point of no return (host_runtime_upgrade.py).           *)

\* A capture taken now equals the confirmed one, of a host that is eligible
\* but for its status.
Unchanged ==
    /\ host.runtime = "minqlx"
    /\ \A i \in Instances : inst[i].status = log[i].original

\* _validate. Whatever else it checks may fail as well.
Validate(j) ==
    /\ At(j, "validate")
    /\ Owns(j)
    /\ \/ Unchanged /\ Goto(j, "snapshot") /\ UNCHANGED budget
       \/ ~Unchanged /\ Goto(j, "cancel") /\ UNCHANGED budget
       \/ Goto(j, "cancel") /\ Spend("playbook")
    /\ UNCHANGED <<op, log, host, inst, fence, lock, clients>>

\* _preflight_stopped, then prepare_upgrade_snapshot, whose commit is not
\* fenced.
Snapshot(j) ==
    LET quiet == \A i \in Instances :
                     log[i].original = "stopped" => inst[i].svc = "inactive"
    IN
    /\ At(j, "snapshot")
    /\ \/ /\ quiet
          /\ op' = [op EXCEPT !.snapshot = @ \/ job[j].of = op.id]
          /\ Goto(j, "recheck")
          /\ UNCHANGED budget
       \/ ~quiet /\ Goto(j, "cancel") /\ UNCHANGED <<op, budget>>
       \/ (Spend("playbook") \/ Spend("unseen")) /\ Goto(j, "cancel") /\ UNCHANGED op
    /\ UNCHANGED <<log, host, inst, fence, lock, clients>>

\* The next step of an execution, over all instances.
Stage(j, pc) == job' = [job EXCEPT ![j].pc = pc, ![j].todo = Instances]

\* The last look before the first change; then "quiescing" is committed.
Recheck(j) ==
    /\ At(j, "recheck")
    /\ Fence(j)
    /\ IF Unchanged
       THEN op' = [op EXCEPT !.state = "quiescing"] /\ Stage(j, "stop")
       ELSE UNCHANGED op /\ Goto(j, "cancel")
    /\ UNCHANGED <<log, host, inst, fence, clients, budget>>

\* fail_preparation: snapshot and presets are removed, nothing else was done.
Cancel(j) ==
    /\ At(j, "cancel")
    /\ Owns(j)
    /\ op' = [op EXCEPT !.state = "failed_preparation", !.required = FALSE,
                        !.snapshot = FALSE]
    /\ host' = [host EXCEPT !.status = IF @ = "configuring" THEN "active" ELSE @]
    /\ Goto(j, "release")
    /\ UNCHANGED <<log, inst, fence, lock, clients, budget>>

-----------------------------------------------------------------------------
(* The service playbooks: stop_instance_logic and start_instance_logic,    *)
(* called forward and by the rollback. Their commits are not fenced.       *)

Next1(i, S) == i \in S /\ \A k \in S : i <= k

ServiceBegins(j, i) ==
    /\ Next1(i, job[j].todo)
    /\ \/ /\ At(j, "stopcall")
          /\ inst' = [inst EXCEPT ![i].status = "stopping"]
          /\ Goto(j, "stopplay")
       \/ /\ At(j, "startcall")
          /\ inst' = [inst EXCEPT ![i].status = "starting"]
          /\ Goto(j, "startplay")
    /\ UNCHANGED <<op, log, host, fence, lock, clients, budget>>

Target(j) == IF At(j, "stopplay") THEN [svc |-> "inactive", status |-> "stopped"]
                                  ELSE [svc |-> "active", status |-> "running"]

\* The playbook returns 0, or not; or the job's timeout fires while it runs:
\* _run_ansible_playbook catches that, and the status stays transitional.
ServiceRuns(j, i) ==
    LET Ran(svc, status, ok) ==
            /\ inst' = [inst EXCEPT ![i].svc = svc, ![i].status = status]
            /\ job' = [job EXCEPT ![j].ok = ok,
                                  ![j].pc = IF @ = "stopplay" THEN "stopped"
                                            ELSE "started"]
        t == Target(j)
    IN
    /\ Next1(i, job[j].todo)
    /\ At(j, "stopplay") \/ At(j, "startplay")
    /\ \/ Ran(t.svc, t.status, TRUE) /\ UNCHANGED budget
       \/ \E svc \in {inst[i].svc, t.svc} :
             \/ Ran(svc, "error", FALSE) /\ Spend("playbook")
             \/ Ran(svc, inst[i].status, FALSE) /\ Spend("timeout")
    /\ UNCHANGED <<op, log, host, fence, lock, clients>>

-----------------------------------------------------------------------------
(* Forward, with everything to lose.                                       *)

\* Instance i is done in this step; after the last one, the next step begins.
Done(j, i, this, next) ==
    LET last == job[j].todo = {i} IN
    job' = [job EXCEPT ![j].todo = IF last THEN Instances ELSE @ \ {i},
                       ![j].pc = IF last THEN next ELSE this]

\* The same for a rollback, whose phases pass over some instances.
Passed(j, i, failed, this, next) ==
    job' = [job EXCEPT ![j].todo = @ \ {i}, ![j].failed = failed,
                       ![j].pc = IF job[j].todo = {i} THEN next ELSE this]

\* _fail_instance, of a rollback: what may change later leaves the status alone.
FailInstance(j, i, now, this, next) ==
    /\ Owns(j)
    /\ log' = [log EXCEPT ![i].rollback = "failed"]
    /\ \E status \in {now.status, "error"} :
          inst' = [inst EXCEPT ![i] = [now EXCEPT !.status = status]]
    /\ Passed(j, i, job[j].failed \cup {i}, this, next)

\* Faulty variant: the stop is sent before it is recorded.
StopAskUnrecorded(j, i) ==
    /\ At(j, "stop")
    /\ Fence(j)
    /\ Next1(i, job[j].todo)
    /\ log[i].original = "running"
    /\ Goto(j, "stopcall")
    /\ UNCHANGED <<op, log, host, inst, fence, clients, budget>>

\* _quiesce, for an instance that was running.
StopAsk(j, i) ==
    /\ At(j, "stop")
    /\ Fence(j)
    /\ Next1(i, job[j].todo)
    /\ log[i].original = "running"
    /\ log' = [log EXCEPT ![i].stop = "requested"]
    /\ Goto(j, "stopcall")
    /\ UNCHANGED <<op, host, inst, fence, clients, budget>>

\* The probe after the playbook.
Stopped(j, i) ==
    LET ok == job[j].ok /\ inst[i].svc = "inactive" IN
    /\ At(j, "stopped")
    /\ ~job[j].undo
    /\ Owns(j)
    /\ Next1(i, job[j].todo)
    /\ \/ /\ ok
          /\ inst' = [inst EXCEPT ![i].status = "stopped"]
          /\ log' = [log EXCEPT ![i].stop = "ok"]
          /\ Done(j, i, "stop", "install")
          /\ UNCHANGED budget
       \/ /\ (~ok /\ UNCHANGED budget) \/ Spend("unseen")
          /\ log' = [log EXCEPT ![i].stop = "failed"]
          /\ Goto(j, "rollback")
          /\ UNCHANGED inst
    /\ UNCHANGED <<op, host, fence, lock, clients>>

\* _quiesce, for an instance that was stopped.
StopVerify(j, i) ==
    LET ok == inst[i].svc = "inactive" IN
    /\ At(j, "stop")
    /\ Owns(j)
    /\ Next1(i, job[j].todo)
    /\ log[i].original = "stopped"
    /\ \/ /\ ok
          /\ log' = [log EXCEPT ![i].stop = "verified_inactive"]
          /\ Done(j, i, "stop", "install")
          /\ UNCHANGED budget
       \/ /\ (~ok /\ UNCHANGED budget) \/ Spend("unseen")
          /\ log' = [log EXCEPT ![i].stop = "failed"]
          /\ Goto(j, "rollback")
    /\ UNCHANGED <<op, host, inst, fence, lock, clients>>

\* The steps that begin by committing their state.
BeginStep(j) ==
    /\ Fence(j)
    /\ \/ /\ At(j, "install")
          /\ op' = [op EXCEPT !.state = "installing"]
          /\ Goto(j, "installing")
          /\ UNCHANGED host
       \/ /\ At(j, "convert")
          /\ op' = [op EXCEPT !.state = "converting"]
          /\ Stage(j, "swap")
          /\ UNCHANGED host
       \/ /\ At(j, "runtime")
          /\ op' = [op EXCEPT !.state = "configuring"]
          /\ host' = [host EXCEPT !.runtime = "minqlxtended"]
          /\ Stage(j, "configure")
    /\ UNCHANGED <<log, inst, fence, clients, budget>>

\* The operations that are terminal now are those up to this one.
Ended == IF Reserved THEN op.id - 1 ELSE op.id

\* Faulty variant: the tokens of one operation are not compared.
FenceAdmitsOperation(j, known) ==
    \/ fence.id = job[j].of /\ ~fence.final
    \/ fence.id # job[j].of /\ (fence.final \/ fence.id <= known)

\* token_decision in the host's lock helper. It refuses an older execution of
\* the recorded operation, and all of it once it is final; and executions of
\* others while the recorded one is not known to have ended.
FenceAdmits(j, known) ==
    \/ fence.id = job[j].of /\ ~fence.final /\ fence.token <= job[j].token
    \/ fence.id # job[j].of /\ (fence.final \/ fence.id <= known)

Recorded(j) == [id |-> job[j].of, token |-> job[j].token, final |-> FALSE]

\* install_runtime_on_host: beside the old runtime, so no instance changes.
Install(j) ==
    /\ At(j, "installing")
    /\ \/ /\ FenceAdmits(j, Ended)
          /\ fence' = Recorded(j)
          /\ Goto(j, "convert")
          /\ UNCHANGED budget
       \/ /\ (~FenceAdmits(j, Ended) /\ UNCHANGED budget) \/ Spend("playbook")
          /\ Goto(j, "rollback")
          /\ UNCHANGED fence
    /\ UNCHANGED <<op, log, host, inst, lock, clients>>

\* Faulty variant: a swap is recorded when it is done.
SwapAskUnrecorded(j, i) ==
    /\ At(j, "swap")
    /\ Fence(j)
    /\ Next1(i, job[j].todo)
    /\ Goto(j, "swapping")
    /\ UNCHANGED <<op, log, host, inst, fence, clients, budget>>

SwapAsk(j, i) ==
    /\ At(j, "swap")
    /\ Fence(j)
    /\ Next1(i, job[j].todo)
    /\ log' = [log EXCEPT ![i].convert = "swapping"]
    /\ Goto(j, "swapping")
    /\ UNCHANGED <<op, host, inst, fence, clients, budget>>

\* install_converted_tree, two renames, then the fenced record. Whoever lost
\* the operation meanwhile has swapped all the same.
Swap(j, i) ==
    /\ At(j, "swapping")
    /\ Next1(i, job[j].todo)
    /\ \/ /\ inst' = [inst EXCEPT ![i].tree = "minqlxtended"]
          /\ IF Owns(j)
             THEN /\ log' = [log EXCEPT ![i].convert = "swapped"]
                  /\ Done(j, i, "swap", "runtime")
             ELSE Goto(j, "release") /\ UNCHANGED log
          /\ UNCHANGED budget
       \/ /\ Spend("playbook")
          /\ inst' = [inst EXCEPT ![i].tree = "mixed"]
          /\ Goto(j, "rollback")
          /\ UNCHANGED log
    /\ UNCHANGED <<op, host, fence, lock, clients>>

ConfigureAsk(j, i) ==
    /\ At(j, "configure")
    /\ Fence(j)
    /\ Next1(i, job[j].todo)
    /\ log' = [log EXCEPT ![i].configure = "requested"]
    /\ inst' = [inst EXCEPT ![i].status = "configuring"]
    /\ Goto(j, "play")
    /\ UNCHANGED <<op, host, fence, clients, budget>>

\* configure_existing_instance, forward and for the rollback: the host must be
\* on the runtime, and the play is told which operations are terminal. Who has
\* lost the operation since the fence before it goes on here.
PlayBegins(j, i) ==
    LET forward == At(j, "play")
        runtime == IF forward THEN "minqlxtended" ELSE "minqlx"
        failed == [log EXCEPT ![i].configure = "failed"]
    IN
    /\ forward \/ At(j, "replay")
    /\ Next1(i, job[j].todo)
    /\ \/ /\ host.runtime = runtime
          /\ job' = [job EXCEPT ![j].known = Ended,
                                ![j].pc = IF forward THEN "playing" ELSE "restoring"]
          /\ UNCHANGED <<log, inst>>
       \/ /\ host.runtime # runtime
          /\ \/ Owns(j) /\ forward /\ Goto(j, "rollback") /\ log' = failed /\ UNCHANGED inst
             \/ ~forward /\ FailInstance(j, i, inst[i], "tree", "finish")
             \/ ~Owns(j) /\ Goto(j, "release") /\ UNCHANGED <<log, inst>>
    /\ UNCHANGED <<op, host, fence, lock, clients, budget>>

\* The play, which takes the host's fenced lock and demands that the service is
\* stopped. Its outcome is recorded if the operation is still owned.
Configure(j, i) ==
    LET admitted == FenceAdmits(j, job[j].known) /\ inst[i].svc = "inactive"
        Wrote(files) == inst' = [inst EXCEPT ![i].files = files]
        Noted(outcome) == log' = [log EXCEPT ![i].configure = outcome]
    IN
    /\ At(j, "playing")
    /\ Next1(i, job[j].todo)
    /\ fence' = IF FenceAdmits(j, job[j].known) THEN Recorded(j) ELSE fence
    /\ \/ /\ admitted
          /\ Wrote("minqlxtended")
          /\ \/ Owns(j) /\ Noted("ok") /\ Done(j, i, "configure", "start")
             \/ ~Owns(j) /\ Goto(j, "release") /\ UNCHANGED log
          /\ UNCHANGED budget
       \/ /\ \/ ~admitted /\ UNCHANGED <<inst, budget>>
             \/ admitted /\ Spend("playbook") /\ (UNCHANGED inst \/ Wrote("mixed"))
          /\ \/ Owns(j) /\ Noted("failed") /\ Goto(j, "rollback")
             \/ ~Owns(j) /\ Goto(j, "release") /\ UNCHANGED log
    /\ UNCHANGED <<op, host, lock, clients>>

\* _start_and_verify, for an instance that was running.
StartAsk(j, i) ==
    /\ At(j, "start")
    /\ Fence(j)
    /\ Next1(i, job[j].todo)
    /\ log[i].original = "running"
    /\ Goto(j, "startcall")
    /\ UNCHANGED <<op, log, host, inst, fence, clients, budget>>

\* The playbook succeeded and the server reported in time, or not.
Started(j, i) ==
    LET ok == job[j].ok /\ inst[i].svc = "active" IN
    /\ At(j, "started")
    /\ ~job[j].undo
    /\ Owns(j)
    /\ Next1(i, job[j].todo)
    /\ \/ /\ ok
          /\ inst' = [inst EXCEPT ![i].status = "running"]
          /\ Done(j, i, "start", "succeed")
          /\ UNCHANGED budget
       \/ /\ (~ok /\ UNCHANGED budget) \/ Spend("playbook")
          /\ Goto(j, "rollback")
          /\ UNCHANGED inst
    /\ UNCHANGED <<op, log, host, fence, lock, clients>>

\* ... and for one that was stopped.
StartVerify(j, i) ==
    LET ok == inst[i].svc = "inactive" IN
    /\ At(j, "start")
    /\ Fence(j)
    /\ Next1(i, job[j].todo)
    /\ log[i].original = "stopped"
    /\ \/ /\ ok
          /\ inst' = [inst EXCEPT ![i].status = "stopped"]
          /\ Done(j, i, "start", "succeed")
          /\ UNCHANGED budget
       \/ /\ (~ok /\ UNCHANGED budget) \/ Spend("unseen")
          /\ Goto(j, "rollback")
          /\ UNCHANGED inst
    /\ UNCHANGED <<op, log, host, fence, clients>>

Succeed(j) ==
    /\ At(j, "succeed")
    /\ Fence(j)
    /\ op' = [op EXCEPT !.state = "succeeded", !.required = FALSE]
    /\ host' = [host EXCEPT !.status = "active"]
    /\ Goto(j, "finalize")
    /\ UNCHANGED <<log, inst, fence, clients, budget>>


-----------------------------------------------------------------------------
(* Rollback (host_runtime_upgrade_rollback.py).                            *)

Touched(i) == log[i].convert # "" \/ log[i].configure # ""
RolledBack(i) == log[i].rollback \in {"ok", "untouched"}

\* rollback: intent first, then every touched instance is stopped, but those
\* an earlier pass restored.
Rollback(j) ==
    LET quiesce == {i \in Instances : Touched(i) /\ ~RolledBack(i)} IN
    /\ At(j, "rollback")
    /\ Fence(j)
    /\ op' = [op EXCEPT !.state = IF op.snapshot THEN "rolling_back" ELSE "recovery_required",
                        !.required = TRUE]
    /\ job' = [job EXCEPT ![j].undo = TRUE, ![j].todo = quiesce, ![j].failed = {},
                          ![j].pc = IF ~op.snapshot THEN "release"
                                    ELSE IF quiesce = {} THEN "back" ELSE "quiesce"]
    /\ UNCHANGED <<log, host, inst, fence, clients, budget>>

\* Faulty variant: converted instances are not stopped.
QuiesceSkipped(j, i) ==
    /\ At(j, "quiesce")
    /\ Next1(i, job[j].todo)
    /\ Passed(j, i, job[j].failed, "quiesce", "back")
    /\ UNCHANGED <<op, log, host, inst, fence, lock, clients, budget>>

\* _quiesce: the probe, and the record that precedes the stop.
Quiesce(j, i) ==
    /\ At(j, "quiesce")
    /\ Owns(j)
    /\ Next1(i, job[j].todo)
    /\ \/ /\ inst[i].svc = "active"
          /\ log' = [log EXCEPT ![i].rollback = "failed"]
          /\ Goto(j, "stopcall")
          /\ UNCHANGED <<inst, budget>>
       \/ /\ inst[i].svc = "inactive"
          /\ Passed(j, i, job[j].failed, "quiesce", "back")
          /\ UNCHANGED <<log, inst, budget>>
       \/ FailInstance(j, i, inst[i], "quiesce", "back") /\ Spend("unseen")
    /\ UNCHANGED <<op, host, fence, lock, clients>>

\* ... and the probe that follows it, which decides whatever the playbook said.
Quiesced(j, i) ==
    LET ok == inst[i].svc = "inactive" IN
    /\ At(j, "stopped")
    /\ job[j].undo
    /\ Owns(j)
    /\ Next1(i, job[j].todo)
    /\ \/ /\ ok
          /\ Passed(j, i, job[j].failed, "quiesce", "back")
          /\ UNCHANGED <<log, inst, budget>>
       \/ /\ (~ok /\ UNCHANGED budget) \/ Spend("unseen")
          /\ FailInstance(j, i, inst[i], "quiesce", "back")
    /\ UNCHANGED <<op, host, fence, lock, clients>>

\* The host is on minqlx again, whatever became of the instances.
RestoreRuntime(j) ==
    LET todo == Instances \ job[j].failed IN
    /\ At(j, "back")
    /\ Fence(j)
    /\ op' = [op EXCEPT !.state = "rolling_back"]
    /\ host' = [host EXCEPT !.runtime = "minqlx"]
    /\ job' = [job EXCEPT ![j].todo = todo,
                          ![j].pc = IF todo = {} THEN "finish" ELSE "tree"]
    /\ UNCHANGED <<log, inst, fence, clients, budget>>

\* _reverify only looks.
Reverify(j, i) ==
    /\ At(j, "tree")
    /\ Next1(i, job[j].todo)
    /\ RolledBack(i)
    /\ Passed(j, i, job[j].failed, "tree", "finish")
    /\ UNCHANGED <<op, log, host, inst, fence, lock, clients, budget>>

\* _restore, the local tree (restore_instance), of what was converted.
RestoreTree(j, i) ==
    /\ At(j, "tree")
    /\ Fence(j)
    /\ Next1(i, job[j].todo)
    /\ ~RolledBack(i)
    /\ \/ /\ log[i].convert # ""
          /\ inst' = [inst EXCEPT ![i].tree = "minqlx"]
          /\ Goto(j, "files")
          /\ UNCHANGED <<log, budget>>
       \/ /\ log[i].convert = ""
          /\ Goto(j, "files")
          /\ UNCHANGED <<log, inst, budget>>
       \/ /\ log[i].convert # ""
          /\ Spend("playbook")
          /\ \E tree \in {inst[i].tree, "mixed"} :
                FailInstance(j, i, [inst[i] EXCEPT !.tree = tree], "tree", "finish")
    /\ UNCHANGED <<op, host, fence, clients>>

\* _restore, the host's files, of what was configured.
FilesAsk(j, i) ==
    /\ At(j, "files")
    /\ Next1(i, job[j].todo)
    /\ \/ log[i].configure = "" /\ Goto(j, "state") /\ UNCHANGED lock
       \/ log[i].configure # "" /\ Fence(j) /\ Goto(j, "replay")
    /\ UNCHANGED <<op, log, host, inst, fence, clients, budget>>

\* The same fenced play, told what to restore.
RestoreFiles(j, i) ==
    LET admitted == FenceAdmits(j, job[j].known) /\ inst[i].svc = "inactive"
        With(files) == [inst[i] EXCEPT !.files = files]
    IN
    /\ At(j, "restoring")
    /\ Next1(i, job[j].todo)
    /\ fence' = IF FenceAdmits(j, job[j].known) THEN Recorded(j) ELSE fence
    /\ \/ /\ admitted
          /\ inst' = [inst EXCEPT ![i] = With("minqlx")]
          /\ Goto(j, IF Owns(j) THEN "state" ELSE "release")
          /\ UNCHANGED <<log, budget>>
       \/ /\ \/ ~admitted /\ UNCHANGED budget
             \/ Spend("playbook")
          /\ \E files \in {inst[i].files, IF admitted THEN "mixed" ELSE inst[i].files} :
                \/ FailInstance(j, i, With(files), "tree", "finish")
                \/ /\ ~Owns(j)
                   /\ inst' = [inst EXCEPT ![i] = With(files)]
                   /\ Goto(j, "release")
                   /\ UNCHANGED log
    /\ UNCHANGED <<op, host, lock, clients>>

\* _leave_untouched: counted as restored, and its status is not looked at.
LeaveUntouched(j, i) ==
    /\ log' = [log EXCEPT ![i].rollback = "untouched"]
    /\ Passed(j, i, job[j].failed, "tree", "finish")
    /\ UNCHANGED inst

\* _restore, the service: nothing is started over an instance that was not
\* stopped by the upgrade, or over a process that a stop did not end.
RestoreState(j, i) ==
    LET untouched == ~Touched(i) /\ log[i].stop \in {"", "failed", "verified_inactive"}
        unknown == ~Touched(i) /\ log[i].stop = "requested"
        restart == Touched(i) \/ log[i].stop = "ok"
                              \/ (unknown /\ inst[i].svc = "inactive")
    IN
    /\ At(j, "state")
    /\ Owns(j)
    /\ Next1(i, job[j].todo)
    /\ \/ /\ \/ (untouched \/ (unknown /\ inst[i].svc = "active")) /\ UNCHANGED budget
             \/ unknown /\ Spend("unseen")
          /\ LeaveUntouched(j, i)
          /\ UNCHANGED lock
       \/ /\ restart /\ log[i].original = "running" /\ inst[i].svc = "active"
          /\ job' = [job EXCEPT ![j].ok = TRUE, ![j].pc = "started"]
          /\ UNCHANGED <<log, inst, lock, budget>>
       \/ /\ restart /\ log[i].original = "running"
          /\ (inst[i].svc = "inactive" /\ UNCHANGED budget) \/ Spend("unseen")
          /\ Fence(j)
          /\ Goto(j, "startcall")
          /\ UNCHANGED <<log, inst>>
       \/ /\ restart /\ log[i].original = "stopped" /\ inst[i].svc = "inactive"
          /\ inst' = [inst EXCEPT ![i].status = "stopped"]
          /\ log' = [log EXCEPT ![i].rollback = "ok"]
          /\ Passed(j, i, job[j].failed, "tree", "finish")
          /\ UNCHANGED <<lock, budget>>
       \/ /\ ~untouched
          /\ \/ Spend("unseen")
             \/ restart /\ log[i].original = "stopped" /\ inst[i].svc = "active" /\ UNCHANGED budget
          /\ FailInstance(j, i, inst[i], "tree", "finish")
          /\ UNCHANGED lock
    /\ UNCHANGED <<op, host, fence, clients>>

\* The server reported in time, or not.
Restarted(j, i) ==
    LET ok == job[j].ok /\ inst[i].svc = "active" IN
    /\ At(j, "started")
    /\ job[j].undo
    /\ Owns(j)
    /\ Next1(i, job[j].todo)
    /\ \/ /\ ok
          /\ inst' = [inst EXCEPT ![i].status = "running"]
          /\ log' = [log EXCEPT ![i].rollback = "ok"]
          /\ Passed(j, i, job[j].failed, "tree", "finish")
          /\ UNCHANGED budget
       \/ /\ (~ok /\ UNCHANGED budget) \/ Spend("playbook")
          /\ FailInstance(j, i, inst[i], "tree", "finish")
    /\ UNCHANGED <<op, host, fence, lock, clients>>

\* _finish. With failures the reservation stays, for a retry.
Finish(j) ==
    /\ At(j, "finish")
    /\ Fence(j)
    /\ IF job[j].failed = {}
       THEN /\ host' = [host EXCEPT !.status = "active"]
            /\ op' = [op EXCEPT !.state = "rolled_back", !.required = FALSE]
            /\ Goto(j, "finalize")
       ELSE /\ host' = [host EXCEPT !.status = "error"]
            /\ op' = [op EXCEPT !.state = "recovery_required", !.required = TRUE]
            /\ Goto(j, "release")
    /\ UNCHANGED <<log, inst, fence, clients, budget>>

\* finalize_remote, best effort, when the end is committed.
Finalize(j) ==
    /\ At(j, "finalize")
    /\ \/ /\ fence' = IF fence.id = job[j].of /\ fence.token <= job[j].token
                      THEN [Recorded(j) EXCEPT !.final = TRUE] ELSE fence
          /\ UNCHANGED budget
       \/ Spend("playbook") /\ UNCHANGED fence
    /\ Goto(j, "release")
    /\ UNCHANGED <<op, log, host, inst, lock, clients>>

-----------------------------------------------------------------------------
(* How executions end.                                                     *)

\* Where the code commits, and therefore notices, before anything else.
Checked == {"validate", "recheck", "stop", "stopped", "install", "convert", "swap",
            "runtime", "configure", "start", "started", "succeed", "cancel",
            "rollback", "quiesce", "back", "tree", "state", "finish", "files"}

\* StaleExecution.
Superseded(j) ==
    /\ \E pc \in Checked : At(j, pc)
    /\ Owns(j) => ~Reserved
    /\ Goto(j, "release")
    /\ UNCHANGED <<op, log, host, inst, fence, lock, clients, budget>>

\* A forward step raises before or between its commits (_run).
StepFails(j) ==
    /\ \E pc \in {"stop", "install", "swap", "runtime", "configure", "start"} : At(j, pc)
    /\ Owns(j)
    /\ Goto(j, "rollback")
    /\ Spend("playbook")
    /\ UNCHANGED <<op, log, host, inst, fence, lock, clients>>

\* The RQ timeout outside of a playbook, a probe or a restored tree, which
\* swallow it; mark_recovery_required.
Interrupted(j) ==
    /\ \E pc \in Checked \ {"cancel", "tree"} : At(j, pc)
    /\ Owns(j)
    /\ op' = [op EXCEPT !.required = TRUE]
    /\ Goto(j, "release")
    /\ Spend("timeout")
    /\ UNCHANGED <<log, host, inst, fence, lock, clients>>

\* The finally; the job finishes.
Release(j) ==
    /\ At(j, "release")
    /\ FreeAll(Exec(job[j]))
    /\ job' = [job EXCEPT ![j] = NoExecution]
    /\ UNCHANGED <<op, log, host, inst, fence, clients, budget>>

\* What instance i may look like when execution j is cut short.
CutShort(j, i) ==
    LET admitted == FenceAdmits(j, job[j].known) /\ inst[i].svc = "inactive" IN
    {inst[i]} \cup
    IF ~Next1(i, job[j].todo) THEN {}
    ELSE IF job[j].pc \in {"stopplay", "startplay"}
    THEN {[inst[i] EXCEPT !.svc = s] : s \in {"active", "inactive"}}
    ELSE IF job[j].pc \in {"swapping", "tree"} /\ log[i].convert # "" /\ ~RolledBack(i)
    THEN {[inst[i] EXCEPT !.tree = t] : t \in Files}
    ELSE IF job[j].pc \in {"playing", "restoring"} /\ admitted
    THEN {[inst[i] EXCEPT !.files = f] : f \in Files}
    ELSE {}

\* The worker dies. Its locks stay, and RQ forgets the job.
Crash(j) ==
    /\ job[j].pc # ""
    /\ \E now \in [Instances -> UNION {CutShort(j, i) : i \in Instances}] :
          /\ \A i \in Instances : now[i] \in CutShort(j, i)
          /\ inst' = now
    /\ job' = [job EXCEPT ![j] = NoExecution]
    /\ Spend("crash")
    /\ UNCHANGED <<op, log, host, fence, lock, clients>>

\* The worker is suspended, or its heartbeat thread is, until it counts as dead.
Stall(j) ==
    /\ job[j].rq = "started"
    /\ job' = [job EXCEPT ![j].rq = "stalled"]
    /\ Spend("stall")
    /\ UNCHANGED <<op, log, host, inst, fence, lock, clients>>

-----------------------------------------------------------------------------
(* The others on this host. A user's operation is a route that checks the  *)
(* reservation and takes the instance's lock, and a job (InstanceOps has   *)
(* its inside); a backup takes the maintenance lock.                       *)

\* upgrade_block_response and the checks that follow it.
Guard(u, i) ==
    /\ user[u].phase = "idle"
    /\ ~Reserved
    /\ host.status # "configuring"
    /\ inst[i].status \in {"running", "stopped"}
    /\ user' = [user EXCEPT ![u] = [phase |-> "guarded", inst |-> i]]
    /\ UNCHANGED <<op, log, host, inst, fence, job, lock, route, restore, budget, meddled>>

Works(u) ==
    LET i == user[u].inst IN
    /\ user[u].phase = "guarded"
    /\ lock[i] = Nobody
    /\ ~Maintenance
    /\ lock' = [lock EXCEPT ![i] = User]
    /\ inst' = [inst EXCEPT ![i].status = "busy"]
    /\ user' = [user EXCEPT ![u].phase = "working"]
    /\ meddled' = IF Reserved THEN meddled \cup {i} ELSE meddled
    /\ UNCHANGED <<op, log, host, fence, job, route, restore, budget>>

Refused(u) ==
    /\ user[u].phase = "guarded"
    /\ lock[user[u].inst] # Nobody \/ Maintenance
    /\ user' = [user EXCEPT ![u].phase = "done"]
    /\ UNCHANGED <<op, log, host, inst, fence, job, lock, route, restore, budget, meddled>>

WorkEnds(u) ==
    LET i == user[u].inst IN
    /\ user[u].phase = "working"
    /\ \/ inst' = [inst EXCEPT ![i].svc = "active", ![i].status = "running"]
       \/ inst' = [inst EXCEPT ![i].svc = "inactive", ![i].status = "stopped"]
    /\ lock' = [lock EXCEPT ![i] = Nobody]
    /\ user' = [user EXCEPT ![u].phase = "done"]
    /\ UNCHANGED <<op, log, host, fence, job, route, restore, budget, meddled>>

BackupLocks ==
    /\ Backup
    /\ restore = "idle"
    /\ \A e \in Entities : lock[e] = Nobody
    /\ restore' = "holding"
    /\ UNCHANGED <<op, log, host, inst, fence, job, lock, route, user, budget, meddled>>

\* Faulty variant: the maintenance lock is enough.
RestoreUnguarded ==
    /\ restore = "holding"
    /\ restore' = "running"
    /\ UNCHANGED <<op, log, host, inst, fence, job, lock, route, user, budget, meddled>>

\* restore_backup asks for reservations once it holds the lock.
RestoreBackup ==
    /\ restore = "holding"
    /\ restore' = IF Reserved THEN "done" ELSE "running"
    /\ UNCHANGED <<op, log, host, inst, fence, job, lock, route, user, budget, meddled>>

\* An export does not ask.
BackupEnds ==
    /\ Maintenance
    /\ restore' = "done"
    /\ UNCHANGED <<op, log, host, inst, fence, job, lock, route, user, budget, meddled>>

-----------------------------------------------------------------------------
ForwardStep(j) ==
    \/ Validate(j) \/ Snapshot(j) \/ Recheck(j) \/ Cancel(j)
    \/ BeginStep(j) \/ Install(j) \/ Succeed(j)
    \/ \E i \in Instances :
          \/ StopAsk(j, i) \/ Stopped(j, i) \/ StopVerify(j, i)
          \/ SwapAsk(j, i) \/ Swap(j, i)
          \/ ConfigureAsk(j, i) \/ PlayBegins(j, i) \/ Configure(j, i)
          \/ StartAsk(j, i) \/ Started(j, i) \/ StartVerify(j, i)

ServiceStep(j) == \E i \in Instances : ServiceBegins(j, i) \/ ServiceRuns(j, i)

RollbackStep(j) ==
    \/ Rollback(j) \/ RestoreRuntime(j) \/ Finish(j) \/ Finalize(j)
    \/ \E i \in Instances :
          \/ Quiesce(j, i) \/ Quiesced(j, i)
          \/ Reverify(j, i) \/ RestoreTree(j, i) \/ FilesAsk(j, i) \/ RestoreFiles(j, i)
          \/ RestoreState(j, i) \/ Restarted(j, i)

\* What a worker does by itself; some of it may turn out badly.
WorkerStep(j) ==
    \/ Begin(j) \/ Enter(j) \/ Claim(j) \/ TakeLocks(j) \/ LocksRefused(j)
    \/ ForwardStep(j) \/ ServiceStep(j) \/ RollbackStep(j)
    \/ Superseded(j) \/ Release(j)

WorkerFault(j) == StepFails(j) \/ Interrupted(j) \/ Crash(j) \/ Stall(j)

RouteStep == RouteUnlocks \/ \E j \in Jobs : RouteAssigns(j)

UserStep(u) == Works(u) \/ Refused(u) \/ WorkEnds(u)

BackupStep == RestoreBackup \/ BackupEnds

Next ==
    \/ RouteLocks \/ Reserve \/ RouteStep \/ RouteGivesUp
    \/ \E j \in Jobs : Push(j) \/ HandOver(j) \/ WorkerStep(j) \/ WorkerFault(j)
    \/ \E e \in Entities : LocksExpire(e)
    \/ \E u \in Users : UserStep(u) \/ \E i \in Instances : Guard(u, i)
    \/ BackupLocks \/ BackupStep

Spec == Init /\ [][Next]_vars

\* Workers work, the poller reconciles, requests and jobs of others end, keys
\* expire. Nobody has to ask for anything.
Fairness ==
    /\ \A j \in Jobs : WF_vars(Push(j)) /\ WF_vars(WorkerStep(j))
    /\ WF_vars(\E j \in Jobs : HandOver(j))
    /\ WF_vars(RouteStep)
    /\ \A e \in Entities : WF_vars(LocksExpire(e))
    /\ \A u \in Users : WF_vars(UserStep(u))
    /\ WF_vars(BackupStep)

FairSpec == Spec /\ Fairness

-----------------------------------------------------------------------------
(* Properties.                                                             *)

\* The journal never understates what was done: whatever a crash leaves on the
\* controller or on the host that is not the old runtime's, a rollback knows
\* of. (host_runtime_upgrade.py records each intent before its side effect.)
JournalCovers ==
    Reserved => \A i \in Instances :
                    /\ inst[i].tree # "minqlx" => log[i].convert # ""
                    /\ inst[i].files # "minqlx" => log[i].configure # ""

\* A server never runs with the files of two runtimes, not even while one
\* instance cannot be rolled back: files are changed under stopped services
\* and services are started on complete files. (What a user starts who got past
\* the guard, BlockedWhileReserved, is not the upgrade's.)
RunsOneRuntime ==
    \A i \in Instances \ meddled :
        inst[i].svc = "active" => inst[i].tree = inst[i].files /\ inst[i].tree # "mixed"

\* The execution that owns the operation does not work on the host beside a
\* user's operation on one of its instances.
UsersExcluded ==
    \A j \in Jobs, u \in Users :
        /\ user[u].phase = "working"
        /\ Owns(j) /\ Reserved
        => job[j].pc \in {"", "enter", "claim", "lock", "cancel", "release"}

\* A backup is never restored over the row that is a host's reservation and
\* rollback journal (backup_routes.py:76-78).
RestoreAlone == restore = "running" => ~Reserved

\* What the end of the reservation leaves behind: the new runtime everywhere;
\* or the old one everywhere; or nothing has happened. Instances that were
\* restored run if they ran; the status of those that were never stopped is
\* what it was. (Of one whose stop failed nothing is promised here.)
AsBefore(i) == /\ inst[i].status = log[i].original
               /\ inst[i].svc = IF log[i].original = "running" THEN "active" ELSE "inactive"

AllOn(runtime) ==
    /\ host = [status |-> "active", runtime |-> runtime]
    /\ \A i \in Instances : inst[i].tree = runtime /\ inst[i].files = runtime

UpgradeEnd ==
    CASE op.state = "succeeded" ->
            AllOn("minqlxtended") /\ \A i \in Instances : AsBefore(i)
      [] op.state = "rolled_back" ->
            /\ AllOn("minqlx")
            /\ \A i \in Instances : RolledBack(i)
            /\ \A i \in Instances \ meddled :
                  /\ "ok" \in {log[i].stop, log[i].rollback} => AsBefore(i)
                  /\ log[i].stop \in {"", "verified_inactive"} => inst[i].status = log[i].original
      [] op.state = "failed_preparation" ->
            /\ AllOn("minqlx")
            /\ \A i \in Instances \ meddled : inst[i].status = log[i].original
      [] OTHER -> FALSE

UpgradeOutcome == [][Reserved /\ ~Reserved' => UpgradeEnd']_vars

\* AtomicUpgrade, in which an upgrade has neither jobs nor journals.
Atomic ==
    INSTANCE AtomicUpgrade WITH
        reserved <- Reserved,
        runtime <- [i \in Instances |->
                      IF inst[i].tree = host.runtime /\ inst[i].files = host.runtime
                      THEN host.runtime ELSE "between"]

AtomicSpec == Atomic!Spec

\* Whatever dies, the host does not stay reserved.
ReservationEnds == Reserved ~> ~Reserved

\* A finished upgrade stays finished, however late a worker wakes up that was
\* given up on: state and host are changed by the next reservation only.
TerminalIsFinal ==
    [][op.state \in Terminal =>
          \/ op'.state = op.state /\ host' = host
          \/ Reserve]_vars

\* Nor does such a worker of the last upgrade reach the host's files again
\* (token_decision): whatever ended the upgrade has been there with a newer
\* token, or said that it is final. (Of the upgrades before the last, the
\* host's record says nothing any more.)
RemoteFenced ==
    [][\A j \in Jobs :
          op.state \in Terminal /\ job[j].of = op.id /\ job'[j] # job[j]
          => \A i \in Instances : inst'[i].files = inst[i].files]_vars

\* runtime_upgrade_guard.py:3-4: "A nonterminal HostRuntimeUpgradeOperation row
\* blocks every host and instance mutation until the operation finishes". A
\* user's request that passed the guard before the row was there is not blocked:
\* TLC refutes it with one user and Faults = {}.
BlockedWhileReserved == meddled = {}

\* tests/runtime_upgrade_harness.py:312, of a host that was rolled back:
\* "assert inst.status == original['status']". TLC refutes it with one failing
\* step, Faults = {"playbook"} and Budget = 1.
RolledBackStatus ==
    [][Reserved /\ op'.state = "rolled_back" =>
          \A i \in Instances : inst'[i].status = log[i].original]_vars
=============================================================================
