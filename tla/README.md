# A verification project for QLSM

QLSM manages Quake Live game servers: a Flask application with a React
frontend keeps hosts and instances in SQLite, takes locks in Redis, hands
long work to RQ workers that run Terraform and Ansible, and a poller watches
the game hosts. This directory models the part of it that decides what happens
when several of these processes work on the same host or instance, and when
one of them fails: the locks, the operations on instances and hosts, the runtime
upgrade, restores of backups, shared RCON connections, and the watchdog that
runs on the game hosts.

## The system

| part | code | state | operations |
|---|---|---|---|
| task locks | `ui/task_lock.py` | Redis: one key per host or instance with a TTL and the owner's token, an index of the locked entities, one maintenance key | Lua scripts: acquire, release by token, release by force, acquire maintenance |
| instance operations | `ui/routes/instance_routes.py`, `ui/tasks.py`, `ui/task_logic/ansible_instance_mgmt.py`, `ansible_runner.py`, `ansible_instance_hooks.py` | the instance row's status, the RQ queue, the systemd unit on the game host | deploy, restart, stop, start, change config, change lan rate, delete |
| failure handling | `ui/task_logic/job_failure_handlers.py`, `interrupted_job_recovery.py` | none of its own | RQ's failure callback, its callback for abandoned jobs, the poller's sweep for stale heartbeats |
| runtime upgrade | `ui/runtime_upgrade*.py`, `ui/task_logic/host_runtime_upgrade*.py`, `ansible/files/qlsm_runtime_op.py` | an operation row with a fencing token, per-instance records, snapshots on the host | reserve, preflight, quiesce, install, convert, configure, start, roll back, recover |
| host operations | `ui/routes/host_routes.py`, `ui/task_logic/terraform_*.py`, `ansible_host_setup.py`, `standalone_host_setup.py`, `ansible_workshop_update.py`, `ansible_plugin_update.py` and others | the host row's status, the cloud machine, its workspace's name | provision and set up, adopt, rerun set-up, reboot, resize, rename, QLFilter, timers, workshop and plugin updates, destroy |
| backups | `ui/routes/backup_routes.py`, `ui/task_logic/backup_*.py` | an archive, the swapped-out configs | export, import |
| RCON | `rcon_service/`, `ui/rcon_*.py`, `ui/socketio_events.py` | who owns which server, rooms, one connection per server | join, leave, select a fleet, command, disconnect |
| watchdog | `ansible/files/ql-watchdog/watchdog.py`, on every game host | strikes and CPU samples per server, the restarts it remembers | check all servers, capture a backtrace, restart |
| poller | `ui/cli.py`, `ui/task_logic/server_status_poll.py`, `instance_runtime_reconciliation.py` | caches | poll, promote, reconcile |
| the rest | presets, drafts, plugin pool and repositories, addons, users, settings, notifications, CPU affinity, admin permissions, frontend, logging stack, installer | files and rows | CRUD |

The processes are: gunicorn with one worker and threads, two RQ workers by
default (`docker-compose.yml`), the RCON service, the status poller. They share
Redis, one SQLite file and the configuration trees, and nothing else. A route checks a status, takes a
lock, commits a transitional status and enqueues a job that carries the lock's
token; the job's `finally` releases it. Every one of these is a commit or a
Redis call of its own, so anything may happen between two of them.

## What is hard about it, and what should hold

Nothing in QLSM is distributed in the usual sense, but every operation is
spread over a web thread, a Redis lock, a database row, a queued job and a
machine reached by SSH, and each of these can be ahead of or behind the others.

- **Task locks.** Acquiring several locks is several Redis calls, each of which
  may be refused, may raise, or may run without its reply arriving; the owner
  may die; keys expire on their own clock. *One operation per entity; a backup
  alone; nothing left behind; nothing locked for ever.*
- **Instance operations.** Status check, lock, commit and enqueue are four
  steps of a thread; the job runs later; a failing playbook, a job timeout, a
  killed worker and a dead web process each end the operation at a different
  place, and three parties clean up after it (RQ's failure callback, RQ's
  callback for abandoned jobs, the poller). *Operations on an instance exclude
  each other; who has the lock keeps it; what the status says of a settled
  instance is true of its service; no instance stays in a transitional status.*
- **Runtime upgrade.** A saga over all instances of a host, with a journal, run
  by a job that may be superseded by a recovery job while it still runs.
  *The host ends on one runtime, old or new; the journal never understates what
  was done; no server runs the files of two runtimes; one execution owns the
  operation and an ended one stays ended; users and backups are kept out; the
  reservation ends.*
- **Host operations.** Locks handed from one job to the next (provision to
  setup), a rerun that takes the locks of all instances, destroys that outlive
  their TTL, a delete that force-releases, terraform killed half way. *As for
  instances, and: the hand-over loses no lock and frees none early; every lock
  comes back; no cloud machine is forgotten.*
- **Backups.** A restore swaps file trees child by child and then the database,
  under the maintenance lock, which requests on presets and packages do not look
  at. *All or nothing, whichever step fails; nothing is lost on the way.*
- **RCON.** Several browser sockets share one connection per server; the last
  to leave closes it, while another joins or its own handlers still run. *No
  connection without a subscriber, none closed under one; a closed session
  leaves nothing behind; nobody waits for ever.*
- **Watchdog.** It samples servers once per interval; between two samples they
  freeze, recover, are stopped and started. *Only the stuck are restarted, not
  too often, and none stays stuck.*
- **Poller.** It writes statuses it derived from observations made earlier.
  *It does not overwrite what an operation has written since.*

The list "hazards" in PROJECT.json has each of these at its line, with the
properties that are about it, or a note saying why there is none yet.

## Modules

| module | what it is | EXTENDS / INSTANCE |
|---|---|---|
| `RedisLock` | the Lua scripts of `ui/task_lock.py` on Redis keys | |
| `TaskLock` | the Python functions of `ui/task_lock.py` as their callers run them, call by call | EXTENDS `RedisLock` |
| `EntityExclusion` | abstract: one operation per entity, a backup alone | implemented by `TaskLock`, `InstanceOps` and `HostOps` |
| `InstanceOps` | routes, jobs, failure handlers and recovery of an instance | EXTENDS `RedisLock` |
| `MCInstanceOps` | the symmetry set for TLC | EXTENDS `InstanceOps` |
| `HostOps` | routes, jobs and failure handler of a host, with the operations on its instances in outline | EXTENDS `RedisLock` |
| `RuntimeUpgrade` | the upgrade of one host, with its clients | |
| `AtomicUpgrade` | abstract: a host is on one runtime or the other, or reserved | implemented by `RuntimeUpgrade` |
| `BackupRestore` | export and restore of a backup, with requests on presets and packages beside them | |
| `RconRooms` | sessions, ownership, rooms, gates and the connections of the RCON service | |
| `Watchdog` | the watchdog's loop, with the servers and their users | |
| `MCHostOps`, `MCBackupRestore` | symmetry sets and views | EXTEND the module they name |
| `RedisLockProofs`, `TaskLockProofs`, `InstanceOpsProofs`, `RuntimeUpgradeProofs`, `BackupRestoreProofs`, `HostOpsProofs`, `RconRoomsProofs`, `WatchdogProofs` | lemmas and theorems | EXTEND the module they name |

Definitions named `...Unchecked`, `...Unrecorded`, `...ByForce`, `...Keeping`
and the like, commented "Faulty variant", are used by nothing. Each is a way
the code could plausibly be wrong; putting one in place of the definition it
varies makes the property named in PROJECT.json ("mutants") fail.

### RedisLock and TaskLock

Redis runs a script atomically, so a script is one action. `lock[e]` is the
value of the key of host or instance e, `index` the set of indexed entities and
`maint` the value of the maintenance key; `None` is an absent key. The
maintenance script drops index entries whose key is gone and refuses if one is
left, which `AcquireMaint` and `MaintRefused` do in one step.

A caller of `TaskLock` is a token. `pc`, `todo` and `held` are its position and
the locals of `acquire_locks` and `release_locks`: the sorted walk, the release
of what was taken when the walk is refused or raises, the `finally` of the
tasks. A Redis call that raises may or may not have run its script
(`AcquireRaised`). A caller may die at any step with its keys in place
(`Crash`); keys expire when nobody relies on them (`Expire`; at any time if
`Overrun`); `ForceRelease` is `force_release_lock` used as its docstring
demands. `Recycle` gives a token to a new operation once Redis has forgotten
it, which stands for uuid4 in a finite instance.

### InstanceOps

A request, its lock token and its job are one thing, because the route makes
one uuid4 and enqueues at most one job that carries it. `req[r].phase` is the
position of route and job together: `Check` (guards), `Acquire`/`Refused`,
`Commit`, `Enqueue`, or one of the exits of the routes (`CommitFails`,
`EnqueueFails`, `Unlock`, `Undo`, `Drop`, `PrepareFails`); then `Pop` by a
worker, `Begin`, `Playbook`, one of `RecordOk`, `RecordFailed`, `RecordCut`,
`RecordDeleted`, and `Finish`, the task's `finally`. `HandlerReads` and
`HandlerWrites` are RQ's failure callback, which reads before it writes; the
recovery actions are `recover_interrupted_instance`, with the SSH probe between
its check and its write, for both its callers. `svc` is the systemd unit.
`tainted` is history: it marks instances on which one of three named races
happened, so that `StatusTruth` can say what holds otherwise.

### HostOps

`hstat` and `istat` are the statuses of the host and, in outline, of its
instances; `machine` says that a cloud machine runs, `ws` that the row knows
its workspace. `req[r]` is again a request with its token and its job: a route
(`Check`, `Acquire`/`Refused`, `Commit`, `Enqueue`, or an exit), the locks of a
rerun one by one (`List`, `Take`, `TakeRefused`, `ReleaseHeld`, `Revert`), the
job (`Start`, `RecordWorkspace`, `Run`, `Record`, `RecordDeleted`), and its end
(`Finish`, or `Unwound` and the failure handler in two steps). The twelve host
operations share these actions; `Admits`, `RouteWrites`, `JobWrites`, `Expects`
and `Concludes` are the tables of what tells them apart.

Provisioning enqueues the setup job with its own token (`Handoff`) and only then
looks whether it should keep the lock (`TailReads`); between the two the setup
job may run to its end. So `tail[r]` is that provision job, `req[r]` already the
setup. `aged` says that a stuck host's row has not been written for 20 minutes
(`Age`). A deletion that reads such a row (`FoundStuck`) takes the host's lock
whosever it is by then (`ForceRelease`), as `delete_host_api` does: it asks neither
who holds it nor whether the row has changed. `robbed` is history: the request at
work lost the host's lock to such a deletion, or to the failing provision job
behind it (`TailFails`).

`Snapshot` and `Reconcile` are a rerun's walk over the instances, `Mark`, `Settle`
and `Undo` those of a workshop or plugin update, and `loose` the restart jobs it
queues without a lock or callback. `IAdmits` ... `IFinish` are the
instance operations as the host sees them: guard, lock, outcome. `stranded` is
history: the process that had to end the host's transition has died and no
callback runs for it.

### RconRooms

Every Socket.IO handler runs in a thread of its own, `th[x]`. A registry mutation
holds its stripe's lock and is one action; `join_room`, `leave_room` and
`publish_json` are actions of their own. `gate[t]` and `fleetGate[s]` are the
FIFO tickets, `session[s]` and `Active` the draining of a session that closes.
`conn[s][t]` is none, established, failed or the thread whose publication is
pending. `chan[t]` are the messages on their way, `svc[t]` what the service,
which serves them in order under one lock per server, holds. `EndConnection` counts the participants of a room and, when
nobody is left, publishes the disconnect; a count that fails counts as somebody.
`apart` is history: a failure that nobody repairs, reported to a user or only logged,
left room and connection apart.

### Watchdog

Time is counted in check intervals; it passes while the watchdog sleeps (`Wake`)
and while it captures a backtrace and restarts (`Capturing`). In a round it takes
the listed units in order: `Skip`, `Gone`, `Healthy`, `Suspect`, `GiveUp` or
`Decide` and `Restart`. Servers freeze, thaw and collect a backlog, users stop
and start them at any moment. `worked[u]` stands for "the CPU time differs from
the sample". `idle` and `issued` are history, by which the properties judge the
watchdog's own `strikes` and `restarts`.

### BackupRestore

`files[c]` is what a managed tree holds of a child, `rows[c]` what the database
holds about it, `archive` the backup. A restore displaces the children of a tree
one by one, installs those of the archive, does the same with the presets tree,
reloads the database in one transaction and removes the displaced copies
(`Begin`, `Displace`, `Install`, `Reload`, `Clean`); `Crash` ends it anywhere. When
a step fails (`Fail`), what its tree has installed is removed (`Unwind`, `Remove`),
then that of the other tree, and the displaced copies come back (`UndoAll`,
`MoveBack`). A removal that fails is logged and passed over: the child stays, and
`shutil.move` may then put the old folder inside it, or be the next to fail. Moves
may also break off half way, as the copy-and-delete fallback of `shutil.move` does
(`DisplaceBreaks`, `InstallBreaks`). `Mixed` is a folder with parts of several
contents, or a part of one; `debris` are the copies that were left, beside a child
or inside it. `SaveFolder`/`SaveRow` and `DeleteRow`/`DeleteFolder` are the two
halves of preset requests, `Replace` one on an addon package or a plugin (`Open`);
neither takes a lock. `before`, `touched`, `stuck` (where the rollback failed or a
move broke off) and `outcome` are history.

### RuntimeUpgrade

`op` is the `HostRuntimeUpgradeOperation` row and `log` its per-instance
outcomes; `host` and `inst` the rows, the local trees, the files and units on
the game host; `fence` what `qlsm_runtime_op.py` recorded there. `job[j]` is an
RQ job and the `Execution` it runs: `pc` is the next thing it does, `todo` the
instances its step has left. Every commit, playbook and Redis exchange is an
action. `Owns` is the compare in the WHERE clause of `Execution.commit` and
`claim_operation`; `Fence` is `Execution.fence`, which also renews the locks.
Forward steps come in pairs (`StopAsk`/`Stopped`, `SwapAsk`/`Swap`,
`ConfigureAsk`/`Configure`, ...): the commit of the intent, and the effect with
the commit of its outcome. `Rollback`, `Quiesce`, `RestoreTree`, `FilesAsk`,
`RestoreFiles`, `RestoreState`, `Restarted` and `Finish` are the rollback;
`HandOver` is `request_recovery` by the poller or by RQ's callback. A worker
that is refused a lock gives back those it got, also the ones it took from another
execution (`LocksRefused`). Around it run the request (`Route...`, `Reserve`), users'
operations (a guard, a lock, a job) and a backup.

A worker may die (`Crash`) in the middle of a playbook or of a tree swap
(`CutShort` says what that leaves), may be declared dead and go on (`Stall`),
and may be interrupted by the job timeout (`Interrupted`, and the swallowed
timeout in `ServiceRuns`).

## What the runs show

| run | instance | shows |
|---|---|---|
| `tasklock` | 3 entities, 3 callers | types, maintenance excludes tasks, callers own what they hold, nothing is left behind, `EntityExclusion` is implemented, keys of the dead go away |
| `instance_safety` | 1 instance, 2 requests, 2 workers, 7 operations, all faults but "delay" | the lock stays with its owner, operations exclude each other, settled statuses are true |
| `instance_settles` | the same, "playbook" and "crash" | no instance stays in a transitional status |
| `upgrade` | 2 instances, 2 jobs, any 2 of failed step, blind probe, crash | journal, files and outcome; `AtomicUpgrade` is implemented |
| `upgrade_clients` | 1 instance, 2 jobs, a user, a backup, 1 fault of five kinds | users and backups are kept out; the reservation ends |
| `upgrade_fenced` | 1 instance, 2 jobs, 2 upgrades in a row, 2 faults, stalls among them | what has ended stays ended, in the database and on the host |
| `host_ops` | 1 host with 1 instance, 2 requests, 2 workers, 6 host and 3 instance operations, 5 kinds of faults | locks go from hand to hand without a gap and all come back; operations exclude each other (`EntityExclusion` again), unless one is robbed of the host's lock; no machine is forgotten |
| `host_settles` | the same, 4 operations (resize among them), 4 kinds of faults | a host leaves every transitional status unless nobody is left to end it |
| `rcon` | 2 sessions, 1 server, 2 handlers at once | owner, room and connection agree when no handler is at work; no command behind a disconnect; closed sessions leave nothing; every handler ends |
| `watchdog` | 1 server, 2 strikes, 2 restarts in 9 intervals, 2 mishaps | only stuck servers are restarted, not too often, none stays stuck |
| `restore` | a child that jobs and requests change, a preset, 2 contents, 3 mishaps | all or nothing, but where the rollback failed too; nothing lost before the commit |

One more run, `timeout_stuck`, ends in a counterexample: failure handlers are said
to see to timeouts, so that nothing is stuck in a transitional status
(`job_failure_handlers.py:4-8`), but `_run_ansible_playbook` catches the timeout
(`ansible_runner.py:135`), the job "succeeds" and the status stays.

Seven more properties stand in the modules, each with what the repository says in
its comment. No run checks them, because TLC refutes them; their comments name
the faults with which it does so.

| property | says | the code |
|---|---|---|
| `InstanceOps!BackupAlone` | a restore never overlaps an Ansible run (`task_lock.py:13-15`) | the lock's 180 s run from the request, the job's 120 s from when a worker is free |
| `InstanceOps!RecoveryYields` | recovery yields to a newer operation (`interrupted_job_recovery.py:60-61`) | it checks, probes over SSH for seconds, and writes without checking again |
| `InstanceOps!StoppedRemainsStopped` | a stopped instance whose config is synced "remains STOPPED" (`ansible_instance_mgmt.py:699`) | the route reads the status to keep before it has the lock |
| `RuntimeUpgrade!RolledBackStatus` | a rolled back instance has its original status (`tests/runtime_upgrade_harness.py:312`) | after a failed stop, `_leave_untouched` does not look at the status the stop wrote |
| `RuntimeUpgrade!BlockedWhileReserved` | a reservation blocks every mutation (`runtime_upgrade_guard.py:3-4`) | a request that passed the guard before takes its lock after the reserving request has released its own |
| `HostOps!NobodyRobbed` | a lock is released by force only "when the lock is known to be stale" (`task_lock.py:243`) | `delete_host_api` goes by the status and `last_updated` it has read (`host_routes.py:901-910`): of two deletions that read the row of one stuck host the second takes the first's lock |
| `BackupRestore!RolledBackWhole` | "On any failure, everything already swapped is rolled back" (`backup_import.py:10-11`) | a removal of the rollback that fails is logged only (`backup_import.py:123-131`), and a move that broke off half way is not noted as done |

### Bounds, and why they are enough

- `tasklock`: with three entities `acquire_locks` can fail after none, one or
  two locks; with three tokens two tasks and a backup meet.
- `InstanceOps`: the entities are independent of each other except through the
  queue and the maintenance lock, so one instance with two requests has every
  pair of operations against each other and against a backup; a request that is
  done may become another. Two workers are docker-compose's default. `Token` is
  a symmetry set in the run without liveness.
- `RuntimeUpgrade`: the phases of the saga go over all instances in id order, so
  two instances have every case of one that is done, one in work, one not yet
  begun. Two jobs are an execution and the recovery that supersedes it; an id
  is used again when nothing knows it any more, so there may be any number of
  recoveries. `Budget` bounds faults, `MaxToken` claims and `Upgrades` the
  reservations; in `upgrade` the claims that two faults can cause fit into
  `MaxToken`. `Patient` is a bound too: without it a recovery that is refused
  its locks would spend all tokens while a user's operation runs.
- `UpgradeOutcome` and `UsersExcluded` are checked without stalls, see below.
- `HostOps`: a request that is over becomes another, so two requests have every
  operation against every other, after any history; with one host and one
  instance both levels of locks occur. Six of the twelve
  host operations are in the run, those that take other locks, hand theirs over,
  write statuses of instances or make and destroy machines; resize, which restores
  a status, is in `host_settles`; rename, QLFilter install and status, reboot and
  timers, which do none of this, are not in the runs (the proofs are about all
  twelve). `VIEW` leaves out `index`, which nothing here reads, and `stranded`. Not
  among the faults of the runs are "delay" and "mistaken", with which TLC refutes
  the properties, and "slow", see below.
- `RconRooms`: two sessions on one server have each pair of join, leave, fleet
  selection, command and disconnect at once; `MaxQueue` lets one message be on
  its way and keeps a handler from sending another meanwhile, which only delays
  it. Different servers meet in a session's fleet selection, where the gates are
  taken one after the other and never two at once.
- `Watchdog`: units are independent but for the order in which a round takes them
  (two were checked for safety alone: 2.06 million states). `Window` has room for
  more restarts than `RateMax` allows at the fastest, `Delay` lets a capture take
  two intervals, `MaxFaults` bounds mishaps of the watchdog; what servers and
  users do is not bounded.
- `BackupRestore`: children of a tree are moved independently of each other; one
  in each of the two trees gives every order of a failure against both swaps.
  Two contents tell old from new. Three mishaps are a step that fails, a removal
  of the rollback that fails and the move after it, or a failed rollback and then a
  second restore that fails, or a crash. The child outside the presets is one that
  requests change beside the restore, and so has no row in this run; a child that
  has one and is left alone is a preset that no request touches. `VIEW` forgets
  history of children about which the properties say no more.

The deadlock check is on for `TaskLock`, `InstanceOps`, `Watchdog` and
`BackupRestore`. It is off for `RuntimeUpgrade`, where everything may be done
(the upgrade has ended, `Upgrades` is used up and the user and the backup have
gone), for `HostOps`, where a host may be stranded with all its requests lost and
their keys expired, and for `RconRooms`, whose progress `HandlersEnd` states.

### Fairness

`TaskLock`: a started operation goes on (threads, and jobs under a timeout) and
Redis expires keys. `InstanceOps`: admitted requests and started jobs go on, the
poller polls every 15 s, RQ sweeps its registry, keys expire; nobody has to ask
for an operation, so `Settles` allows an instance to be transitional for ever
only if users keep it busy. `RuntimeUpgrade`: jobs are pushed and worked on, the
poller reconciles every 60 s, requests, users' jobs and backups end, keys
expire. `HostOps`: routes run on, workers are restarted and end their jobs within
the timeout, RQ calls the failure handlers, keys expire. `RconRooms`: handler
threads run on and the service reads its channel. `Watchdog`: its loop runs on
and its commands have timeouts. `BackupRestore` states no liveness. Fairness is
weak everywhere, and never on a fault, on a user's request or on a particular
outcome of a playbook.

## What is proved

TLAPS checks the theorems for every value of the constants: any number of
entities, callers, instances, requests, workers, jobs, users, sessions and servers.

**TaskLockProofs** (from `RedisLockProofs`, one lemma per script).
`KeysStayConsistent` (and `TypeCorrect`): types, `IndexCoversLocks` and `MaintenanceExclusive`, even
when TTLs run out under their owners. `NoLockLeftBehind`, from `CallerInv`: what
Redis has of an operation is what it still believes to hold or has still to
release. `CallersOwnWhatTheyHold` and `LocksImplementExclusion` assume
`~Overrun`: TTLs outlast their owners. `BackupAlone` (above) shows that the
assumption is not always kept by the routes.

**InstanceOpsProofs.** `TypeCorrect`, `OwnersHoldTheirLocks` and
`OperationsExclude` (the refinement of `EntityExclusion`; the last two speak of
`"delay" \notin Faults`). `OwnerHoldsLock` is not inductive: a recovery in
flight will release its job's token, so `OwnerInv` adds that this job no longer
relies on the token, and that the token is not in use for a new request.
`StatusesAreTrue` and `QuietStatusesAreTrue` (`StatusTruth`) rest on `TruthInv`, on top of
`OwnerInv`. `StatusTruth` speaks of instances with nothing in flight; its inductive
form is stronger: an untainted instance is *never* shown as running or stopped if
it is not, because between the route's commit and the end of the playbook the
owner keeps a transitional status in front (`Hiding`). `RequestTruth` adds what a
request has read and will write (`seen`), `RecoveryTruth` that a recovery's probe is
still true when it is written: nobody owns the instance until then, or `Acquire`
has marked it. So the three races that mark an instance are all there are.

**RuntimeUpgradeProofs.** `NoRestoreUnderUpgrade` ([]`RestoreAlone`),
`OwnershipIsExclusive`, `FinishedStaysFinished` (`TerminalIsFinal`) and
`TypeCorrect`, with whatever faults and no assumption at all. 42 actions, most of
them a worker's, are a `WorkStep`: one job goes on or ends, the row changes only
under its owner, foreign locks are left alone. Each is shown to be one in a
lemma of its own (`...Works`); the invariant is shown to survive a `WorkStep`,
and then each action that is something else: those of the request and the
poller, a job's entry and claim, the users', the backup's and the expiry of
locks. The invariant:

- `LockInv`, for the restore: a reservation is made under every lock of the host
  and a restore while there is none, and neither has the other's locks taken.
- `OwnerInv`, for finality. `fail_preparation` is the one commit that ends an
  operation without comparing its state, so it must be known that an owner that
  gets there finds the operation in preparation. Tokens say so: an execution
  goes forward only if nobody claimed the operation since its job was made.
- `JobInv`, for that: no two executions took ownership with one token, there is
  one forward job of an operation, and a recovery's job is never there without
  `recovery_required`.

What an upgrade does to a host is proved under `NoStall` ("stall" is not among
the faults): a worker whose job RQ has given up does not go on. Crashes, failing
and interrupted steps, blind probes, lost jobs and any number of recoveries
remain. The assumption is needed: a worker that goes on swaps trees and plays
playbooks without owning anything, and takes its successor's locks (next
section). The invariants are layered, each proved on top of those before it:

- `SoleInv` and `LocksHeld` (`SoleWorker`): whoever is past its claim of a
  reserved host is the operation's `job` with its token, with nobody beside it,
  or one of those that only clean up a preparation (`Tidying`); it holds every
  lock from `TakeLocks` to `Release`. `UsersKeptOut` ([]`UsersExcluded`) follows,
  because a user's job holds a lock too.
- `RecordInv` (`UpgradeInvariant`). `JournalCovers` alone is not inductive: that
  the commit of an intent comes before its effect has to be said for the
  instance the step is about to touch (`Forward`, `Back`), that nothing is marked
  restored that is not (`BackInv`), and that preparation has touched nothing
  (`PreInv`). `JournalSuffices` ([]`JournalCovers`) is a part of it, and its part
  `EndInv` (an ended upgrade leaves the tree and the files of every instance with
  the host's runtime) makes every end a step of `AtomicUpgrade`: `UpgradeAtomic`
  (`AtomicSpec`).
- `StillInv`, for `OneRuntime` ([]`RunsOneRuntime`): which services are down where.
  Going forward all are, from the last stop to the first start; going back, those
  that were touched and are not restored yet (`Pending`) are, or the instance is
  in `failed` and left alone.
- `OutcomeInv`, for `OutcomeKept` (`UpgradeOutcome`): what the end will find. At any
  moment an instance is `Fine`: if it is rolled back and was stopped, it is as
  before (`Restored`), and if nobody stopped it and nothing done to it is left to
  undo, its status still is the one recorded (`Spared`). Of one that is still to be
  restored nothing is said. `Untried` says that a preparation has recorded no
  stop. `ForwardFine` follows the instances that are up again on the way to
  `succeed`; `BackFine` says that a rollback stops and starts only what it has to,
  which is why an instance that was `Spared` stays so. The three ends are then read
  off these and `RecordInv`.

**BackupRestoreProofs.** `RestoreIsAllOrNothing`, `NothingIsLost` and
`RestoreTypes`, with no assumption but `RestoreAssumption`: any trees and
contents, any number of failures, of the rollback's own steps too. `AllOrNothing`
promises the files of a child only if no second step failed at it (`stuck`), its row
always. `RestoreInv` says of every untouched child
where its old and its new content are, by how far the restore has come: still
`Pristine`, moved `Aside`, or `Swapped`; in the rollback `ToReturn`, with its copy
noted and its place free unless its removal failed, `Returned` or left somewhere,
or, if it is new, `Fresh`: removed, still to be removed, or `stuck`.
`StillRunning` draws the properties from that, once for all steps; `Beside` shows
that a request disturbs only what it touches.

**HostOpsProofs.** `HostTypes`, `LocksAreHeld` (`HoldersLocked`), `LocksAreReturned`,
`NoMachineForgotten` (`NoOrphanMachine`) and `HostWorkExcludes` (`OneAtATime`, the
refinement of `EntityExclusion`). They assume `Punctual`: no TTL runs out under a
working operation ("delay" and "slow" are not among the faults);
`NoMachineForgotten` also that a failing terraform is not mistaken for a machine
already gone. Everything else may fail, with two exceptions that `Holds` makes. A
provision job that dies, or fails at its last write, after it enqueued the setup
releases the lock the setup works under (`TailFails`); a deletion that found the
host stuck takes the lock of whoever has it by then, say of another such deletion
(`ForceRelease`). The one robbed is not counted as working on the host from then on;
what it holds of the instances' locks it keeps. So what is shown is that these two
are all there are: the release by force, in particular, does no harm to an operation
unless some deletion read the row while the host was stuck. `HostInv`, which TLC
checked first:

- `LocksOf`: a request has the locks it relies on and none but those it has still
  to release, so it must say in which phases a request only lets go.
- `NewHostAlone`, for the one lock that changes hands: the provision job keeps it
  for the setup it enqueued if the status is `pending_setup` when it looks, which
  may be after the setup is through. Nobody else gets at a host while it is
  made, so the status is what provision and setup left, and the lock is kept for
  a setup that runs or was released by it. That no deletion finds such a host stuck
  is `AgedInv`: whoever makes it works, and does not leave the row alone that long.
- `HostOf`, for that: the statuses a new host can have, by how far its making is.
- `CloudOf` and `Cloud`: a machine is there only with the workspace recorded, and
  the host's row does not go before its machine.
- `PlaceOf`: which operation can be in which phase.

A lemma per shape of step (a route's, a job's, one that ends an operation, one
that only lets go) shows that it keeps the invariant and is a step of the
abstract specification at once (`Advance`); each action is shown to be of a shape.

**RconRoomsProofs.** `OwnersAreInRoom` ([]`OwnersInRoom`), `RoomsHaveConnections`
([]`RoomHasConnection`), `ClosedLeavesNothing` ([]`ClosedOwnsNothing`),
`CommandsFindConnections` (`CommandFindsConnection`) and `TypeCorrect`, for any
sessions, servers and handler threads (at least one of each of the first two).
They speak of moments at which nobody works on a server, so `RconInv` says what is
true while somebody does:

- `GateInv`: a ticket for each handler that waits or works, and who works is
  first. So one handler works on a server at a time, although the registry, the
  room and the channel are three different things.
- `SessionInv`: a session is closed by one handler, which has drained the others
  when it begins to release, and whose list has all that the session still owns.
- `WorkOK`: what a handler in the middle has still to make agree (`Joining`,
  `Leaving`); when it leaves, `SettledInv` holds again.

`ClaimsHold` is a by-product: the branch of `complete_connect` for a claim that
has gone stale is never taken, as the gate protects the claim already; and the
lemma `ClosedChangesNothing` says the same of mutations of a closed session.

**WatchdogProofs.** `RateLimit` ([]`RateLimited`), `OnlyStuckRestarted`
(`RestartsOnlyTheStuck`) and `TypeCorrect`, for any units, strikes, limits, windows
and mishaps. `WatchInv`: `SilentInv` ties the strikes to the process that is there
now (a sample that shows no work is one of a process that is stuck), and
`Covers` in `LimitInv` relates the list the watchdog keeps, pruned from the left as
`popleft` does and dated by when a restart was done, to the decisions as they were
taken: the j-th latest of each lie at most `Delay` apart as long as they count.

Model-checked only: `RemoteFenced`, which holds for the one upgrade
after another that `upgrade_fenced` has, but is not a property for every
`Upgrades` and `Budget` (next section), so there is no such theorem; and every
liveness property (`Settles`, `HostSettles`, `ReservationEnds`, `HandlersEnd`,
`HungIsRestarted` and others). Liveness under fairness and ENABLED are out of this
prover's reach, as are induction over data and RECURSIVE operators (there are none
here).

## What the properties do not say

- `Settles` is checked for failing playbooks and dying workers. It does not hold
  with "timeout" (`timeout_stuck`); with "exception" (a delete that raises
  leaves DELETING, `ansible_instance_mgmt.py:887`); with "enqueue", "webcrash"
  or "invalid" (the routes commit a transitional status first, and restart,
  stop, start and delete leave it there, `instance_routes.py:677-680`); or with
  "delay" and "crash" together. A deploy that is refused its lock leaves an IDLE
  row (`instance_routes.py:499-500`).
- `StatusTruth` exempts instances in `tainted`: a request that committed over a
  status newer than the one it had read, an operation admitted while a recovery
  or compensation was about to write, and the lan-rate compensation, which sets
  RUNNING whatever was there (`instance_routes.py:812-814`).
- `RunsOneRuntime` and `UpgradeOutcome` exempt instances in `meddled`: what a
  user does to an instance after passing the guard too early is
  `BlockedWhileReserved`.
- The local tree swap follows a fence and is not fenced itself
  (`runtime_upgrade_conversion.py:222`). A worker that stalls between the two
  swaps the converted tree in after the rollback. The step is in the model; the
  run that speaks of trees excludes stalls.
- `UsersExcluded` fails with two stalls: `RedisExecutionLocks.acquire`
  (`host_runtime_upgrade_deps.py:76`) force-releases any other token of the
  operation, a newer one's too (its docstring, lines 57-59, speaks of an older
  one), so a worker that stalls between claim and acquire takes its successor's
  locks, and then releases them.
- `RemoteFenced` speaks of the last upgrade. The host's record keeps only the
  last operation, so once that is final a worker of the one before is admitted
  again (`qlsm_runtime_op.py:93`); TLC finds it with two upgrades and two
  faults. What such a worker leaves is its own operation's record, which admits
  a late worker of the last one too: that takes a third job and two stalls, more
  than the run has.
- `HoldersLocked` and `OneAtATime` do not count an operation that was robbed of the
  host's lock, in one of two ways. A provision job that dies or raises after it has
  enqueued the setup (`terraform_provision.py:159`): the failure handler, or the
  job's own `finally` once it has written ERROR, releases the lock the setup works
  under (`tasks.py:117-122`). And a deletion that found the host stuck
  (`host_routes.py:901-910`), which looks at the status and `last_updated` it has
  read and at nobody's token. So two deletions of a stuck host both get through:
  the second releases the lock the first has just taken, both enqueue a destroy, and
  two terraform runs work on one workspace. Nothing has to be slow for that; TLC
  finds it with two requests (`NobodyRobbed`). In the same way a rename or a refresh
  of the QLFilter status, which ask for no status and may start on a stuck host,
  lose their lock to a deletion.
- `HoldersLocked` and `OneAtATime` fail with "delay". The lock of a destroy lives
  240 s and its job may take 1200 s (`host_routes.py:913`); when it runs out,
  another operation starts on the host. With "slow" a rerun that plays for more
  than 20 minutes counts as stuck, too, and a deletion robs it at its work; checked
  once beside provision and delete (213,387 states), and not in the proofs.
- `NoOrphanMachine` fails with "mistaken": a terraform error whose text contains
  "not found", or a workspace that cannot be selected, counts as "already gone"
  and the row is deleted (`terraform_destroy.py:127`).
- `HostSettles` exempts hosts in `stranded`. The setup job is enqueued without
  `on_failure`, and a route that dies, or whose enqueue fails, may leave its
  transitional status; nothing but a delete, 20 minutes later, helps such a host.
- The statuses of instances in `HostOps` are not promised to be true. Workshop and
  plugin updates write them, and restart instances, without the instances' locks
  (`ansible_workshop_update.py:45`), so they overwrite what an operation under the
  lock writes; instances may be created while a delete of their host is on its
  way, because a create looks at the host once, before it is admitted; and the
  host's failure handler writes ERROR over a newer operation's status
  (`job_failure_handlers.py:141`).
- `RoomHasConnection` exempts servers in `apart`: a disconnect that could not be
  published is never tried again, and none is sent when the participants of the
  room could not be counted (`_participant_count` then answers 1,
  `socketio_events.py:312-314`, and nobody is told). The browser hears of a failed
  publication only in `rcon:leave`; a disconnect's (`socketio_events.py:130`) and a
  fleet removal's failures are logged. `OwnersInRoom` is about a `join_room` and a
  `leave_room` that fail only where the code expects it, in the fleet handlers: the
  individual handlers do not guard these calls (`socketio_events.py:128`, `160`,
  `213`), and if one raises there, an owner stays without its room or a session
  in a room it does not own. That is not modelled. A restart of the RCON service is left out: the
  registry goes on saying "established" until somebody leaves and joins.
- `AllOrNothing` and `NothingLost` except children that a request touched while the
  restore ran: presets, addon packages (`ui/addons/install.py`) and plugins
  (`ui/plugin_repositories.py`). A preset's create that loses to the restored row's
  name removes the folder the restore has put there.
- `AllOrNothing` says nothing of the files of a child in `stuck`, after a failed
  restore: one whose removal failed in the rollback, which logs it and goes on
  (`backup_import.py:123-131`, called at 137 and 187), so that a newly installed
  child stays; one whose copy could not be moved back (141-145), or went into the
  folder that could not be removed (137-140); one whose own move broke off half way
  in the copy-and-delete fallback (`tests/test_backup_import_swap.py:98`), and so is
  not on the lists the rollback goes by (`RolledBackWhole`). `NothingLost` says where
  the old content is then: in a copy beside, or inside what could not be removed.
- After a crash the trees are mixed, too, though `docs/architecture.md:356` says they
  are "either fully old or fully new, never mixed"; what was there is still in
  displaced copies, which nothing ever puts back.
- `RateLimited` is about the window less the time a restart takes. A restart
  counts from the decision on, before the backtrace, so over a whole window there
  may be one more than `docs/api_reference.md:83-84` says. A server that a user
  stops during the capture is started again by the restart.
- A lock's TTL is taken to be longer than a request that has passed a guard
  (`LocksExpire`): one hour against one request.

## Not modelled

Within the modelled components: payloads (ports, plugins, factories, the
contents of snapshots, conversion rules, presets), stray processes as state (a
probe that sees one is the fault "unseen"), the exact TTLs and the grace periods
of 120 s and 300 s (they only delay), the journal's "start" key (it is only
there together with "convert"), unexpected exceptions of the recovery itself
(`host_runtime_upgrade_recovery.py:147`), `enqueue_task` returning None without
raising, runtime updates and RCON password changes of instances.

Of hosts: connection tests, backfills of the OS version, what the playbooks do. Of
RCON: the stats stream, which only a debug log level enables, authentication, and
reconnection inside a connection. Of backups: parsing, encryption, the pruning of
safety snapshots. Of the watchdog: the dry run, which only logs.

Whole components: PROJECT.json lists each with its reason. In short, CRUD over
files and rows (drafts, plugins, addons, users), declarative infrastructure
(Terraform, Ansible; their outcomes are the faults above), the frontend, the
logging stack and the installer. They are most of the repository by volume: the
preset and asset trees carry some 58,000 lines of game-server plugins, most of
them several copies of third-party code that QLSM copies to hosts and never runs,
and the frontend has some 60,000 lines. Of what is left, the modules cover the
parts that keep state between steps of several actors; the rest is mostly
request-local validation, formatting and rendering, with nothing to check that a
unit test does not reach.

## Plan

The first plan's task locks, instance operations, runtime upgrade, host
operations, restore, RCON rooms and watchdog are done. Left, in this order:

1. `RuntimeOpFence`: the lock helper on the game host (`qlsm_runtime_op.py`):
   the flock holder and its TTL, `token_decision`, the write-once inventories.
   Abstract specification: a register that only newer tokens write.
   `RuntimeUpgrade`'s `fence` is to be shown to be its abstraction.
2. `Presets`: update and import of presets and the drafts that are committed into
   them; the hooks files of an instance.
3. CPU affinity: the allocation of CPU sets to the instances of a host.

Theorems next: `RemoteFenced` for a single upgrade.
