------------------------- MODULE RuntimeUpgradeProofs -------------------------
(***************************************************************************)
(* For any number of instances, jobs and users, whatever fails.            *)
(*                                                                         *)
(* However late a worker wakes up: an upgrade that has ended stays ended   *)
(* (FinishedStaysFinished), and no backup is restored over one that has    *)
(* not (NoRestoreUnderUpgrade).                                            *)
(*                                                                         *)
(* Where no worker that was given up on goes on (NoStall): one execution   *)
(* at a time works on the host, under all its locks (SoleWorker), and no   *)
(* user beside it (UsersKeptOut); the journal covers what was done to the  *)
(* host (JournalSuffices); no server runs with the files of two runtimes   *)
(* (OneRuntime); the upgrade is atomic (UpgradeAtomic); and however it     *)
(* ends, it leaves what its end says (OutcomeKept).                        *)
(*                                                                         *)
(* Of the sixty or so ways to take a step most are a worker's, and do the  *)
(* same to what the first results speak of: see WorkStep. Each of these    *)
(* actions is shown to be a WorkStep; the invariant is then shown to be    *)
(* preserved by WorkStep, and by the few actions that are not one. What    *)
(* follows is layered on that: SoleInv says who is at work, RecordInv what *)
(* journal and host look like at each point of its way, StillInv which     *)
(* services are down there, OutcomeInv what the end will find.             *)
(***************************************************************************)
EXTENDS RuntimeUpgrade, TLAPS

-----------------------------------------------------------------------------
(* The inductive invariant.                                                *)

RowFields == {"id", "state", "token", "job", "required", "snapshot"}
JobFields == {"rq", "task", "of", "pc", "token", "known", "undo", "todo", "failed", "ok"}
UserFields == {"phase", "inst"}

\* What is needed of the types.
Shape ==
    /\ DOMAIN op = RowFields /\ op.id \in Nat /\ op.token \in Nat
    /\ DOMAIN job = Jobs
    /\ \A j \in Jobs : DOMAIN job[j] = JobFields /\ job[j].of \in Nat /\ job[j].token \in Nat
    /\ DOMAIN lock = Entities
    /\ DOMAIN user = Users
    /\ \A u \in Users : DOMAIN user[u] = UserFields

Unclaimed == {"", "enter", "claim"}
Early == {"validate", "snapshot", "recheck", "cancel"}

\* A job for the last operation; one that has taken its ownership.
Live(j) == job[j].rq # "none" /\ job[j].of = op.id
Claimed(j) == Live(j) /\ job[j].pc \notin Unclaimed

\* No two executions took ownership with the same token; there is one job that
\* goes forward, and it is not joined by one that rolls back unless the row
\* says so.
JobInv ==
    /\ \A j \in Jobs : job[j].of <= op.id
    /\ \A j \in Jobs : Live(j) => job[j].task \in {"upgrade", "recover"}
    /\ \A j \in Jobs : job[j].pc # "" => job[j].rq \in {"started", "stalled"}
    /\ \A j \in Jobs : Live(j) => job[j].token <= op.token
    /\ \A j, k \in Jobs : Claimed(j) /\ Claimed(k) /\ job[j].token = job[k].token => j = k
    /\ \A j, k \in Jobs :
          Live(j) /\ Live(k) /\ job[j].task = "upgrade" /\ job[k].task = "upgrade" => j = k
    /\ route \in {"reserved", "unlocked"} => \A j \in Jobs : Live(j) => job[j].task # "upgrade"
    /\ Reserved => \A j \in Jobs : Live(j) /\ job[j].task = "recover" => op.required

\* Before the point of no return, who owns the operation finds it in
\* preparation. The last conjunct is why: an execution goes forward only if
\* nobody has claimed the operation since its job was made.
OwnerInv ==
    \A j \in Jobs :
        Owns(j) =>
            /\ job[j].pc \in Early => op.state = "preparing"
            /\ job[j].pc \in {"claim", "lock"} /\ ~job[j].undo => op.state = "preparing"
            /\ job[j].pc = "claim" /\ ~job[j].undo =>
                  \A k \in Jobs : Claimed(k) => job[k].token # op.token

LockInv ==
    /\ Maintenance => \A e \in Entities : lock[e] = Nobody
    /\ route = "locked" => \A e \in Entities : lock[e] = Route
    /\ \A u \in Users : user[u].phase \in {"guarded", "working"} => user[u].inst \in Instances
    /\ \A u \in Users : user[u].phase = "working" => lock[user[u].inst] = User
    /\ \A u, v \in Users :
          /\ user[u].phase = "working" /\ user[v].phase = "working"
          /\ user[u].inst = user[v].inst
          => u = v
    /\ RestoreAlone

IndInv == Shape /\ JobInv /\ OwnerInv /\ LockInv

-----------------------------------------------------------------------------
(* What most steps of a worker have in common.                             *)

\* The job of execution k goes on. Only Begin takes it out of the queue, and
\* it is not moved before or over its claim, nor back to the preparation.
Continues(k) ==
    /\ DOMAIN job'[k] = JobFields
    /\ job'[k].task = job[k].task /\ job'[k].of = job[k].of
    /\ job'[k].token = job[k].token
    /\ job[k].rq # "none" /\ job'[k].rq # "none"
    /\ job'[k].pc # "" => job'[k].rq \in {"started", "stalled"}
    /\ (job'[k].pc \in Unclaimed) <=> (job[k].pc \in Unclaimed)
    /\ job'[k].pc \in {"claim", "lock"} => job'[k].pc = job[k].pc /\ job'[k].undo = job[k].undo
    /\ job'[k].pc \in Early => \/ job[k].pc \in Early
                               \/ job[k].pc = "lock" /\ ~job[k].undo
                               \/ op.state = "preparing"

\* Execution j ends, or its job goes on.
JobStep(j) ==
    /\ DOMAIN job' = Jobs
    /\ \A k \in Jobs \ {j} : job'[k] = job[k]
    /\ job'[j] = NoExecution \/ Continues(j)

\* Only its owner gets it on; what ends an operation does not open it again.
RowStep(j) ==
    /\ DOMAIN op' = RowFields
    /\ op'.id = op.id /\ op'.token = op.token
    /\ \/ op'.state = op.state /\ host' = host
       \/ /\ Owns(j)
          /\ Reserved \/ job[j].pc = "cancel"
          /\ job[j].pc \notin Unclaimed
          /\ job'[j].pc \notin Early \cup {"claim", "lock"}
    /\ Reserved' => Reserved /\ (op.required => op'.required)

\* Locks of users and of the request are let alone, and nothing is locked under
\* a backup.
LockStep ==
    /\ DOMAIN lock' = Entities
    /\ \A e \in Entities :
          \/ lock'[e] = lock[e]
          \/ /\ lock[e] \notin {User, Route}
             /\ lock'[e] \notin {User, Route}
             /\ Maintenance => lock'[e] = Nobody

WorkStep(j) == JobStep(j) /\ RowStep(j) /\ LockStep /\ UNCHANGED clients

-----------------------------------------------------------------------------
(* How a job goes on: each way the actions put it.                         *)

\* Execution j goes to pc.
Goes(j, pc) ==
    /\ DOMAIN job' = Jobs
    /\ \A k \in Jobs \ {j} : job'[k] = job[k]
    /\ DOMAIN job'[j] = JobFields
    /\ job'[j].rq = job[j].rq /\ job'[j].task = job[j].task
    /\ job'[j].of = job[j].of /\ job'[j].token = job[j].token
    /\ job'[j].pc = pc

LEMMA GotoGoes ==
  ASSUME Shape, NEW j \in Jobs, NEW p, Goto(j, p)
  PROVE  Goes(j, p)
BY DEF Shape, JobFields, Goto, Goes

LEMMA StageGoes ==
  ASSUME Shape, NEW j \in Jobs, NEW p, Stage(j, p)
  PROVE  Goes(j, p)
BY DEF Shape, JobFields, Stage, Goes

LEMMA DoneGoes ==
  ASSUME Shape, NEW j \in Jobs, NEW i, NEW p, NEW q, Done(j, i, p, q)
  PROVE  Goes(j, p) \/ Goes(j, q)
BY DEF Shape, JobFields, Done, Goes

LEMMA PassedGoes ==
  ASSUME Shape, NEW j \in Jobs, NEW i, NEW f, NEW p, NEW q, Passed(j, i, f, p, q)
  PROVE  Goes(j, p) \/ Goes(j, q)
BY DEF Shape, JobFields, Passed, Goes

LEMMA FailInstanceGoes ==
  ASSUME Shape, NEW j \in Jobs, NEW i, NEW now, NEW p, NEW q, FailInstance(j, i, now, p, q)
  PROVE  Goes(j, p) \/ Goes(j, q)
BY PassedGoes DEF FailInstance

\* Where an execution is after the preparation.
Later == {"stop", "stopcall", "stopplay", "stopped", "install", "installing",
          "convert", "swap", "swapping", "runtime", "configure", "play",
          "playing", "start", "startcall", "startplay", "started", "succeed",
          "rollback", "quiesce", "back", "tree", "files", "replay",
          "restoring", "state", "finish", "finalize", "release"}

LEMMA LaterStep ==
  ASSUME Shape, NEW j \in Jobs, job[j].rq \in {"started", "stalled"},
         job[j].pc \notin Unclaimed, NEW p \in Later, Goes(j, p)
  PROVE  JobStep(j) /\ job'[j].pc \notin Early \cup {"claim", "lock"}
BY DEF Goes, JobStep, Continues, Unclaimed, Early, Later

LEMMA EndStep ==
  ASSUME Shape, NEW j \in Jobs, job' = [job EXCEPT ![j] = NoExecution]
  PROVE  JobStep(j) /\ job'[j].pc = ""
BY DEF Shape, JobStep, Continues, NoExecution

LEMMA FenceLocks ==
  ASSUME Shape, NEW j \in Jobs, Fence(j)
  PROVE  LockStep /\ Owns(j) /\ Reserved
BY DEF Shape, Fence, LockStep, Exec, User, Route, Nobody

LEMMA FreeLocks ==
  ASSUME Shape, NEW j \in Jobs, FreeAll(Exec(job[j]))
  PROVE  LockStep
BY DEF Shape, FreeAll, LockStep, Exec, User, Route, Nobody

LEMMA SameRow ==
  ASSUME Shape, NEW j \in Jobs, UNCHANGED <<op, host>>
  PROVE  RowStep(j)
BY DEF Shape, RowStep, Reserved

LEMMA SameLocks ==
  ASSUME Shape, UNCHANGED lock
  PROVE  LockStep
BY DEF Shape, LockStep

-----------------------------------------------------------------------------
(* Each action of a worker, and of the queue, that is a WorkStep.          *)

LEMMA PushWorks ==
  ASSUME IndInv, NEW j \in Jobs, Push(j)
  PROVE  WorkStep(j)
<1>1. LockStep /\ RowStep(j) /\ UNCHANGED clients
  BY SameLocks, SameRow DEF Push, IndInv
<1>2. CASE job' = [job EXCEPT ![j] = NoExecution]
  BY <1>1, <1>2, EndStep DEF IndInv, WorkStep
<1>3. CASE job' = [job EXCEPT ![j].rq = "queued"]
  <2>1. JobStep(j)
    BY <1>3 DEF Push, IndInv, Shape, JobInv, JobFields, JobStep, Continues, Unclaimed, Early
  <2>2. QED
    BY <1>1, <2>1 DEF WorkStep
<1>4. QED
  BY <1>2, <1>3 DEF Push

LEMMA BeginWorks ==
  ASSUME IndInv, NEW j \in Jobs, Begin(j)
  PROVE  WorkStep(j)
<1>1. LockStep /\ RowStep(j) /\ UNCHANGED clients
  BY SameLocks, SameRow DEF Begin, IndInv
<1>2. JobStep(j)
  BY DEF Begin, IndInv, Shape, JobInv, JobFields, JobStep, Continues, Unclaimed, Early
<1>3. QED
  BY <1>1, <1>2 DEF WorkStep

LEMMA TakeLocksWorks ==
  ASSUME IndInv, NEW j \in Jobs, TakeLocks(j)
  PROVE  WorkStep(j)
<1>1. RowStep(j) /\ UNCHANGED clients
  BY SameRow DEF TakeLocks, IndInv
<1>2. LockStep
  BY DEF TakeLocks, Lockable, LockStep, Exec, User, Route, Nobody
<1>3. JobStep(j)
  <2>1. PICK p \in {"validate", "cancel", "rollback"} :
            Goto(j, p) /\ (p = "validate" => ~job[j].undo) /\ (p = "cancel" => op.state = "preparing")
    BY DEF TakeLocks
  <2>2. Goes(j, p)
    BY <2>1, GotoGoes DEF IndInv
  <2>3. QED
    BY <2>1, <2>2 DEF TakeLocks, At, JobStep, Continues, Goes, Unclaimed, Early
<1>4. QED
  BY <1>1, <1>2, <1>3 DEF WorkStep

LEMMA LocksRefusedWorks ==
  ASSUME IndInv, NEW j \in Jobs, LocksRefused(j)
  PROVE  WorkStep(j)
<1>1. RowStep(j) /\ UNCHANGED clients
  BY SameRow DEF LocksRefused, IndInv
<1>2. LockStep
  <2>1. PICK got \in SUBSET {e \in Entities : Lockable(j, e)} :
           lock' = [e \in Entities |-> IF e \in got THEN Nobody ELSE lock[e]]
    BY DEF LocksRefused
  <2>2. ASSUME NEW e \in Entities, Lockable(j, e)
        PROVE  lock[e] \notin {User, Route}
    BY <2>2 DEF Lockable, User, Route, Nobody
  <2>3. Nobody \notin {User, Route}
    BY DEF User, Route, Nobody
  <2>4. QED
    BY <2>1, <2>2, <2>3 DEF LockStep
<1>3. PICK p \in {"release", "cancel"} : Goto(j, p) /\ (p = "cancel" => ~job[j].undo)
  BY DEF LocksRefused
<1>4. Goes(j, p)
  BY <1>3, GotoGoes DEF IndInv
<1>5. JobStep(j)
  BY <1>3, <1>4 DEF LocksRefused, At, JobStep, Continues, Goes, Unclaimed, Early
<1>6. QED
  BY <1>1, <1>2, <1>5 DEF WorkStep

LEMMA ValidateWorks ==
  ASSUME IndInv, NEW j \in Jobs, Validate(j)
  PROVE  WorkStep(j)
<1>1. LockStep /\ RowStep(j) /\ UNCHANGED clients
  BY SameLocks, SameRow DEF Validate, IndInv
<1>2. Goes(j, "snapshot") \/ Goes(j, "cancel")
  BY GotoGoes DEF Validate, IndInv
<1>3. JobStep(j)
  BY <1>2 DEF Validate, At, JobStep, Continues, Goes, Unclaimed, Early
<1>4. QED
  BY <1>1, <1>3 DEF WorkStep

LEMMA SnapshotWorks ==
  ASSUME IndInv, NEW j \in Jobs, Snapshot(j)
  PROVE  WorkStep(j)
<1>1. LockStep /\ UNCHANGED clients
  BY SameLocks DEF Snapshot, IndInv
<1>2. RowStep(j)
  BY SameRow DEF Snapshot, IndInv, Shape, RowFields, RowStep, Reserved
<1>3. Goes(j, "recheck") \/ Goes(j, "cancel")
  BY GotoGoes DEF Snapshot, IndInv
<1>4. JobStep(j)
  BY <1>3 DEF Snapshot, At, JobStep, Continues, Goes, Unclaimed, Early
<1>5. QED
  BY <1>1, <1>2, <1>4 DEF WorkStep

LEMMA RecheckWorks ==
  ASSUME IndInv, NEW j \in Jobs, Recheck(j)
  PROVE  WorkStep(j)
<1>1. LockStep /\ UNCHANGED clients /\ Owns(j) /\ Reserved /\ At(j, "recheck")
  BY FenceLocks DEF Recheck, IndInv
<1>2. CASE Goto(j, "cancel") /\ UNCHANGED op
  <2>1. Goes(j, "cancel") /\ RowStep(j)
    BY <1>2, GotoGoes, SameRow DEF Recheck, IndInv
  <2>2. QED
    BY <1>1, <2>1 DEF At, WorkStep, JobStep, Continues, Goes, Unclaimed, Early
<1>3. CASE op' = [op EXCEPT !.state = "quiescing"] /\ Stage(j, "stop")
  <2>1. Goes(j, "stop")
    BY <1>3, StageGoes DEF IndInv
  <2>2. JobStep(j) /\ job'[j].pc \notin Early \cup {"claim", "lock"}
    BY <1>1, <2>1, LaterStep DEF At, IndInv, Unclaimed, Later
  <2>3. RowStep(j)
    BY <1>1, <1>3, <2>2 DEF IndInv, Shape, RowFields, RowStep, At, Reserved, Unclaimed
  <2>4. QED
    BY <1>1, <2>2, <2>3 DEF WorkStep
<1>4. QED
  BY <1>2, <1>3 DEF Recheck

LEMMA CancelWorks ==
  ASSUME IndInv, NEW j \in Jobs, Cancel(j)
  PROVE  WorkStep(j)
<1>1. LockStep /\ UNCHANGED clients
  BY SameLocks DEF Cancel, IndInv
<1>2. JobStep(j) /\ job'[j].pc \notin Early \cup {"claim", "lock"}
  BY GotoGoes, LaterStep DEF Cancel, At, IndInv, Unclaimed, Later
<1>3. RowStep(j)
  BY <1>2 DEF Cancel, At, IndInv, Shape, RowFields, RowStep, Reserved, Nonterminal, Unclaimed
<1>4. QED
  BY <1>1, <1>2, <1>3 DEF WorkStep

\* After the preparation: where an execution goes is all that matters of most
\* actions, and all of them leave the row to its owner.
GoesOn(j) == \E p \in Later : Goes(j, p)
Working(j) == job[j].rq \in {"started", "stalled"} /\ job[j].pc \notin Unclaimed

LEMMA LaterWorks ==
  ASSUME IndInv, NEW j \in Jobs, Working(j), GoesOn(j), LockStep,
         UNCHANGED <<op, host>>, UNCHANGED clients
  PROVE  WorkStep(j)
BY LaterStep, SameRow DEF IndInv, GoesOn, Working, WorkStep

LEMMA OwnerWorks ==
  ASSUME IndInv, NEW j \in Jobs, Working(j), GoesOn(j), LockStep,
         Owns(j), Reserved,
         DOMAIN op' = RowFields, op'.id = op.id, op'.token = op.token,
         Reserved' /\ op.required => op'.required, UNCHANGED clients
  PROVE  WorkStep(j)
BY LaterStep DEF IndInv, GoesOn, Working, WorkStep, RowStep

LEMMA ServiceBeginsWorks ==
  ASSUME IndInv, NEW j \in Jobs, NEW i \in Instances, ServiceBegins(j, i)
  PROVE  WorkStep(j) /\ GoesOn(j)
<1>1. Working(j) /\ LockStep /\ UNCHANGED <<op, host>> /\ UNCHANGED clients
  BY SameLocks DEF ServiceBegins, At, Working, Unclaimed, IndInv
<1>2. GoesOn(j)
  BY GotoGoes DEF ServiceBegins, GoesOn, Later, IndInv
<1>3. QED
  BY <1>1, <1>2, LaterWorks

LEMMA ServiceRunsWorks ==
  ASSUME IndInv, NEW j \in Jobs, NEW i \in Instances, ServiceRuns(j, i)
  PROVE  WorkStep(j) /\ GoesOn(j)
<1>1. Working(j) /\ LockStep /\ UNCHANGED <<op, host>> /\ UNCHANGED clients
  BY SameLocks DEF ServiceRuns, At, Working, Unclaimed, IndInv
<1>2. \E ok : job' = [job EXCEPT ![j].ok = ok,
                                 ![j].pc = IF @ = "stopplay" THEN "stopped" ELSE "started"]
  BY DEF ServiceRuns
<1>3. GoesOn(j)
  BY <1>2 DEF IndInv, Shape, JobFields, Goes, GoesOn, Later
<1>4. QED
  BY <1>1, <1>3, LaterWorks

LEMMA StopAskWorks ==
  ASSUME IndInv, NEW j \in Jobs, NEW i \in Instances, StopAsk(j, i)
  PROVE  WorkStep(j) /\ GoesOn(j)
<1>1. Working(j) /\ LockStep /\ UNCHANGED <<op, host>> /\ UNCHANGED clients
  BY FenceLocks DEF StopAsk, At, Working, Unclaimed, IndInv
<1>2. GoesOn(j)
  BY GotoGoes DEF StopAsk, GoesOn, Later, IndInv
<1>3. QED
  BY <1>1, <1>2, LaterWorks

LEMMA StoppedWorks ==
  ASSUME IndInv, NEW j \in Jobs, NEW i \in Instances, Stopped(j, i)
  PROVE  WorkStep(j) /\ GoesOn(j)
<1>1. Working(j) /\ LockStep /\ UNCHANGED <<op, host>> /\ UNCHANGED clients
  BY SameLocks DEF Stopped, At, Working, Unclaimed, IndInv
<1>2. GoesOn(j)
  BY GotoGoes, DoneGoes DEF Stopped, GoesOn, Later, IndInv
<1>3. QED
  BY <1>1, <1>2, LaterWorks

LEMMA StopVerifyWorks ==
  ASSUME IndInv, NEW j \in Jobs, NEW i \in Instances, StopVerify(j, i)
  PROVE  WorkStep(j) /\ GoesOn(j)
<1>1. Working(j) /\ LockStep /\ UNCHANGED <<op, host>> /\ UNCHANGED clients
  BY SameLocks DEF StopVerify, At, Working, Unclaimed, IndInv
<1>2. GoesOn(j)
  BY GotoGoes, DoneGoes DEF StopVerify, GoesOn, Later, IndInv
<1>3. QED
  BY <1>1, <1>2, LaterWorks

LEMMA BeginStepWorks ==
  ASSUME IndInv, NEW j \in Jobs, BeginStep(j)
  PROVE  WorkStep(j) /\ GoesOn(j)
<1>1. LockStep /\ Owns(j) /\ Reserved /\ UNCHANGED clients
  BY FenceLocks DEF BeginStep, IndInv
<1>2. Working(j)
  BY DEF BeginStep, At, Working, Unclaimed
<1>3. GoesOn(j)
  BY GotoGoes, StageGoes DEF BeginStep, GoesOn, Later, IndInv
<1>4. /\ DOMAIN op' = RowFields
      /\ op'.id = op.id /\ op'.token = op.token /\ op'.required = op.required
  BY DEF BeginStep, IndInv, Shape, RowFields
<1>5. QED
  BY <1>1, <1>2, <1>3, <1>4, OwnerWorks

LEMMA InstallWorks ==
  ASSUME IndInv, NEW j \in Jobs, Install(j)
  PROVE  WorkStep(j) /\ GoesOn(j)
<1>1. Working(j) /\ LockStep /\ UNCHANGED <<op, host>> /\ UNCHANGED clients
  BY SameLocks DEF Install, At, Working, Unclaimed, IndInv
<1>2. GoesOn(j)
  BY GotoGoes DEF Install, GoesOn, Later, IndInv
<1>3. QED
  BY <1>1, <1>2, LaterWorks

LEMMA SwapAskWorks ==
  ASSUME IndInv, NEW j \in Jobs, NEW i \in Instances, SwapAsk(j, i)
  PROVE  WorkStep(j) /\ GoesOn(j)
<1>1. Working(j) /\ LockStep /\ UNCHANGED <<op, host>> /\ UNCHANGED clients
  BY FenceLocks DEF SwapAsk, At, Working, Unclaimed, IndInv
<1>2. GoesOn(j)
  BY GotoGoes DEF SwapAsk, GoesOn, Later, IndInv
<1>3. QED
  BY <1>1, <1>2, LaterWorks

LEMMA SwapWorks ==
  ASSUME IndInv, NEW j \in Jobs, NEW i \in Instances, Swap(j, i)
  PROVE  WorkStep(j) /\ GoesOn(j)
<1>1. Working(j) /\ LockStep /\ UNCHANGED <<op, host>> /\ UNCHANGED clients
  BY SameLocks DEF Swap, At, Working, Unclaimed, IndInv
<1>2. GoesOn(j)
  BY GotoGoes, DoneGoes DEF Swap, GoesOn, Later, IndInv
<1>3. QED
  BY <1>1, <1>2, LaterWorks

LEMMA ConfigureAskWorks ==
  ASSUME IndInv, NEW j \in Jobs, NEW i \in Instances, ConfigureAsk(j, i)
  PROVE  WorkStep(j) /\ GoesOn(j)
<1>1. Working(j) /\ LockStep /\ UNCHANGED <<op, host>> /\ UNCHANGED clients
  BY FenceLocks DEF ConfigureAsk, At, Working, Unclaimed, IndInv
<1>2. GoesOn(j)
  BY GotoGoes DEF ConfigureAsk, GoesOn, Later, IndInv
<1>3. QED
  BY <1>1, <1>2, LaterWorks

LEMMA PlayBeginsWorks ==
  ASSUME IndInv, NEW j \in Jobs, NEW i \in Instances, PlayBegins(j, i)
  PROVE  WorkStep(j) /\ GoesOn(j)
<1>1. Working(j) /\ LockStep /\ UNCHANGED <<op, host>> /\ UNCHANGED clients
  BY SameLocks DEF PlayBegins, At, Working, Unclaimed, IndInv
<1>2. CASE \E p \in {"playing", "restoring"} :
              job' = [job EXCEPT ![j].known = Ended, ![j].pc = p]
  <2>1. PICK p \in {"playing", "restoring"} :
            job' = [job EXCEPT ![j] = [job[j] EXCEPT !.known = Ended, !.pc = p]]
    BY <1>2
  <2>2. Goes(j, p)
    BY <2>1 DEF IndInv, Shape, JobFields, Goes
  <2>3. GoesOn(j)
    BY <2>2 DEF GoesOn, Later
  <2>4. QED
    BY <1>1, <2>3, LaterWorks
<1>3. CASE \/ Goto(j, "rollback") \/ Goto(j, "release")
           \/ FailInstance(j, i, inst[i], "tree", "finish")
  <2>1. GoesOn(j)
    BY <1>3, GotoGoes, FailInstanceGoes DEF GoesOn, Later, IndInv
  <2>2. QED
    BY <1>1, <2>1, LaterWorks
<1>4. QED
  BY <1>2, <1>3 DEF PlayBegins

LEMMA ConfigureWorks ==
  ASSUME IndInv, NEW j \in Jobs, NEW i \in Instances, Configure(j, i)
  PROVE  WorkStep(j) /\ GoesOn(j)
<1>1. Working(j) /\ LockStep /\ UNCHANGED <<op, host>> /\ UNCHANGED clients
  BY SameLocks DEF Configure, At, Working, Unclaimed, IndInv
<1>2. \/ Done(j, i, "configure", "start") \/ Goto(j, "release") \/ Goto(j, "rollback")
  BY DEF Configure
<1>3. GoesOn(j)
  BY <1>2, GotoGoes, DoneGoes DEF GoesOn, Later, IndInv
<1>4. QED
  BY <1>1, <1>3, LaterWorks

LEMMA StartAskWorks ==
  ASSUME IndInv, NEW j \in Jobs, NEW i \in Instances, StartAsk(j, i)
  PROVE  WorkStep(j) /\ GoesOn(j)
<1>1. Working(j) /\ LockStep /\ UNCHANGED <<op, host>> /\ UNCHANGED clients
  BY FenceLocks DEF StartAsk, At, Working, Unclaimed, IndInv
<1>2. GoesOn(j)
  BY GotoGoes DEF StartAsk, GoesOn, Later, IndInv
<1>3. QED
  BY <1>1, <1>2, LaterWorks

LEMMA StartedWorks ==
  ASSUME IndInv, NEW j \in Jobs, NEW i \in Instances, Started(j, i)
  PROVE  WorkStep(j) /\ GoesOn(j)
<1>1. Working(j) /\ LockStep /\ UNCHANGED <<op, host>> /\ UNCHANGED clients
  BY SameLocks DEF Started, At, Working, Unclaimed, IndInv
<1>2. GoesOn(j)
  BY GotoGoes, DoneGoes DEF Started, GoesOn, Later, IndInv
<1>3. QED
  BY <1>1, <1>2, LaterWorks

LEMMA StartVerifyWorks ==
  ASSUME IndInv, NEW j \in Jobs, NEW i \in Instances, StartVerify(j, i)
  PROVE  WorkStep(j) /\ GoesOn(j)
<1>1. Working(j) /\ LockStep /\ UNCHANGED <<op, host>> /\ UNCHANGED clients
  BY FenceLocks DEF StartVerify, At, Working, Unclaimed, IndInv
<1>2. GoesOn(j)
  BY GotoGoes, DoneGoes DEF StartVerify, GoesOn, Later, IndInv
<1>3. QED
  BY <1>1, <1>2, LaterWorks

LEMMA SucceedWorks ==
  ASSUME IndInv, NEW j \in Jobs, Succeed(j)
  PROVE  WorkStep(j) /\ GoesOn(j)
<1>1. LockStep /\ Owns(j) /\ Reserved /\ Working(j) /\ UNCHANGED clients
  BY FenceLocks DEF Succeed, At, Working, Unclaimed, IndInv
<1>2. GoesOn(j)
  BY GotoGoes DEF Succeed, GoesOn, Later, IndInv
<1>3. DOMAIN op' = RowFields /\ op'.id = op.id /\ op'.token = op.token /\ ~Reserved'
  BY DEF Succeed, IndInv, Shape, RowFields, Reserved, Nonterminal
<1>4. QED
  BY <1>1, <1>2, <1>3, OwnerWorks

LEMMA RollbackWorks ==
  ASSUME IndInv, NEW j \in Jobs, Rollback(j)
  PROVE  WorkStep(j) /\ GoesOn(j)
<1>1. LockStep /\ Owns(j) /\ Reserved /\ Working(j) /\ UNCHANGED clients
  BY FenceLocks DEF Rollback, At, Working, Unclaimed, IndInv
<1>2. GoesOn(j)
  <2> DEFINE t == {i \in Instances : Touched(i) /\ ~RolledBack(i)}
             p == IF ~op.snapshot THEN "release" ELSE IF t = {} THEN "back" ELSE "quiesce"
  <2>1. job' = [job EXCEPT ![j] = [job[j] EXCEPT !.undo = TRUE, !.todo = t, !.failed = {},
                                                 !.pc = p]]
    BY DEF Rollback
  <2>2. p \in Later
    BY DEF Later
  <2> HIDE DEF t, p
  <2>3. Goes(j, p)
    BY <2>1 DEF IndInv, Shape, JobFields, Goes
  <2>4. QED
    BY <2>2, <2>3 DEF GoesOn
<1>3. /\ DOMAIN op' = RowFields
      /\ op'.id = op.id /\ op'.token = op.token /\ op'.required
  BY DEF Rollback, IndInv, Shape, RowFields
<1>4. QED
  BY <1>1, <1>2, <1>3, OwnerWorks

LEMMA QuiesceWorks ==
  ASSUME IndInv, NEW j \in Jobs, NEW i \in Instances, Quiesce(j, i)
  PROVE  WorkStep(j) /\ GoesOn(j)
<1>1. Working(j) /\ LockStep /\ UNCHANGED <<op, host>> /\ UNCHANGED clients
  BY SameLocks DEF Quiesce, At, Working, Unclaimed, IndInv
<1>2. \/ Goto(j, "stopcall") \/ Passed(j, i, job[j].failed, "quiesce", "back")
      \/ FailInstance(j, i, inst[i], "quiesce", "back")
  BY DEF Quiesce
<1>3. GoesOn(j)
  BY <1>2, GotoGoes, PassedGoes, FailInstanceGoes DEF GoesOn, Later, IndInv
<1>4. QED
  BY <1>1, <1>3, LaterWorks

LEMMA QuiescedWorks ==
  ASSUME IndInv, NEW j \in Jobs, NEW i \in Instances, Quiesced(j, i)
  PROVE  WorkStep(j) /\ GoesOn(j)
<1>1. Working(j) /\ LockStep /\ UNCHANGED <<op, host>> /\ UNCHANGED clients
  BY SameLocks DEF Quiesced, At, Working, Unclaimed, IndInv
<1>2. \/ Passed(j, i, job[j].failed, "quiesce", "back")
      \/ FailInstance(j, i, inst[i], "quiesce", "back")
  BY DEF Quiesced
<1>3. GoesOn(j)
  BY <1>2, PassedGoes, FailInstanceGoes DEF GoesOn, Later, IndInv
<1>4. QED
  BY <1>1, <1>3, LaterWorks

LEMMA RestoreRuntimeWorks ==
  ASSUME IndInv, NEW j \in Jobs, RestoreRuntime(j)
  PROVE  WorkStep(j) /\ GoesOn(j)
<1>1. LockStep /\ Owns(j) /\ Reserved /\ Working(j) /\ UNCHANGED clients
  BY FenceLocks DEF RestoreRuntime, At, Working, Unclaimed, IndInv
<1>2. GoesOn(j)
  BY DEF RestoreRuntime, IndInv, Shape, JobFields, Goes, GoesOn, Later
<1>3. /\ DOMAIN op' = RowFields
      /\ op'.id = op.id /\ op'.token = op.token /\ op'.required = op.required
  BY DEF RestoreRuntime, IndInv, Shape, RowFields
<1>4. QED
  BY <1>1, <1>2, <1>3, OwnerWorks

LEMMA ReverifyWorks ==
  ASSUME IndInv, NEW j \in Jobs, NEW i \in Instances, Reverify(j, i)
  PROVE  WorkStep(j) /\ GoesOn(j)
<1>1. Working(j) /\ LockStep /\ UNCHANGED <<op, host>> /\ UNCHANGED clients
  BY SameLocks DEF Reverify, At, Working, Unclaimed, IndInv
<1>2. GoesOn(j)
  BY PassedGoes DEF Reverify, GoesOn, Later, IndInv
<1>3. QED
  BY <1>1, <1>2, LaterWorks

LEMMA RestoreTreeWorks ==
  ASSUME IndInv, NEW j \in Jobs, NEW i \in Instances, RestoreTree(j, i)
  PROVE  WorkStep(j) /\ GoesOn(j)
<1>1. Working(j) /\ LockStep /\ UNCHANGED <<op, host>> /\ UNCHANGED clients
  BY FenceLocks DEF RestoreTree, At, Working, Unclaimed, IndInv
<1>2. \/ Goto(j, "files")
      \/ \E now : FailInstance(j, i, now, "tree", "finish")
  BY DEF RestoreTree
<1>3. GoesOn(j)
  BY <1>2, GotoGoes, FailInstanceGoes DEF GoesOn, Later, IndInv
<1>4. QED
  BY <1>1, <1>3, LaterWorks

LEMMA FilesAskWorks ==
  ASSUME IndInv, NEW j \in Jobs, NEW i \in Instances, FilesAsk(j, i)
  PROVE  WorkStep(j) /\ GoesOn(j)
<1>1. Working(j) /\ LockStep /\ UNCHANGED <<op, host>> /\ UNCHANGED clients
  BY FenceLocks, SameLocks DEF FilesAsk, At, Working, Unclaimed, IndInv
<1>2. GoesOn(j)
  BY GotoGoes DEF FilesAsk, GoesOn, Later, IndInv
<1>3. QED
  BY <1>1, <1>2, LaterWorks

LEMMA RestoreFilesWorks ==
  ASSUME IndInv, NEW j \in Jobs, NEW i \in Instances, RestoreFiles(j, i)
  PROVE  WorkStep(j) /\ GoesOn(j)
<1>1. Working(j) /\ LockStep /\ UNCHANGED <<op, host>> /\ UNCHANGED clients
  BY SameLocks DEF RestoreFiles, At, Working, Unclaimed, IndInv
<1>2. \/ \E p \in {"state", "release"} : Goto(j, p)
      \/ \E now : FailInstance(j, i, now, "tree", "finish")
  BY DEF RestoreFiles
<1>3. GoesOn(j)
  BY <1>2, GotoGoes, FailInstanceGoes DEF GoesOn, Later, IndInv
<1>4. QED
  BY <1>1, <1>3, LaterWorks

LEMMA RestoreStateWorks ==
  ASSUME IndInv, NEW j \in Jobs, NEW i \in Instances, RestoreState(j, i)
  PROVE  WorkStep(j) /\ GoesOn(j)
<1>1. Working(j) /\ LockStep /\ UNCHANGED <<op, host>> /\ UNCHANGED clients
  BY FenceLocks, SameLocks DEF RestoreState, At, Working, Unclaimed, IndInv
<1>2. CASE job' = [job EXCEPT ![j].ok = TRUE, ![j].pc = "started"]
  <2>1. Goes(j, "started")
    BY <1>2 DEF IndInv, Shape, JobFields, Goes
  <2>2. GoesOn(j)
    BY <2>1 DEF GoesOn, Later
  <2>3. QED
    BY <1>1, <2>2, LaterWorks
<1>3. CASE \/ Goto(j, "startcall")
           \/ Passed(j, i, job[j].failed, "tree", "finish")
           \/ FailInstance(j, i, inst[i], "tree", "finish")
  <2>1. GoesOn(j)
    BY <1>3, GotoGoes, PassedGoes, FailInstanceGoes DEF GoesOn, Later, IndInv
  <2>2. QED
    BY <1>1, <2>1, LaterWorks
<1>4. QED
  BY <1>2, <1>3 DEF RestoreState, LeaveUntouched

LEMMA RestartedWorks ==
  ASSUME IndInv, NEW j \in Jobs, NEW i \in Instances, Restarted(j, i)
  PROVE  WorkStep(j) /\ GoesOn(j)
<1>1. Working(j) /\ LockStep /\ UNCHANGED <<op, host>> /\ UNCHANGED clients
  BY SameLocks DEF Restarted, At, Working, Unclaimed, IndInv
<1>2. \/ Passed(j, i, job[j].failed, "tree", "finish")
      \/ FailInstance(j, i, inst[i], "tree", "finish")
  BY DEF Restarted
<1>3. GoesOn(j)
  BY <1>2, PassedGoes, FailInstanceGoes DEF GoesOn, Later, IndInv
<1>4. QED
  BY <1>1, <1>3, LaterWorks

LEMMA FinishWorks ==
  ASSUME IndInv, NEW j \in Jobs, Finish(j)
  PROVE  WorkStep(j) /\ GoesOn(j)
<1>1. LockStep /\ Owns(j) /\ Reserved /\ Working(j) /\ UNCHANGED clients
  BY FenceLocks DEF Finish, At, Working, Unclaimed, IndInv
<1>2. GoesOn(j)
  BY GotoGoes DEF Finish, GoesOn, Later, IndInv
<1>3. /\ DOMAIN op' = RowFields /\ op'.id = op.id /\ op'.token = op.token
      /\ op'.required \/ ~Reserved'
  BY DEF Finish, IndInv, Shape, RowFields, Reserved, Nonterminal
<1>4. QED
  BY <1>1, <1>2, <1>3, OwnerWorks

LEMMA FinalizeWorks ==
  ASSUME IndInv, NEW j \in Jobs, Finalize(j)
  PROVE  WorkStep(j) /\ GoesOn(j)
<1>1. Working(j) /\ LockStep /\ UNCHANGED <<op, host>> /\ UNCHANGED clients
  BY SameLocks DEF Finalize, At, Working, Unclaimed, IndInv
<1>2. GoesOn(j)
  BY GotoGoes DEF Finalize, GoesOn, Later, IndInv
<1>3. QED
  BY <1>1, <1>2, LaterWorks

LEMMA SupersededWorks ==
  ASSUME IndInv, NEW j \in Jobs, Superseded(j)
  PROVE  WorkStep(j) /\ GoesOn(j)
<1>1. Working(j) /\ LockStep /\ UNCHANGED <<op, host>> /\ UNCHANGED clients
  BY SameLocks DEF Superseded, Checked, At, Working, Unclaimed, IndInv
<1>2. GoesOn(j)
  BY GotoGoes DEF Superseded, GoesOn, Later, IndInv
<1>3. QED
  BY <1>1, <1>2, LaterWorks

LEMMA StepFailsWorks ==
  ASSUME IndInv, NEW j \in Jobs, StepFails(j)
  PROVE  WorkStep(j) /\ GoesOn(j)
<1>1. Working(j) /\ LockStep /\ UNCHANGED <<op, host>> /\ UNCHANGED clients
  BY SameLocks DEF StepFails, At, Working, Unclaimed, IndInv
<1>2. GoesOn(j)
  BY GotoGoes DEF StepFails, GoesOn, Later, IndInv
<1>3. QED
  BY <1>1, <1>2, LaterWorks

LEMMA InterruptedWorks ==
  ASSUME IndInv, NEW j \in Jobs, Interrupted(j)
  PROVE  WorkStep(j) /\ GoesOn(j)
<1>1. Working(j) /\ LockStep /\ UNCHANGED host /\ UNCHANGED clients
  BY SameLocks DEF Interrupted, Checked, At, Working, Unclaimed, IndInv
<1>2. GoesOn(j)
  BY GotoGoes DEF Interrupted, GoesOn, Later, IndInv
<1>3. JobStep(j)
  BY <1>1, <1>2, LaterStep DEF IndInv, Working, GoesOn
<1>4. RowStep(j)
  BY <1>1 DEF Interrupted, IndInv, Shape, RowFields, RowStep, Reserved
<1>5. QED
  BY <1>1, <1>2, <1>3, <1>4 DEF WorkStep

LEMMA ReleaseWorks ==
  ASSUME IndInv, NEW j \in Jobs, Release(j)
  PROVE  WorkStep(j)
BY FreeLocks, SameRow, EndStep DEF Release, IndInv, WorkStep

LEMMA CrashWorks ==
  ASSUME IndInv, NEW j \in Jobs, Crash(j)
  PROVE  WorkStep(j)
BY SameLocks, SameRow, EndStep DEF Crash, IndInv, WorkStep

LEMMA StallWorks ==
  ASSUME IndInv, NEW j \in Jobs, Stall(j)
  PROVE  WorkStep(j)
<1>1. LockStep /\ RowStep(j) /\ UNCHANGED clients
  BY SameLocks, SameRow DEF Stall, IndInv
<1>2. JobStep(j)
  BY DEF Stall, IndInv, Shape, JobFields, JobStep, Continues
<1>3. QED
  BY <1>1, <1>2 DEF WorkStep

\* All of them.
LEMMA WorkerWorks ==
  ASSUME IndInv, NEW j \in Jobs,
         \/ Push(j) \/ Begin(j) \/ TakeLocks(j) \/ LocksRefused(j)
         \/ ForwardStep(j) \/ ServiceStep(j) \/ RollbackStep(j)
         \/ Superseded(j) \/ Release(j) \/ WorkerFault(j)
  PROVE  WorkStep(j)
<1>1. CASE Push(j) \/ Begin(j) \/ TakeLocks(j) \/ LocksRefused(j) \/ Superseded(j) \/ Release(j)
  BY <1>1, PushWorks, BeginWorks, TakeLocksWorks, LocksRefusedWorks, SupersededWorks, ReleaseWorks
<1>2. CASE ForwardStep(j)
  BY <1>2, ValidateWorks, SnapshotWorks, RecheckWorks, CancelWorks, BeginStepWorks,
     InstallWorks, SucceedWorks, StopAskWorks, StoppedWorks, StopVerifyWorks,
     SwapAskWorks, SwapWorks, ConfigureAskWorks, PlayBeginsWorks, ConfigureWorks,
     StartAskWorks, StartedWorks, StartVerifyWorks
  DEF ForwardStep
<1>3. CASE ServiceStep(j)
  BY <1>3, ServiceBeginsWorks, ServiceRunsWorks DEF ServiceStep
<1>4. CASE RollbackStep(j)
  BY <1>4, RollbackWorks, RestoreRuntimeWorks, FinishWorks, FinalizeWorks, QuiesceWorks,
     QuiescedWorks, ReverifyWorks, RestoreTreeWorks, FilesAskWorks, RestoreFilesWorks,
     RestoreStateWorks, RestartedWorks
  DEF RollbackStep
<1>5. CASE WorkerFault(j)
  BY <1>5, StepFailsWorks, InterruptedWorks, CrashWorks, StallWorks DEF WorkerFault
<1>6. QED
  BY <1>1, <1>2, <1>3, <1>4, <1>5

-----------------------------------------------------------------------------
(* The invariant and a WorkStep.                                           *)

LEMMA NoExecutionFields ==
  /\ DOMAIN NoExecution = JobFields
  /\ NoExecution.rq = "none" /\ NoExecution.pc = ""
  /\ NoExecution.of \in Nat /\ NoExecution.token \in Nat
  /\ \A n \in Nat : NoExecution.of <= n
BY DEF NoExecution, JobFields

\* One job at a time.
LEMMA WorkStepJob ==
  ASSUME NEW j \in Jobs, WorkStep(j), NEW k \in Jobs
  PROVE  job'[k] = job[k] \/ job'[k] = NoExecution \/ Continues(k)
BY DEF WorkStep, JobStep, Continues

LEMMA WorkStepShape ==
  ASSUME IndInv, NEW j \in Jobs, WorkStep(j)
  PROVE  Shape'
<1>1. DOMAIN op' = RowFields /\ op'.id \in Nat /\ op'.token \in Nat
  BY DEF IndInv, Shape, WorkStep, RowStep
<1>2. \A k \in Jobs : DOMAIN job'[k] = JobFields /\ job'[k].of \in Nat /\ job'[k].token \in Nat
  <2> SUFFICES ASSUME NEW k \in Jobs
               PROVE  DOMAIN job'[k] = JobFields /\ job'[k].of \in Nat /\ job'[k].token \in Nat
    OBVIOUS
  <2>1. DOMAIN job[k] = JobFields /\ job[k].of \in Nat /\ job[k].token \in Nat
    BY DEF IndInv, Shape
  <2>2. job'[k] = job[k] \/ job'[k] = NoExecution \/ Continues(k)
    BY WorkStepJob
  <2>3. QED
    BY <2>1, <2>2, NoExecutionFields DEF Continues
<1>3. DOMAIN job' = Jobs /\ DOMAIN lock' = Entities /\ user' = user
  BY DEF WorkStep, JobStep, LockStep, clients
<1>4. QED
  BY <1>1, <1>2, <1>3 DEF IndInv, Shape

\* No job becomes live or claimed, or a worker's, that was not.
LEMMA WorkStepJobs ==
  ASSUME IndInv, NEW j \in Jobs, WorkStep(j), NEW k \in Jobs
  PROVE  /\ job'[k].of <= op'.id
         /\ job'[k].pc # "" => job'[k].rq \in {"started", "stalled"}
         /\ Live(k)' => /\ Live(k)
                        /\ job'[k].task = job[k].task
                        /\ job'[k].token = job[k].token
         /\ Claimed(k)' => Claimed(k)
<1>1. op'.id = op.id /\ op.id \in Nat
  BY DEF IndInv, Shape, WorkStep, RowStep
<1>2. job[k].of <= op.id /\ (job[k].pc # "" => job[k].rq \in {"started", "stalled"})
  BY DEF IndInv, JobInv
<1>3. job'[k] = job[k] \/ job'[k] = NoExecution \/ Continues(k)
  BY WorkStepJob
<1>4. QED
  BY <1>1, <1>2, <1>3, NoExecutionFields DEF Continues, Live, Claimed

LEMMA WorkStepJobInv ==
  ASSUME IndInv, NEW j \in Jobs, WorkStep(j)
  PROVE  JobInv'
<1>1. op'.token = op.token /\ route' = route
  BY DEF WorkStep, RowStep, clients
<1>2. Reserved' => Reserved /\ (op.required => op'.required)
  BY DEF WorkStep, RowStep
<1>3. \A k \in Jobs : job'[k].of <= op'.id /\ (job'[k].pc # "" => job'[k].rq \in {"started", "stalled"})
  BY WorkStepJobs
<1>4. \A k \in Jobs : Live(k)' => /\ job'[k].token <= op'.token
                                 /\ job'[k].task \in {"upgrade", "recover"}
  BY <1>1, WorkStepJobs DEF IndInv, JobInv
<1>5. \A k, l \in Jobs : Claimed(k)' /\ Claimed(l)' /\ job'[k].token = job'[l].token => k = l
  BY WorkStepJobs DEF IndInv, JobInv, Claimed
<1>6. \A k, l \in Jobs :
         Live(k)' /\ Live(l)' /\ job'[k].task = "upgrade" /\ job'[l].task = "upgrade" => k = l
  BY WorkStepJobs DEF IndInv, JobInv
<1>7. route' \in {"reserved", "unlocked"} => \A k \in Jobs : Live(k)' => job'[k].task # "upgrade"
  BY <1>1, WorkStepJobs DEF IndInv, JobInv
<1>8. Reserved' => \A k \in Jobs : Live(k)' /\ job'[k].task = "recover" => op'.required
  BY <1>2, WorkStepJobs DEF IndInv, JobInv
<1>9. QED
  BY <1>3, <1>4, <1>5, <1>6, <1>7, <1>8 DEF JobInv

\* Two executions do not both own the operation.
LEMMA OneOwner ==
  ASSUME JobInv, NEW j \in Jobs, NEW k \in Jobs,
         Owns(j), Owns(k), job[j].pc \notin Unclaimed, job[k].pc \notin Unclaimed
  PROVE  j = k
<1>1. job[j].rq # "none" /\ job[k].rq # "none"
  BY DEF JobInv, Unclaimed
<1>2. Claimed(j) /\ Claimed(k) /\ job[j].token = job[k].token
  BY <1>1 DEF Owns, Claimed, Live
<1>3. QED
  BY <1>2 DEF JobInv

\* ... nor does one that has claimed it while another may yet go forward.
LEMMA NoOwnerYet ==
  ASSUME JobInv, OwnerInv, NEW j \in Jobs, NEW k \in Jobs,
         Owns(j), Owns(k), job[j].pc \notin Unclaimed,
         job[k].pc = "claim", ~job[k].undo
  PROVE  FALSE
BY DEF JobInv, OwnerInv, Owns, Claimed, Live, Unclaimed

LEMMA WorkStepOwnerInv ==
  ASSUME IndInv, NEW j \in Jobs, WorkStep(j)
  PROVE  OwnerInv'
<1> SUFFICES ASSUME NEW k \in Jobs, Owns(k)'
             PROVE  /\ job'[k].pc \in Early => op'.state = "preparing"
                    /\ job'[k].pc \in {"claim", "lock"} /\ ~job'[k].undo => op'.state = "preparing"
                    /\ job'[k].pc = "claim" /\ ~job'[k].undo =>
                          \A l \in Jobs : Claimed(l)' => job'[l].token # op'.token
  BY DEF OwnerInv
<1>1. CASE job'[k].pc \in Early \cup {"claim", "lock"}
  <2>1. /\ Owns(k)
        /\ job'[k].pc \in {"claim", "lock"} => job'[k].pc = job[k].pc /\ job'[k].undo = job[k].undo
        /\ job'[k].pc \in Early => \/ job[k].pc \in Early
                                   \/ job[k].pc = "lock" /\ ~job[k].undo
                                   \/ op.state = "preparing"
        /\ (job'[k].pc \in Unclaimed) <=> (job[k].pc \in Unclaimed)
    <3>1. job'[k] = job[k] \/ job'[k] = NoExecution \/ Continues(k)
      BY WorkStepJob
    <3>2. QED
      BY <1>1, <3>1, NoExecutionFields DEF Continues, WorkStep, RowStep, Owns, Early
  <2>2. /\ job'[k].pc \in Early => op.state = "preparing"
        /\ job'[k].pc \in {"claim", "lock"} /\ ~job'[k].undo => op.state = "preparing"
    BY <2>1 DEF IndInv, OwnerInv
  <2>3. CASE op'.state = op.state
    <3>1. job'[k].pc = "claim" /\ ~job'[k].undo =>
             \A l \in Jobs : Claimed(l) => job[l].token # op.token
      BY <2>1 DEF IndInv, OwnerInv
    <3>2. QED
      BY <2>2, <2>3, <3>1, WorkStepJobs DEF WorkStep, RowStep, Claimed
  <2>4. CASE op'.state # op.state
    <3>1. /\ Owns(j) /\ job[j].pc \notin Unclaimed
          /\ job'[j].pc \notin Early \cup {"claim", "lock"}
      BY <2>4 DEF WorkStep, RowStep
    <3>2. k # j
      BY <1>1, <3>1
    <3>3. job[k].pc \in Unclaimed
      BY <2>1, <3>1, <3>2, OneOwner DEF IndInv
    <3>4. job'[k].pc = "claim" /\ job[k].pc = "claim" /\ job'[k].undo = job[k].undo
      BY <1>1, <2>1, <3>3 DEF Unclaimed, Early
    <3>5. job[k].undo
      BY <2>1, <3>1, <3>4, NoOwnerYet DEF IndInv
    <3>6. QED
      BY <3>4, <3>5 DEF Early
  <2>5. QED
    BY <2>3, <2>4
<1>2. QED
  BY <1>1

LEMMA WorkStepLockInv ==
  ASSUME IndInv, NEW j \in Jobs, WorkStep(j)
  PROVE  LockInv'
<1>1. /\ UNCHANGED <<route, user, restore>>
      /\ Reserved' => Reserved
  BY DEF WorkStep, RowStep, clients
<1>2. \A e \in Entities : /\ lock[e] \in {User, Route} => lock'[e] = lock[e]
                          /\ Maintenance /\ lock[e] = Nobody => lock'[e] = Nobody
  BY DEF WorkStep, LockStep
<1>3. Instances \subseteq Entities
  BY DEF Entities
<1>4. QED
  BY <1>1, <1>2, <1>3 DEF IndInv, LockInv, Maintenance, RestoreAlone

LEMMA WorkStepInv ==
  ASSUME IndInv, NEW j \in Jobs, WorkStep(j)
  PROVE  IndInv'
BY WorkStepShape, WorkStepJobInv, WorkStepOwnerInv, WorkStepLockInv DEF IndInv

-----------------------------------------------------------------------------
(* The invariant and the actions that are not a WorkStep: first those that *)
(* make or claim an operation.                                             *)

\* How a step of one job that leaves the locks alone keeps the shape.
LEMMA OneJobShape ==
  ASSUME Shape, UNCHANGED <<lock, user>>, NEW j \in Jobs, DOMAIN job' = Jobs,
         \A k \in Jobs \ {j} : job'[k] = job[k],
         DOMAIN job'[j] = JobFields, job'[j].of \in Nat, job'[j].token \in Nat,
         DOMAIN op' = RowFields, op'.id \in Nat, op'.token \in Nat
  PROVE  Shape'
<1>1. \A k \in Jobs : DOMAIN job'[k] = JobFields /\ job'[k].of \in Nat /\ job'[k].token \in Nat
  <2> SUFFICES ASSUME NEW k \in Jobs
               PROVE  DOMAIN job'[k] = JobFields /\ job'[k].of \in Nat /\ job'[k].token \in Nat
    OBVIOUS
  <2>1. CASE k = j
    BY <2>1
  <2>2. CASE k # j
    BY <2>2 DEF Shape
  <2>3. QED
    BY <2>1, <2>2
<1>2. QED
  BY <1>1 DEF Shape

\* LockInv is about the locks and the clients, and of the row about Reserved.
LEMMA SameLockInv ==
  ASSUME LockInv, UNCHANGED <<lock, route, user, restore>>, Reserved' => Reserved
  PROVE  LockInv'
BY DEF LockInv, Maintenance, RestoreAlone

LEMMA ReserveInv ==
  ASSUME IndInv, Reserve
  PROVE  IndInv'
<1>1. /\ DOMAIN op' = RowFields /\ op'.id = op.id + 1 /\ op'.token = 0
      /\ op.id \in Nat /\ op'.id \in Nat /\ op'.token \in Nat
  BY DEF Reserve, RowFields, IndInv, Shape
<1>2. Shape'
  BY <1>1 DEF Reserve, IndInv, Shape
<1>3. \A j \in Jobs : job'[j] = job[j] /\ job[j].of \in Nat /\ job[j].of <= op.id
  BY DEF Reserve, IndInv, Shape, JobInv
<1>4. \A j \in Jobs : job'[j].of < op'.id
  BY <1>1, <1>3
<1>5. \A j \in Jobs : ~Live(j)' /\ ~Claimed(j)' /\ ~Owns(j)'
  BY <1>1, <1>3, <1>4 DEF Live, Claimed, Owns
<1>6. JobInv'
  <2>1. \A j \in Jobs : job'[j].of <= op'.id
    BY <1>1, <1>3
  <2>2. \A j \in Jobs : job'[j].pc # "" => job'[j].rq \in {"started", "stalled"}
    BY <1>3 DEF IndInv, JobInv
  <2>3. QED
    BY <1>5, <2>1, <2>2 DEF JobInv
<1>7. OwnerInv'
  BY <1>5 DEF OwnerInv
<1>8. LockInv'
  <2>1. Host \in Entities /\ Route # Nobody
    BY DEF Entities, Route, Nobody
  <2>2. ~Maintenance
    BY <2>1 DEF Reserve, IndInv, LockInv
  <2>3. UNCHANGED <<lock, user, restore>> /\ route' = "reserved"
    BY DEF Reserve
  <2>4. QED
    BY <2>2, <2>3 DEF IndInv, LockInv, Maintenance, RestoreAlone
<1>9. QED
  BY <1>2, <1>6, <1>7, <1>8 DEF IndInv

\* A job that is made for the last operation.
NewJob(j, task) ==
    /\ job[j].rq = "none"
    /\ DOMAIN job' = Jobs
    /\ \A k \in Jobs \ {j} : job'[k] = job[k]
    /\ DOMAIN job'[j] = JobFields
    /\ job'[j].task = task /\ job'[j].of = op.id /\ job'[j].token = 0 /\ job'[j].pc = ""
    /\ DOMAIN op' = RowFields
    /\ op'.id = op.id /\ op'.token = op.token /\ op'.state = op.state

LEMMA NewJobInv ==
  ASSUME IndInv, NEW j \in Jobs, NEW task \in {"upgrade", "recover"}, NewJob(j, task),
         task = "upgrade" => /\ \A k \in Jobs : Live(k) => job[k].task # "upgrade"
                             /\ op'.required = op.required
                             /\ route' = "idle",
         task = "recover" => op'.required = TRUE /\ route' = route,
         UNCHANGED <<lock, user, restore>>
  PROVE  IndInv'
<1>1. op.id \in Nat /\ op.token \in Nat /\ op'.id = op.id /\ op'.token = op.token
      /\ op'.state = op.state
  BY DEF IndInv, Shape, NewJob
<1>2. job'[j].of = op.id /\ job'[j].token = 0
  BY DEF NewJob
<1>3. /\ job'[j].of \in Nat /\ job'[j].of <= op'.id
      /\ job'[j].token \in Nat /\ job'[j].token <= op'.token
  BY <1>1, <1>2
<1>4. job'[j].pc = "" /\ job'[j].task = task /\ \A k \in Jobs \ {j} : job'[k] = job[k]
  BY DEF NewJob
<1>5. \A k \in Jobs : k # j => /\ (Live(k)' <=> Live(k))
                              /\ (Claimed(k)' <=> Claimed(k))
                              /\ (Owns(k)' <=> Owns(k))
  BY <1>1, <1>4 DEF Live, Claimed, Owns
<1>6. ~Claimed(j)' /\ ~Claimed(j) /\ ~Live(j)
  BY <1>4 DEF NewJob, Live, Claimed, Unclaimed
<1>7. Shape'
  BY <1>1, <1>3, OneJobShape DEF IndInv, NewJob
<1>8. JobInv'
  <2>1. \A k \in Jobs : job'[k].of <= op'.id
    BY <1>1, <1>3, <1>4 DEF IndInv, JobInv
  <2>2. /\ \A k \in Jobs : job'[k].pc # "" => job'[k].rq \in {"started", "stalled"}
        /\ \A k \in Jobs : Live(k)' => job'[k].task \in {"upgrade", "recover"}
    BY <1>4, <1>5 DEF IndInv, JobInv
  <2>3. \A k \in Jobs : Live(k)' => job'[k].token <= op'.token
    BY <1>1, <1>3, <1>4, <1>5 DEF IndInv, JobInv
  <2>4. \A k, l \in Jobs : Claimed(k)' /\ Claimed(l)' /\ job'[k].token = job'[l].token => k = l
    BY <1>4, <1>5, <1>6 DEF IndInv, JobInv
  <2>5. \A k, l \in Jobs :
           Live(k)' /\ Live(l)' /\ job'[k].task = "upgrade" /\ job'[l].task = "upgrade" => k = l
    <3>1. \A k, l \in Jobs :
             Live(k) /\ Live(l) /\ job[k].task = "upgrade" /\ job[l].task = "upgrade" => k = l
      BY DEF IndInv, JobInv
    <3>2. task = "upgrade" => \A k \in Jobs : Live(k) => job[k].task # "upgrade"
      OBVIOUS
    <3>3. QED
      BY <1>4, <1>5, <3>1, <3>2
  <2>6. route' \in {"reserved", "unlocked"} => \A k \in Jobs : Live(k)' => job'[k].task # "upgrade"
    BY <1>4, <1>5 DEF IndInv, JobInv
  <2>7. Reserved' => \A k \in Jobs : Live(k)' /\ job'[k].task = "recover" => op'.required
    BY <1>1, <1>4, <1>5 DEF IndInv, JobInv, Reserved
  <2>8. QED
    BY <2>1, <2>2, <2>3, <2>4, <2>5, <2>6, <2>7 DEF JobInv
<1>9. OwnerInv'
  BY <1>1, <1>4, <1>5, <1>6 DEF IndInv, OwnerInv, Early
<1>10. LockInv'
  BY <1>1 DEF IndInv, LockInv, Maintenance, RestoreAlone, Reserved
<1>11. QED
  BY <1>7, <1>8, <1>9, <1>10 DEF IndInv

LEMMA HandOverInv ==
  ASSUME IndInv, NEW j \in Jobs, HandOver(j)
  PROVE  IndInv'
<1>1. job[j].rq = "none"
  BY DEF HandOver, Fresh, Unused
<1>2. NewJob(j, "recover") /\ op'.required = TRUE
  BY <1>1 DEF HandOver, NewJob, NoExecution, IndInv, Shape, RowFields, JobFields
<1>3. UNCHANGED <<lock, route, user, restore>>
  BY DEF HandOver, clients
<1>4. QED
  BY <1>2, <1>3, NewJobInv

LEMMA RouteAssignsInv ==
  ASSUME IndInv, NEW j \in Jobs, RouteAssigns(j)
  PROVE  IndInv'
<1>1. job[j].rq = "none"
  BY DEF RouteAssigns, Fresh, Unused
<1>2. NewJob(j, "upgrade") /\ op'.required = op.required
  BY <1>1 DEF RouteAssigns, NewJob, NoExecution, IndInv, Shape, RowFields, JobFields
<1>3. UNCHANGED <<lock, user, restore>> /\ route' = "idle"
  BY DEF RouteAssigns
<1>4. \A k \in Jobs : Live(k) => job[k].task # "upgrade"
  BY DEF RouteAssigns, IndInv, JobInv
<1>5. QED
  BY <1>2, <1>3, <1>4, NewJobInv

LEMMA EnterInv ==
  ASSUME IndInv, NEW j \in Jobs, Enter(j)
  PROVE  IndInv'
<1> DEFINE forward == job[j].task = "upgrade" /\ op.state = "preparing" /\ ~op.required
<1>1. At(j, "enter") /\ UNCHANGED <<op, log, host, inst, fence, lock, clients, budget>>
  BY DEF Enter
<1>2. \/ job' = [job EXCEPT ![j] = NoExecution]
      \/ /\ job[j].of = op.id
         /\ job' = [job EXCEPT ![j].pc = "claim", ![j].token = op.token, ![j].undo = ~forward]
  BY DEF Enter
<1>3. CASE job' = [job EXCEPT ![j] = NoExecution]
  <2>1. WorkStep(j)
    BY <1>1, <1>3, SameLocks, SameRow, EndStep DEF IndInv, WorkStep
  <2>2. QED
    BY <2>1, WorkStepInv
<1>4. CASE /\ job[j].of = op.id
           /\ job' = [job EXCEPT ![j].pc = "claim", ![j].token = op.token, ![j].undo = ~forward]
  <2>1. forward \in BOOLEAN
    OBVIOUS
  <2>2. forward => job[j].task = "upgrade" /\ op.state = "preparing" /\ ~op.required
    OBVIOUS
  <2> HIDE DEF forward
  <2>3. /\ DOMAIN job' = Jobs
        /\ \A k \in Jobs \ {j} : job'[k] = job[k]
        /\ DOMAIN job'[j] = JobFields
        /\ job'[j].rq = job[j].rq /\ job'[j].task = job[j].task /\ job'[j].of = job[j].of
        /\ job'[j].token = op.token /\ job'[j].pc = "claim"
    BY <1>4 DEF IndInv, Shape, JobFields
  <2>4. job'[j].undo = ~forward
    <3>1. j \in DOMAIN job /\ "undo" \in DOMAIN job[j]
      BY DEF IndInv, Shape, JobFields
    <3>2. job'[j] = [job[j] EXCEPT !.pc = "claim", !.token = op.token, !.undo = ~forward]
      BY <1>4, <3>1, Zenon
    <3>3. QED
      BY <3>1, <3>2, Zenon
  <2>5. UNCHANGED <<op, lock, route, user, restore>>
    BY <1>1 DEF clients
  <2>6. job[j].rq \in {"started", "stalled"} /\ job[j].pc = "enter" /\ job[j].of = op.id
    BY <1>1, <1>4 DEF At
  <2>7. op.id \in Nat /\ op.token \in Nat
    BY DEF IndInv, Shape
  <2>8. /\ Live(j) /\ ~Claimed(j) /\ ~Claimed(j)'
        /\ \A k \in Jobs \ {j} : /\ (Live(k)' <=> Live(k))
                                   /\ (Claimed(k)' <=> Claimed(k))
                                   /\ (Owns(k)' <=> Owns(k))
    BY <2>3, <2>5, <2>6 DEF Live, Claimed, Owns, Unclaimed
  <2>9. Shape'
    BY <2>3, <2>5, <2>6, <2>7, OneJobShape DEF IndInv, Shape
  <2>10. JobInv'
    <3>1. /\ \A k \in Jobs : job'[k].of <= op'.id
          /\ \A k \in Jobs : job'[k].pc # "" => job'[k].rq \in {"started", "stalled"}
      <4>1. /\ job'[j].of = job[j].of /\ job'[j].rq \in {"started", "stalled"}
            /\ op'.id = op.id
        BY <2>3, <2>5, <2>6
      <4>2. \A k \in Jobs : job[k].of <= op.id
        BY DEF IndInv, JobInv
      <4>3. \A k \in Jobs : job[k].pc # "" => job[k].rq \in {"started", "stalled"}
        BY DEF IndInv, JobInv
      <4>4. \A k \in Jobs : job'[k] = job[k] \/ k = j
        BY <2>3
      <4>5. \A k \in Jobs : job'[k].of <= op'.id
        BY <4>1, <4>2, <4>4
      <4>6. \A k \in Jobs : job'[k].pc # "" => job'[k].rq \in {"started", "stalled"}
        BY <4>1, <4>3, <4>4
      <4>7. QED
        BY <4>5, <4>6
    <3>2. \A k \in Jobs : Live(k)' => job'[k].token <= op'.token
      <4>1. job'[j].token = op.token /\ op.token <= op.token
        BY <2>3, <2>7
      <4>2. \A k \in Jobs \ {j} : Live(k)' => job'[k].token <= op.token
        BY <2>3, <2>8 DEF IndInv, JobInv
      <4>3. QED
        BY <2>5, <4>1, <4>2
    <3>3. \A k, l \in Jobs : Claimed(k)' /\ Claimed(l)' /\ job'[k].token = job'[l].token => k = l
      <4>1. \A k, l \in Jobs : Claimed(k) /\ Claimed(l) /\ job[k].token = job[l].token => k = l
        BY DEF IndInv, JobInv
      <4>2. \A k \in Jobs : Claimed(k)' => k # j /\ Claimed(k)
        BY <2>8
      <4>3. QED
        BY <2>3, <4>1, <4>2
    <3>4. \A k \in Jobs : Live(k)' => Live(k) /\ job'[k].task = job[k].task
      BY <2>3, <2>8
    <3>5. \A k, l \in Jobs :
             Live(k)' /\ Live(l)' /\ job'[k].task = "upgrade" /\ job'[l].task = "upgrade" => k = l
      BY <3>4 DEF IndInv, JobInv
    <3>6. route' \in {"reserved", "unlocked"} => \A k \in Jobs : Live(k)' => job'[k].task # "upgrade"
      BY <2>5, <3>4 DEF IndInv, JobInv
    <3>7. Reserved' => \A k \in Jobs : Live(k)' /\ job'[k].task = "recover" => op'.required
      BY <2>5, <3>4 DEF IndInv, JobInv, Reserved
    <3>8. \A k \in Jobs : Live(k)' => job'[k].task \in {"upgrade", "recover"}
      BY <3>4 DEF IndInv, JobInv
    <3>9. QED
      BY <3>1, <3>2, <3>3, <3>5, <3>6, <3>7, <3>8 DEF JobInv
  <2>11. OwnerInv'
    <3> SUFFICES ASSUME NEW k \in Jobs, Owns(k)'
                 PROVE  /\ job'[k].pc \in Early => op'.state = "preparing"
                        /\ job'[k].pc \in {"claim", "lock"} /\ ~job'[k].undo => op'.state = "preparing"
                        /\ job'[k].pc = "claim" /\ ~job'[k].undo =>
                              \A l \in Jobs : Claimed(l)' => job'[l].token # op'.token
      BY DEF OwnerInv
    <3>1. CASE k = j
      <4>1. ~job'[j].undo => forward
        BY <2>1, <2>4
      \* The only job there is: another would be a recovery's, and be required.
      <4>2. forward => \A l \in Jobs \ {j} : ~Claimed(l)
        <5>1. forward => Reserved
          BY <2>2 DEF Reserved, Nonterminal
        <5>2. forward => \A l \in Jobs : Live(l) => job[l].task # "recover"
          BY <2>2, <5>1 DEF IndInv, JobInv
        <5>3. forward => \A l \in Jobs : Live(l) /\ job[l].task = "upgrade" => l = j
          BY <2>2, <2>8 DEF IndInv, JobInv
        <5>4. \A l \in Jobs : Live(l) => job[l].task \in {"upgrade", "recover"}
          BY DEF IndInv, JobInv
        <5>5. QED
          BY <5>2, <5>3, <5>4 DEF Claimed
      <4>3. QED
        BY <2>2, <2>3, <2>5, <2>8, <3>1, <4>1, <4>2 DEF Early
    <3>2. CASE k # j
      BY <2>3, <2>5, <2>8, <3>2 DEF IndInv, OwnerInv
    <3>3. QED
      BY <3>1, <3>2
  <2>12. LockInv'
    BY <2>5, SameLockInv DEF IndInv, Reserved
  <2>13. QED
    BY <2>9, <2>10, <2>11, <2>12 DEF IndInv
<1>5. QED
  BY <1>2, <1>3, <1>4

LEMMA ClaimInv ==
  ASSUME IndInv, NEW j \in Jobs, Claim(j)
  PROVE  IndInv'
<1>1. At(j, "claim") /\ UNCHANGED <<host, lock, route, user, restore>> /\ UNCHANGED clients
  BY DEF Claim, clients
<1>2. CASE job' = [job EXCEPT ![j] = NoExecution] /\ UNCHANGED op
  <2>1. WorkStep(j)
    BY <1>1, <1>2, SameLocks, SameRow, EndStep DEF IndInv, WorkStep
  <2>2. QED
    BY <2>1, WorkStepInv
<1>3. CASE /\ Owns(j)
           /\ op' = [op EXCEPT !.token = @ + 1, !.job = j]
           /\ job' = [job EXCEPT ![j].pc = "lock", ![j].token = op.token + 1]
  <2>1. /\ DOMAIN job' = Jobs
        /\ \A k \in Jobs \ {j} : job'[k] = job[k]
        /\ DOMAIN job'[j] = JobFields
        /\ job'[j].rq = job[j].rq /\ job'[j].task = job[j].task /\ job'[j].of = job[j].of
        /\ job'[j].undo = job[j].undo /\ job'[j].pc = "lock"
    BY <1>3 DEF IndInv, Shape, JobFields
  <2>2. job'[j].token = op.token + 1
    BY <1>3 DEF IndInv, Shape, JobFields
  <2>3. DOMAIN op' = RowFields /\ op'.id = op.id /\ op'.state = op.state /\ op'.required = op.required
    BY <1>3 DEF IndInv, Shape, RowFields
  <2>4. op'.token = op.token + 1
    BY <1>3 DEF IndInv, Shape, RowFields
  <2>5. op.id \in Nat /\ op.token \in Nat
    BY DEF IndInv, Shape
  <2>6. job[j].of = op.id /\ job[j].pc = "claim" /\ job[j].rq \in {"started", "stalled"}
    BY <1>1, <1>3 DEF At, Owns
  <2>7. \A k \in Jobs : /\ (Live(k)' <=> Live(k))
                        /\ job'[k].task = job[k].task
                        /\ k # j => (Claimed(k)' <=> Claimed(k))
    BY <2>1, <2>3 DEF Live, Claimed
  \* Nobody else has the new token.
  <2>8. \A k \in Jobs \ {j} : Live(k) => job'[k].token <= op.token /\ job'[k].token # op'.token
    <3>1. \A k \in Jobs \ {j} : Live(k) => job'[k].token <= op.token /\ job'[k].token \in Nat
      BY <2>1 DEF IndInv, Shape, JobInv
    <3>2. QED
      BY <2>4, <2>5, <3>1
  <2>9. Shape'
    BY <1>1, <2>1, <2>2, <2>3, <2>4, <2>5, <2>6, OneJobShape DEF IndInv
  <2>10. JobInv'
    <3>1. /\ \A k \in Jobs : job'[k].of <= op'.id
          /\ \A k \in Jobs : job'[k].pc # "" => job'[k].rq \in {"started", "stalled"}
          /\ \A k \in Jobs : Live(k)' => job'[k].task \in {"upgrade", "recover"}
      <4>1. \A k \in Jobs : /\ job[k].of <= op.id
                            /\ job[k].pc # "" => job[k].rq \in {"started", "stalled"}
                            /\ Live(k) => job[k].task \in {"upgrade", "recover"}
        BY DEF IndInv, JobInv
      <4>2. \A k \in Jobs : job'[k].of = job[k].of /\ job'[k].rq = job[k].rq
        BY <2>1, <2>3
      <4>3. \A k \in Jobs : k # j => job'[k].pc = job[k].pc
        BY <2>1
      <4>4. QED
        BY <2>3, <2>6, <2>7, <4>1, <4>2, <4>3
    <3>2. \A k \in Jobs : Live(k)' => job'[k].token <= op'.token
      <4>1. op'.token \in Nat /\ op.token <= op'.token /\ job'[j].token = op'.token
        BY <2>2, <2>4, <2>5
      <4>2. \A k \in Jobs \ {j} : Live(k) => job'[k].token \in Nat
        BY <2>1 DEF IndInv, Shape
      <4>3. QED
        BY <2>5, <2>7, <2>8, <4>1, <4>2
    <3>3. \A k, l \in Jobs : Claimed(k)' /\ Claimed(l)' /\ job'[k].token = job'[l].token => k = l
      <4> SUFFICES ASSUME NEW k \in Jobs, NEW l \in Jobs,
                          Claimed(k)', Claimed(l)', job'[k].token = job'[l].token, k # l
                   PROVE  FALSE
        OBVIOUS
      <4>1. Live(k) /\ Live(l)
        BY <2>7 DEF Claimed
      <4>2. k # j /\ l # j
        BY <2>2, <2>4, <2>8, <4>1
      <4>3. Claimed(k) /\ Claimed(l)
        BY <2>7, <4>2
      <4>4. job[k].token = job[l].token
        BY <2>1, <4>2
      <4>5. QED
        BY <4>3, <4>4 DEF IndInv, JobInv
    <3>4. \A k, l \in Jobs :
             Live(k)' /\ Live(l)' /\ job'[k].task = "upgrade" /\ job'[l].task = "upgrade" => k = l
      BY <2>7 DEF IndInv, JobInv
    <3>5. route' \in {"reserved", "unlocked"} => \A k \in Jobs : Live(k)' => job'[k].task # "upgrade"
      BY <1>1, <2>7 DEF IndInv, JobInv
    <3>6. Reserved' => \A k \in Jobs : Live(k)' /\ job'[k].task = "recover" => op'.required
      BY <2>3, <2>7 DEF IndInv, JobInv, Reserved
    <3>7. QED
      BY <3>1, <3>2, <3>3, <3>4, <3>5, <3>6 DEF JobInv
  <2>11. OwnerInv'
    <3> SUFFICES ASSUME NEW k \in Jobs, Owns(k)', job'[k].pc \in Early \cup {"claim", "lock"}
                 PROVE  k = j /\ (~job'[k].undo => op'.state = "preparing")
      BY <2>1 DEF OwnerInv, Early
    <3>1. k = j
      <4>1. SUFFICES ASSUME k # j PROVE FALSE
        OBVIOUS
      <4>2. job[k].pc # "" /\ job[k].of = op.id
        BY <2>1, <2>3, <4>1 DEF Owns, Early
      <4>3. Live(k)
        BY <4>2 DEF IndInv, JobInv, Live
      <4>4. QED
        BY <2>8, <4>1, <4>3 DEF Owns
    <3>2. ~job[j].undo => op.state = "preparing"
      BY <1>3, <2>6 DEF IndInv, OwnerInv
    <3>3. QED
      BY <2>1, <2>3, <3>1, <3>2
  <2>12. LockInv'
    BY <1>1, <2>3, SameLockInv DEF IndInv, Reserved
  <2>13. QED
    BY <2>9, <2>10, <2>11, <2>12 DEF IndInv
<1>4. QED
  BY <1>2, <1>3 DEF Claim

-----------------------------------------------------------------------------
(* ... then those of the clients, which leave the row and the jobs alone.  *)

ClientStep ==
    /\ UNCHANGED <<op, job>>
    /\ route' \in {"reserved", "unlocked"} => route \in {"reserved", "unlocked"}
    /\ DOMAIN lock' = Entities
    /\ DOMAIN user' = Users
    /\ \A u \in Users : DOMAIN user'[u] = UserFields

LEMMA ClientInv ==
  ASSUME IndInv, ClientStep, LockInv'
  PROVE  IndInv'
<1>1. UNCHANGED <<op, job>>
  BY DEF ClientStep
<1>2. Shape'
  BY <1>1 DEF IndInv, Shape, ClientStep
<1>3. \A j \in Jobs : (Live(j)' <=> Live(j)) /\ (Claimed(j)' <=> Claimed(j)) /\ (Owns(j)' <=> Owns(j))
  BY <1>1 DEF Live, Claimed, Owns
<1>4. JobInv'
  BY <1>1, <1>3 DEF IndInv, JobInv, Reserved, ClientStep
<1>5. OwnerInv'
  BY <1>1, <1>3 DEF IndInv, OwnerInv
<1>6. QED
  BY <1>2, <1>4, <1>5 DEF IndInv

LEMMA LocksDistinct ==
  /\ User # Nobody /\ Route # Nobody /\ User # Route
  /\ Host \in Entities /\ Instances \subseteq Entities
BY DEF User, Route, Nobody, Entities

LEMMA RouteLocksInv ==
  ASSUME IndInv, RouteLocks
  PROVE  IndInv'
<1>1. ClientStep
  BY DEF RouteLocks, ClientStep, IndInv, Shape
<1>2. \A u \in Users : user[u].phase # "working"
  BY LocksDistinct DEF RouteLocks, IndInv, LockInv
<1>3. LockInv'
  BY <1>2 DEF RouteLocks, IndInv, LockInv, Maintenance, RestoreAlone, Reserved
<1>4. QED
  BY <1>1, <1>3, ClientInv

LEMMA RouteUnlocksInv ==
  ASSUME IndInv, RouteUnlocks
  PROVE  IndInv'
<1>1. ClientStep
  BY DEF RouteUnlocks, FreeAll, ClientStep, IndInv, Shape
<1>2. LockInv'
  BY LocksDistinct DEF RouteUnlocks, FreeAll, IndInv, LockInv, Maintenance, RestoreAlone, Reserved
<1>3. QED
  BY <1>1, <1>2, ClientInv

LEMMA RouteGivesUpInv ==
  ASSUME IndInv, RouteGivesUp
  PROVE  IndInv'
<1>1. ClientStep
  BY DEF RouteGivesUp, ClientStep, IndInv, Shape
<1>2. LockInv'
  BY DEF RouteGivesUp, IndInv, LockInv, Maintenance, RestoreAlone, Reserved
<1>3. QED
  BY <1>1, <1>2, ClientInv

LEMMA LocksExpireInv ==
  ASSUME IndInv, NEW e \in Entities, LocksExpire(e)
  PROVE  IndInv'
<1>1. ClientStep
  BY DEF LocksExpire, FreeAll, clients, ClientStep, IndInv, Shape
<1>2. lock[e] # User /\ (route = "locked" => lock[e] # Route)
  <2>1. User[1] # "upgrade" /\ Route[1] # "upgrade"
    BY DEF User, Route
  <2>2. (lock[e] = Route /\ route = "idle") \/ lock[e][1] = "upgrade"
    BY DEF LocksExpire, Abandoned
  <2>3. QED
    BY <2>1, <2>2, LocksDistinct
<1>3. /\ UNCHANGED <<op, route, user, restore>>
      /\ \A f \in Entities : lock'[f] = IF lock[f] = lock[e] THEN Nobody ELSE lock[f]
  BY DEF LocksExpire, FreeAll, clients
<1>4. LockInv'
  BY <1>2, <1>3, LocksDistinct DEF IndInv, LockInv, Maintenance, RestoreAlone, Reserved
<1>5. QED
  BY <1>1, <1>4, ClientInv

LEMMA GuardInv ==
  ASSUME IndInv, NEW u \in Users, NEW i \in Instances, Guard(u, i)
  PROVE  IndInv'
<1>1. ClientStep
  BY DEF Guard, ClientStep, IndInv, Shape, UserFields
<1>2. /\ user'[u].phase = "guarded" /\ user'[u].inst = i
      /\ \A v \in Users \ {u} : user'[v] = user[v]
  BY DEF Guard, IndInv, Shape
<1>3. UNCHANGED <<op, lock, route, restore>>
  BY DEF Guard
<1>4. LockInv'
  BY <1>2, <1>3 DEF IndInv, LockInv, Maintenance, RestoreAlone, Reserved
<1>5. QED
  BY <1>1, <1>4, ClientInv

LEMMA WorksInv ==
  ASSUME IndInv, NEW u \in Users, Works(u)
  PROVE  IndInv'
<1> DEFINE i == user[u].inst
<1>1. i \in Instances /\ i \in Entities /\ lock[i] = Nobody /\ ~Maintenance
  BY LocksDistinct DEF Works, IndInv, LockInv
<1>2. ClientStep
  BY DEF Works, ClientStep, IndInv, Shape, UserFields
<1>3. /\ user'[u].phase = "working" /\ user'[u].inst = i
      /\ \A v \in Users \ {u} : user'[v] = user[v]
  BY DEF Works, IndInv, Shape, UserFields
<1>4. lock'[i] = User /\ \A e \in Entities \ {i} : lock'[e] = lock[e]
  BY <1>1 DEF Works, IndInv, Shape
<1>5. UNCHANGED <<op, route, restore>>
  BY DEF Works
<1>6. \A v \in Users : user[v].phase = "working" => user[v].inst # i
  BY <1>1, LocksDistinct DEF IndInv, LockInv
<1>7. route # "locked"
  BY <1>1, LocksDistinct DEF IndInv, LockInv
<1>8. LockInv'
  BY <1>1, <1>3, <1>4, <1>5, <1>6, <1>7, LocksDistinct
  DEF IndInv, LockInv, Maintenance, RestoreAlone, Reserved
<1>9. QED
  BY <1>2, <1>8, ClientInv

LEMMA RefusedInv ==
  ASSUME IndInv, NEW u \in Users, Refused(u)
  PROVE  IndInv'
<1>1. ClientStep
  BY DEF Refused, ClientStep, IndInv, Shape, UserFields
<1>2. user'[u].phase = "done" /\ \A v \in Users \ {u} : user'[v] = user[v]
  BY DEF Refused, IndInv, Shape, UserFields
<1>3. UNCHANGED <<op, lock, route, restore>>
  BY DEF Refused
<1>4. LockInv'
  BY <1>2, <1>3 DEF IndInv, LockInv, Maintenance, RestoreAlone, Reserved
<1>5. QED
  BY <1>1, <1>4, ClientInv

LEMMA WorkEndsInv ==
  ASSUME IndInv, NEW u \in Users, WorkEnds(u)
  PROVE  IndInv'
<1> DEFINE i == user[u].inst
<1>1. i \in Instances /\ i \in Entities /\ lock[i] = User
  BY LocksDistinct DEF WorkEnds, IndInv, LockInv
<1>2. ClientStep
  BY DEF WorkEnds, ClientStep, IndInv, Shape, UserFields
<1>3. user'[u].phase = "done" /\ \A v \in Users \ {u} : user'[v] = user[v]
  BY DEF WorkEnds, IndInv, Shape, UserFields
<1>4. lock'[i] = Nobody /\ \A e \in Entities \ {i} : lock'[e] = lock[e]
  BY <1>1 DEF WorkEnds, IndInv, Shape
<1>5. UNCHANGED <<op, route, restore>>
  BY DEF WorkEnds
<1>6. \A v \in Users \ {u} : user[v].phase = "working" => user[v].inst # i
  BY DEF WorkEnds, IndInv, LockInv
<1>7. route # "locked" /\ ~Maintenance
  BY <1>1, LocksDistinct DEF IndInv, LockInv
<1>8. LockInv'
  BY <1>1, <1>3, <1>4, <1>5, <1>6, <1>7, LocksDistinct
  DEF IndInv, LockInv, Maintenance, RestoreAlone, Reserved
<1>9. QED
  BY <1>2, <1>8, ClientInv

LEMMA BackupInv ==
  ASSUME IndInv, BackupLocks \/ RestoreBackup \/ BackupEnds
  PROVE  IndInv'
<1>1. ClientStep
  BY DEF BackupLocks, RestoreBackup, BackupEnds, ClientStep, IndInv, Shape
<1>2. UNCHANGED <<op, lock, route, user>>
  BY DEF BackupLocks, RestoreBackup, BackupEnds
<1>3. Maintenance' => \A e \in Entities : lock[e] = Nobody
  BY DEF BackupLocks, RestoreBackup, BackupEnds, Maintenance, IndInv, LockInv
<1>4. RestoreAlone'
  BY <1>2 DEF BackupLocks, RestoreBackup, BackupEnds, RestoreAlone, Reserved
<1>5. LockInv'
  BY <1>2, <1>3, <1>4 DEF IndInv, LockInv
<1>6. QED
  BY <1>1, <1>5, ClientInv

-----------------------------------------------------------------------------
(* The invariant holds.                                                    *)

LEMMA InitInv == Init => IndInv
<1> SUFFICES ASSUME Init PROVE IndInv
  OBVIOUS
<1>1. op.id = 0 /\ op.state = "none" /\ op.token = 0 /\ DOMAIN op = RowFields
  BY DEF Init, RowFields
<1>2. ~Reserved
  BY <1>1 DEF Reserved, Nonterminal
<1>3. \A j \in Jobs : job[j] = NoExecution
  BY DEF Init
<1>4. NoExecution.of = 0
  BY DEF NoExecution
<1>5. Shape
  <2>1. DOMAIN job = Jobs /\ DOMAIN lock = Entities /\ DOMAIN user = Users
    BY DEF Init
  <2>2. \A u \in Users : DOMAIN user[u] = UserFields
    BY DEF Init, UserFields
  <2>3. \A j \in Jobs : DOMAIN job[j] = JobFields /\ job[j].of \in Nat /\ job[j].token \in Nat
    BY <1>3, NoExecutionFields
  <2>4. op.id \in Nat /\ op.token \in Nat
    BY <1>1
  <2>5. QED
    BY <1>1, <2>1, <2>2, <2>3, <2>4 DEF Shape
<1>6. \A j \in Jobs : job[j].of <= op.id /\ job[j].rq = "none" /\ job[j].pc = ""
  <2>1. op.id \in Nat
    BY <1>1
  <2>2. QED
    BY <1>3, <2>1, NoExecutionFields
<1>7. JobInv
  BY <1>2, <1>6 DEF JobInv, Live, Claimed
<1>8. OwnerInv
  BY <1>6 DEF OwnerInv, Early
<1>9. LockInv
  <2>1. \A u \in Users : user[u].phase = "idle"
    BY DEF Init
  <2>2. QED
    BY <1>2, <2>1 DEF Init, LockInv, Maintenance, RestoreAlone
<1>10. QED
  BY <1>5, <1>7, <1>8, <1>9 DEF IndInv

LEMMA StutterInv ==
  ASSUME IndInv, UNCHANGED vars
  PROVE  IndInv'
<1>1. UNCHANGED <<op, job, lock, route, user, restore>>
  BY DEF vars
<1>2. ClientStep
  BY <1>1 DEF ClientStep, IndInv, Shape
<1>3. LockInv'
  BY <1>1, SameLockInv DEF IndInv, Reserved
<1>4. QED
  BY <1>2, <1>3, ClientInv

LEMMA NextInv ==
  ASSUME IndInv, [Next]_vars
  PROVE  IndInv'
<1>1. CASE RouteLocks \/ Reserve \/ RouteUnlocks \/ RouteGivesUp \/ \E e \in Entities : LocksExpire(e)
  BY <1>1, RouteLocksInv, ReserveInv, RouteUnlocksInv, RouteGivesUpInv, LocksExpireInv
<1>2. CASE \E j \in Jobs : RouteAssigns(j) \/ HandOver(j) \/ Enter(j) \/ Claim(j)
  BY <1>2, RouteAssignsInv, HandOverInv, EnterInv, ClaimInv
<1>3. CASE \E j \in Jobs : \/ Push(j) \/ Begin(j) \/ TakeLocks(j) \/ LocksRefused(j)
                           \/ ForwardStep(j) \/ ServiceStep(j) \/ RollbackStep(j)
                           \/ Superseded(j) \/ Release(j) \/ WorkerFault(j)
  BY <1>3, WorkerWorks, WorkStepInv
<1>4. CASE \E u \in Users : UserStep(u) \/ \E i \in Instances : Guard(u, i)
  BY <1>4, GuardInv, WorksInv, RefusedInv, WorkEndsInv DEF UserStep
<1>5. CASE BackupLocks \/ BackupStep
  BY <1>5, BackupInv DEF BackupStep
<1>6. CASE UNCHANGED vars
  BY <1>6, StutterInv
<1>7. QED
  BY <1>1, <1>2, <1>3, <1>4, <1>5, <1>6 DEF Next, RouteStep, WorkerStep

\* Every step of the workers, the poller, the request and the others keeps it.
THEOREM Invariance == Spec => []IndInv
<1>1. IndInv /\ [Next]_vars => IndInv'
  BY NextInv
<1>2. QED
  BY InitInv, <1>1, PTL DEF Spec

\* No backup is restored over the row that is a host's reservation and
\* rollback journal: restore_backup takes the maintenance lock and then looks
\* for rows (backup_routes.py:76-78), and a row is only made while the request
\* holds the locks of the host and of all its instances.
THEOREM NoRestoreUnderUpgrade == Spec => []RestoreAlone
<1>1. IndInv => RestoreAlone
  BY DEF IndInv, LockInv
<1>2. QED
  BY <1>1, Invariance, PTL

\* At any time one execution at most is past its claim and owns the operation
\* (claim_operation and Execution.commit, host_runtime_upgrade_ownership.py).
SingleOwner ==
    \A j, k \in Jobs :
        Owns(j) /\ Owns(k) /\ job[j].pc \notin Unclaimed /\ job[k].pc \notin Unclaimed => j = k

THEOREM OwnershipIsExclusive == Spec => []SingleOwner
<1>1. IndInv => SingleOwner
  BY OneOwner DEF IndInv, SingleOwner
<1>2. QED
  BY <1>1, Invariance, PTL

\* A finished upgrade stays finished, whatever executions of it are still
\* about: the compare of every commit refuses them, and the one commit that
\* compares no state, fail_preparation's, is made by an owner only while the
\* operation is in preparation.
THEOREM FinishedStaysFinished == Spec => TerminalIsFinal
<1>1. ASSUME IndInv, [Next]_vars, op.state \in Terminal
      PROVE  Reserve \/ (op'.state = op.state /\ host' = host)
  <2>1. ~Reserved /\ op.state # "preparing"
    BY <1>1 DEF Terminal, Nonterminal, Reserved
  <2>2. CASE \E j \in Jobs : \/ Push(j) \/ Begin(j) \/ TakeLocks(j) \/ LocksRefused(j)
                             \/ ForwardStep(j) \/ ServiceStep(j) \/ RollbackStep(j)
                             \/ Superseded(j) \/ Release(j) \/ WorkerFault(j)
    <3>1. PICK j \in Jobs : WorkStep(j)
      BY <1>1, <2>2, WorkerWorks
    <3>2. Owns(j) => job[j].pc # "cancel"
      BY <1>1, <2>1 DEF IndInv, OwnerInv, Early
    <3>3. QED
      BY <2>1, <3>1, <3>2 DEF WorkStep, RowStep
  <2>3. CASE \E j \in Jobs : Enter(j) \/ Claim(j)
    BY <1>1, <2>3 DEF Enter, Claim, IndInv, Shape, RowFields
  <2>4. CASE \E j \in Jobs : RouteAssigns(j) \/ HandOver(j)
    BY <2>1, <2>4 DEF RouteAssigns, HandOver
  <2>5. CASE RouteLocks \/ RouteUnlocks \/ RouteGivesUp \/ \E e \in Entities : LocksExpire(e)
    BY <2>5 DEF RouteLocks, RouteUnlocks, RouteGivesUp, LocksExpire
  <2>6. CASE \E u \in Users : UserStep(u) \/ \E i \in Instances : Guard(u, i)
    BY <2>6 DEF UserStep, Works, Refused, WorkEnds, Guard
  <2>7. CASE BackupLocks \/ BackupStep
    BY <2>7 DEF BackupLocks, BackupStep, RestoreBackup, BackupEnds
  <2>8. CASE UNCHANGED vars
    BY <2>8 DEF vars
  <2>9. QED
    BY <1>1, <2>2, <2>3, <2>4, <2>5, <2>6, <2>7, <2>8 DEF Next, RouteStep, WorkerStep
<1>2. IndInv /\ [Next]_vars =>
         [op.state \in Terminal => \/ op'.state = op.state /\ host' = host
                                   \/ Reserve]_vars
  BY <1>1
<1>3. QED
  BY <1>2, Invariance, PTL DEF Spec, TerminalIsFinal

-----------------------------------------------------------------------------
(* Types. Every action keeps them; only what a play is told of ended       *)
(* operations needs a reason: an operation that is in progress has a       *)
(* number, so the last one that ended has one as well.                     *)

TypeInv == TypeOK /\ (Reserved => op.id > 0)

Typed == IndInv /\ TypeInv

Executions == [Jobs -> Execution]
Outcomes == [Instances -> Outcome]
Servers == [Instances -> Instance]

LEMMA ExceptType ==
  ASSUME NEW D, NEW S, NEW f \in [D -> S], NEW d \in D, NEW x \in S
  PROVE  [f EXCEPT ![d] = x] \in [D -> S]
OBVIOUS

LEMMA JobTyped ==
  ASSUME job \in Executions, NEW j \in Jobs, NEW x \in Execution, job' = [job EXCEPT ![j] = x]
  PROVE  job' \in Executions
BY ExceptType DEF Executions

\* What an execution may become.
LEMMA ExecutionTyped ==
  ASSUME NEW x \in Execution
  PROVE  /\ x.todo \in SUBSET Instances /\ x.failed \in SUBSET Instances
         /\ x.of \in Nat /\ x.token \in Nat
         /\ \A p \in Pc : [x EXCEPT !.pc = p] \in Execution
         /\ \A s \in SUBSET Instances, p \in Pc : [x EXCEPT !.todo = s, !.pc = p] \in Execution
         /\ \A s \in SUBSET Instances, f \in SUBSET Instances, p \in Pc :
               [x EXCEPT !.todo = s, !.failed = f, !.pc = p] \in Execution
         /\ \A s \in SUBSET Instances, p \in Pc :
               [x EXCEPT !.undo = TRUE, !.todo = s, !.failed = {}, !.pc = p] \in Execution
         /\ \A q \in {"queued", "started", "stalled"} : [x EXCEPT !.rq = q] \in Execution
         /\ \A p \in Pc : [x EXCEPT !.rq = "started", !.pc = p] \in Execution
         /\ \A p \in Pc, n \in Nat : [x EXCEPT !.pc = p, !.token = n] \in Execution
         /\ \A p \in Pc, n \in Nat, b \in BOOLEAN :
               [x EXCEPT !.pc = p, !.token = n, !.undo = b] \in Execution
         /\ \A p \in Pc, n \in Nat : [x EXCEPT !.known = n, !.pc = p] \in Execution
         /\ \A p \in Pc, b \in BOOLEAN : [x EXCEPT !.ok = b, !.pc = p] \in Execution
BY DEF Execution

LEMMA GotoTyped ==
  ASSUME job \in Executions, NEW j \in Jobs, NEW p \in Pc, Goto(j, p)
  PROVE  job' \in Executions
<1>1. [job[j] EXCEPT !.pc = p] \in Execution
  BY DEF Execution, Executions
<1>2. job' = [job EXCEPT ![j] = [job[j] EXCEPT !.pc = p]]
  BY DEF Goto
<1>3. QED
  BY <1>1, <1>2, JobTyped

LEMMA StageTyped ==
  ASSUME job \in Executions, NEW j \in Jobs, NEW p \in Pc, Stage(j, p)
  PROVE  job' \in Executions
<1>1. [job[j] EXCEPT !.pc = p, !.todo = Instances] \in Execution
  BY DEF Execution, Executions
<1>2. job' = [job EXCEPT ![j] = [job[j] EXCEPT !.pc = p, !.todo = Instances]]
  BY DEF Stage
<1>3. QED
  BY <1>1, <1>2, JobTyped

LEMMA DoneTyped ==
  ASSUME job \in Executions, NEW j \in Jobs, NEW i, NEW p \in Pc, NEW q \in Pc, Done(j, i, p, q)
  PROVE  job' \in Executions
<1> DEFINE s == IF job[j].todo = {i} THEN Instances ELSE job[j].todo \ {i}
           r == IF job[j].todo = {i} THEN q ELSE p
<1>1. job' = [job EXCEPT ![j] = [job[j] EXCEPT !.todo = s, !.pc = r]]
  BY DEF Done
<1>2. s \in SUBSET Instances
  BY DEF Execution, Executions
<1>3. r \in Pc
  OBVIOUS
<1> HIDE DEF s, r
<1>4. [job[j] EXCEPT !.todo = s, !.pc = r] \in Execution
  BY <1>2, <1>3 DEF Execution, Executions
<1>5. QED
  BY <1>1, <1>4, JobTyped

LEMMA PassedTyped ==
  ASSUME job \in Executions, NEW j \in Jobs, NEW i, NEW p \in Pc, NEW q \in Pc,
         NEW f \in SUBSET Instances, Passed(j, i, f, p, q)
  PROVE  job' \in Executions
<1> DEFINE s == job[j].todo \ {i}
           r == IF job[j].todo = {i} THEN q ELSE p
<1>1. job' = [job EXCEPT ![j] = [job[j] EXCEPT !.todo = s, !.failed = f, !.pc = r]]
  BY DEF Passed
<1>2. s \in SUBSET Instances
  BY DEF Execution, Executions
<1>3. r \in Pc
  OBVIOUS
<1> HIDE DEF s, r
<1>4. [job[j] EXCEPT !.todo = s, !.failed = f, !.pc = r] \in Execution
  BY <1>2, <1>3 DEF Execution, Executions
<1>5. QED
  BY <1>1, <1>4, JobTyped

LEMMA EndTyped ==
  ASSUME job \in Executions, NEW j \in Jobs, job' = [job EXCEPT ![j] = NoExecution]
  PROVE  job' \in Executions
<1>1. NoExecution \in Execution
  BY DEF NoExecution, Execution, Pc
<1>2. QED
  BY <1>1, JobTyped

\* A new job, for the last operation.
LEMMA NewTyped ==
  ASSUME job \in Executions, NEW j \in Jobs, NEW t \in {"upgrade", "recover"}, NEW n \in Nat,
         job' = [job EXCEPT ![j] = [NoExecution EXCEPT !.rq = "assigned", !.of = n, !.task = t]]
  PROVE  job' \in Executions
<1>1. [NoExecution EXCEPT !.rq = "assigned", !.of = n, !.task = t] \in Execution
  BY DEF NoExecution, Execution, Pc
<1>2. QED
  BY <1>1, JobTyped

LEMMA LogTyped ==
  ASSUME log \in Outcomes, NEW i \in Instances
  PROVE  /\ \A s \in {"requested", "ok", "failed", "verified_inactive"} :
               [log EXCEPT ![i].stop = s] \in Outcomes
         /\ \A s \in {"swapping", "swapped"} : [log EXCEPT ![i].convert = s] \in Outcomes
         /\ \A s \in {"requested", "ok", "failed"} : [log EXCEPT ![i].configure = s] \in Outcomes
         /\ \A s \in {"failed", "ok", "untouched"} : [log EXCEPT ![i].rollback = s] \in Outcomes
<1>1. log[i] \in Outcome
  BY DEF Outcomes
<1>2. ASSUME NEW s \in {"requested", "ok", "failed", "verified_inactive"}
      PROVE  [log EXCEPT ![i].stop = s] \in Outcomes
  <2>1. [log[i] EXCEPT !.stop = s] \in Outcome
    BY <1>1 DEF Outcome
  <2>2. QED
    BY <2>1, ExceptType DEF Outcomes
<1>3. ASSUME NEW s \in {"swapping", "swapped"}
      PROVE  [log EXCEPT ![i].convert = s] \in Outcomes
  <2>1. [log[i] EXCEPT !.convert = s] \in Outcome
    BY <1>1 DEF Outcome
  <2>2. QED
    BY <2>1, ExceptType DEF Outcomes
<1>4. ASSUME NEW s \in {"requested", "ok", "failed"}
      PROVE  [log EXCEPT ![i].configure = s] \in Outcomes
  <2>1. [log[i] EXCEPT !.configure = s] \in Outcome
    BY <1>1 DEF Outcome
  <2>2. QED
    BY <2>1, ExceptType DEF Outcomes
<1>5. ASSUME NEW s \in {"failed", "ok", "untouched"}
      PROVE  [log EXCEPT ![i].rollback = s] \in Outcomes
  <2>1. [log[i] EXCEPT !.rollback = s] \in Outcome
    BY <1>1 DEF Outcome
  <2>2. QED
    BY <2>1, ExceptType DEF Outcomes
<1>6. QED
  BY <1>2, <1>3, <1>4, <1>5

Statuses == {"running", "stopped", "starting", "stopping", "configuring", "busy", "error"}

\* What an instance may become.
LEMMA InstanceTyped ==
  ASSUME NEW x \in Instance
  PROVE  /\ x.status \in Statuses /\ x.svc \in {"active", "inactive"}
         /\ x.tree \in Files /\ x.files \in Files
         /\ \A s \in Statuses : [x EXCEPT !.status = s] \in Instance
         /\ \A v \in {"active", "inactive"}, s \in Statuses :
               [x EXCEPT !.svc = v, !.status = s] \in Instance
         /\ \A v \in {"active", "inactive"} : [x EXCEPT !.svc = v] \in Instance
         /\ \A t \in Files : [x EXCEPT !.tree = t] \in Instance
         /\ \A t \in Files : [x EXCEPT !.files = t] \in Instance
BY DEF Instance, Statuses

LEMMA InstTyped ==
  ASSUME inst \in Servers, NEW i \in Instances, NEW x \in Instance,
         inst' = [inst EXCEPT ![i] = x]
  PROVE  inst' \in Servers
BY ExceptType DEF Servers

\* What the row may become, but for its state.
LEMMA OperationTyped ==
  ASSUME NEW x \in Operation
  PROVE  /\ x.id \in Nat /\ x.token \in Nat /\ x.snapshot \in BOOLEAN
         /\ \A j \in Jobs : [x EXCEPT !.job = j] \in Operation
         /\ \A j \in Jobs : [x EXCEPT !.job = j, !.required = TRUE] \in Operation
         /\ \A j \in Jobs, n \in Nat : [x EXCEPT !.token = n, !.job = j] \in Operation
         /\ \A b \in BOOLEAN : [x EXCEPT !.snapshot = b] \in Operation
         /\ [x EXCEPT !.required = TRUE] \in Operation
         /\ \A s \in Nonterminal \cup Terminal :
               /\ [x EXCEPT !.state = s] \in Operation
               /\ \A b \in BOOLEAN : [x EXCEPT !.state = s, !.required = b] \in Operation
               /\ [x EXCEPT !.state = s, !.required = FALSE, !.snapshot = FALSE] \in Operation
BY DEF Operation

LEMMA StateTyped ==
  /\ \A s \in {"preparing", "quiescing", "installing", "converting", "configuring", "rolling_back",
               "recovery_required"} : s \in Nonterminal
  /\ \A s \in {"succeeded", "rolled_back", "failed_preparation"} : s \in Terminal
BY DEF Nonterminal, Terminal

LEMMA StatusTyped ==
  ASSUME inst \in Servers, NEW i \in Instances, NEW s \in Statuses,
         inst' = [inst EXCEPT ![i].status = s]
  PROVE  inst' \in Servers
<1>1. inst' = [inst EXCEPT ![i] = [inst[i] EXCEPT !.status = s]]
  OBVIOUS
<1>2. [inst[i] EXCEPT !.status = s] \in Instance
  BY InstanceTyped DEF Servers
<1>3. QED
  BY <1>1, <1>2, InstTyped

LEMMA ServiceTyped ==
  ASSUME inst \in Servers, NEW i \in Instances, NEW s \in Statuses,
         NEW v \in {"active", "inactive"},
         inst' = [inst EXCEPT ![i].svc = v, ![i].status = s]
  PROVE  inst' \in Servers
<1>1. inst' = [inst EXCEPT ![i] = [inst[i] EXCEPT !.svc = v, !.status = s]]
  OBVIOUS
<1>2. [inst[i] EXCEPT !.svc = v, !.status = s] \in Instance
  BY InstanceTyped DEF Servers
<1>3. QED
  BY <1>1, <1>2, InstTyped

LEMMA TreeTyped ==
  ASSUME inst \in Servers, NEW i \in Instances, NEW t \in Files,
         inst' = [inst EXCEPT ![i].tree = t]
  PROVE  inst' \in Servers
<1>1. inst' = [inst EXCEPT ![i] = [inst[i] EXCEPT !.tree = t]]
  OBVIOUS
<1>2. [inst[i] EXCEPT !.tree = t] \in Instance
  BY InstanceTyped DEF Servers
<1>3. QED
  BY <1>1, <1>2, InstTyped

LEMMA FilesTyped ==
  ASSUME inst \in Servers, NEW i \in Instances, NEW t \in Files,
         inst' = [inst EXCEPT ![i].files = t]
  PROVE  inst' \in Servers
<1>1. inst' = [inst EXCEPT ![i] = [inst[i] EXCEPT !.files = t]]
  OBVIOUS
<1>2. [inst[i] EXCEPT !.files = t] \in Instance
  BY InstanceTyped DEF Servers
<1>3. QED
  BY <1>1, <1>2, InstTyped

LEMMA FailTyped ==
  ASSUME job \in Executions, log \in Outcomes, inst \in Servers,
         NEW j \in Jobs, NEW i \in Instances, NEW now \in Instance, NEW p \in Pc, NEW q \in Pc,
         FailInstance(j, i, now, p, q)
  PROVE  job' \in Executions /\ log' \in Outcomes /\ inst' \in Servers
<1>1. log' \in Outcomes
  BY LogTyped DEF FailInstance
<1>2. inst' \in Servers
  <2>1. PICK s \in {now.status, "error"} : inst' = [inst EXCEPT ![i] = [now EXCEPT !.status = s]]
    BY DEF FailInstance
  <2>2. s \in Statuses
    BY InstanceTyped DEF Statuses
  <2>3. [now EXCEPT !.status = s] \in Instance
    BY <2>2, InstanceTyped
  <2>4. QED
    BY <2>1, <2>3, InstTyped
<1>3. job' \in Executions
  <2>1. job[j].failed \cup {i} \in SUBSET Instances
    BY DEF Executions, Execution
  <2>2. QED
    BY <2>1, PassedTyped DEF FailInstance
<1>4. QED
  BY <1>1, <1>2, <1>3

Locks == [Entities -> Owner]

LEMMA OwnersTyped ==
  /\ Nobody \in Owner /\ Route \in Owner /\ User \in Owner
  /\ job \in Executions => \A j \in Jobs : Exec(job[j]) \in Owner
<1>1. Nobody \in Owner /\ Route \in Owner /\ User \in Owner
  BY DEF Nobody, Route, User, Owner
<1>2. ASSUME job \in Executions, NEW j \in Jobs
      PROVE  Exec(job[j]) \in Owner
  <2>1. job[j].of \in Nat /\ job[j].token \in Nat
    BY <1>2 DEF Executions, Execution
  <2>2. QED
    BY <2>1 DEF Exec, Owner
<1>3. QED
  BY <1>1, <1>2

LEMMA FenceTyped ==
  ASSUME lock \in Locks, job \in Executions, NEW j \in Jobs, Fence(j)
  PROVE  lock' \in Locks
BY OwnersTyped DEF Fence, Locks

LEMMA FreeTyped ==
  ASSUME lock \in Locks, NEW owner, FreeAll(owner)
  PROVE  lock' \in Locks
BY OwnersTyped DEF FreeAll, Locks

LEMMA SpendTyped ==
  ASSUME budget \in 0 .. Budget, NEW kind, Spend(kind)
  PROVE  budget' \in 0 .. Budget
BY RuntimeUpgradeAssumption DEF Spend

Hosts == [status : {"active", "configuring", "error"}, runtime : {"minqlx", "minqlxtended"}]
Fences == [id : Nat, token : Nat, final : BOOLEAN]
UserOps == [Users -> [phase : {"idle", "guarded", "working", "done"}, inst : Entities]]

\* The types, one variable each.
LEMMA TypeParts ==
  TypeOK <=>
    /\ op \in Operation /\ log \in Outcomes /\ host \in Hosts /\ inst \in Servers
    /\ fence \in Fences /\ job \in Executions /\ lock \in Locks
    /\ route \in {"idle", "locked", "reserved", "unlocked"}
    /\ user \in UserOps /\ restore \in {"idle", "holding", "running", "done"}
    /\ budget \in 0 .. Budget /\ meddled \in SUBSET Instances
BY DEF TypeOK, Outcomes, Hosts, Servers, Fences, Executions, Locks, UserOps

LEMMA TypePartsNext ==
    /\ op' \in Operation /\ log' \in Outcomes /\ host' \in Hosts /\ inst' \in Servers
    /\ fence' \in Fences /\ job' \in Executions /\ lock' \in Locks
    /\ route' \in {"idle", "locked", "reserved", "unlocked"}
    /\ user' \in UserOps /\ restore' \in {"idle", "holding", "running", "done"}
    /\ budget' \in 0 .. Budget /\ meddled' \in SUBSET Instances
    => TypeOK'
BY DEF TypeOK, Outcomes, Hosts, Servers, Fences, Executions, Locks, UserOps

LEMMA UpgradeTyped ==
  ASSUME job \in Executions, NEW j \in Jobs, NEW n \in Nat,
         job' = [job EXCEPT ![j] = [NoExecution EXCEPT !.rq = "assigned", !.of = n]]
  PROVE  job' \in Executions
<1>1. [NoExecution EXCEPT !.rq = "assigned", !.of = n] \in Execution
  BY DEF NoExecution, Execution, Pc
<1>2. QED
  BY <1>1, JobTyped

LEMMA EndedTyped ==
  ASSUME Typed
  PROVE  Ended \in Nat
<1>1. op \in Operation /\ (Reserved => op.id > 0)
  BY TypeParts DEF Typed, TypeInv
<1>2. op.id \in Nat
  BY <1>1, OperationTyped
<1>3. QED
  BY <1>1, <1>2 DEF Ended

LEMMA RecordTyped ==
  ASSUME job \in Executions, NEW j \in Jobs
  PROVE  Recorded(j) \in Fences
BY DEF Recorded, Executions, Execution, Fences

LEMMA RouteLocksTyped ==
  ASSUME Typed, RouteLocks
  PROVE  TypeOK'
<1> USE TypeParts DEF Typed, TypeInv, RouteLocks
<1>1. lock' \in Locks
  BY OwnersTyped DEF Locks
<1>2. QED
  BY <1>1, TypePartsNext

LEMMA ReserveTyped ==
  ASSUME Typed, Reserve
  PROVE  TypeOK'
<1> USE TypeParts DEF Typed, TypeInv, Reserve
<1>1. op' \in Operation
  BY DEF Operation, Nonterminal
<1>2. log' \in Outcomes
  <2>1. ASSUME NEW i \in Instances
        PROVE  NoOutcome(inst[i].status) \in Outcome
    <3>1. inst[i].status \in {"running", "stopped"}
      BY DEF Eligible
    <3>2. QED
      BY <3>1 DEF NoOutcome, Outcome
  <2>2. QED
    BY <2>1 DEF Outcomes
<1>3. host' \in Hosts
  BY DEF Hosts
<1>4. QED
  BY <1>1, <1>2, <1>3, TypePartsNext

LEMMA RouteUnlocksTyped ==
  ASSUME Typed, RouteUnlocks
  PROVE  TypeOK'
<1> USE TypeParts DEF Typed, TypeInv, RouteUnlocks
<1>1. lock' \in Locks
  BY FreeTyped
<1>2. QED
  BY <1>1, TypePartsNext

LEMMA RouteAssignsTyped ==
  ASSUME Typed, NEW j \in Jobs, RouteAssigns(j)
  PROVE  TypeOK'
<1> USE TypeParts DEF Typed, TypeInv, RouteAssigns
<1>1. op' \in Operation
  BY OperationTyped
<1>2. job' \in Executions
  <2>1. op.id \in Nat
    BY OperationTyped
  <2>2. QED
    BY <2>1, UpgradeTyped
<1>3. QED
  BY <1>1, <1>2, TypePartsNext DEF clients

LEMMA RouteGivesUpTyped ==
  ASSUME Typed, RouteGivesUp
  PROVE  TypeOK'
<1> USE TypeParts DEF Typed, TypeInv, RouteGivesUp
<1>1. budget' \in 0 .. Budget
  BY SpendTyped
<1>2. QED
  BY <1>1, TypePartsNext

LEMMA LocksExpireTyped ==
  ASSUME Typed, NEW e \in Entities, LocksExpire(e)
  PROVE  TypeOK'
<1> USE TypeParts DEF Typed, TypeInv, LocksExpire
<1>1. lock' \in Locks
  BY FreeTyped
<1>2. QED
  BY <1>1, TypePartsNext DEF clients

LEMMA PushTyped ==
  ASSUME Typed, NEW j \in Jobs, Push(j)
  PROVE  TypeOK'
<1> USE TypeParts DEF Typed, TypeInv, Push
<1>1. job' \in Executions
  <2>1. CASE job' = [job EXCEPT ![j] = NoExecution]
    BY <2>1, EndTyped
  <2>2. CASE job' = [job EXCEPT ![j].rq = "queued"]
    <3>1. job' = [job EXCEPT ![j] = [job[j] EXCEPT !.rq = "queued"]]
      BY <2>2
    <3>2. [job[j] EXCEPT !.rq = "queued"] \in Execution
      BY ExecutionTyped DEF Executions
    <3>3. QED
      BY <3>1, <3>2, JobTyped
  <2>3. QED
    BY <2>1, <2>2
<1>2. budget' \in 0 .. Budget
  BY SpendTyped
<1>3. QED
  BY <1>1, <1>2, TypePartsNext DEF clients

LEMMA HandOverTyped ==
  ASSUME Typed, NEW j \in Jobs, HandOver(j)
  PROVE  TypeOK'
<1> USE TypeParts DEF Typed, TypeInv, HandOver
<1>1. op' \in Operation
  BY OperationTyped
<1>2. job' \in Executions
  <2>1. op.id \in Nat
    BY DEF Operation
  <2>2. job' = [job EXCEPT ![j] = [NoExecution EXCEPT !.rq = "assigned", !.of = op.id, !.task = "recover"]]
    OBVIOUS
  <2>3. QED
    BY <2>1, <2>2, NewTyped
<1>3. QED
  BY <1>1, <1>2, TypePartsNext DEF clients

LEMMA BeginTyped ==
  ASSUME Typed, NEW j \in Jobs, Begin(j)
  PROVE  TypeOK'
<1> USE TypeParts DEF Typed, TypeInv, Begin
<1>1. job' \in Executions
  <2>1. job' = [job EXCEPT ![j] = [job[j] EXCEPT !.rq = "started", !.pc = "enter"]]
    OBVIOUS
  <2>2. [job[j] EXCEPT !.rq = "started", !.pc = "enter"] \in Execution
    BY ExecutionTyped DEF Executions, Pc
  <2>3. QED
    BY <2>1, <2>2, JobTyped
<1>2. QED
  BY <1>1, TypePartsNext DEF clients

LEMMA EnterTyped ==
  ASSUME Typed, NEW j \in Jobs, Enter(j)
  PROVE  TypeOK'
<1> USE TypeParts DEF Typed, TypeInv, Enter
<1>1. job' \in Executions
  <2>1. CASE job' = [job EXCEPT ![j] = NoExecution]
    BY <2>1, EndTyped
  <2>2. CASE job' # [job EXCEPT ![j] = NoExecution]
    <3>1. PICK b \in BOOLEAN :
             job' = [job EXCEPT ![j] = [job[j] EXCEPT !.pc = "claim", !.token = op.token, !.undo = b]]
      BY <2>2
    <3>2. op.token \in Nat /\ "claim" \in Pc /\ job[j] \in Execution
      BY OperationTyped DEF Pc, Executions
    <3>3. [job[j] EXCEPT !.pc = "claim", !.token = op.token, !.undo = b] \in Execution
      BY <3>2, ExecutionTyped
    <3>4. QED
      BY <3>1, <3>3, JobTyped
  <2>3. QED
    BY <2>1, <2>2
<1>2. QED
  BY <1>1, TypePartsNext DEF clients

LEMMA ClaimTyped ==
  ASSUME Typed, NEW j \in Jobs, Claim(j)
  PROVE  TypeOK'
<1> USE TypeParts DEF Typed, TypeInv, Claim
<1>1. op' \in Operation
  <2>1. op \in Operation /\ op.token \in Nat
    BY OperationTyped
  <2>2. CASE Owns(j)
    <3>1. op' = [op EXCEPT !.token = op.token + 1, !.job = j]
      BY <2>2
    <3>2. op.token + 1 \in Nat
      BY <2>1
    <3>3. QED
      BY <2>1, <3>1, <3>2, OperationTyped
  <2>3. CASE ~Owns(j)
    BY <2>3
  <2>4. QED
    BY <2>2, <2>3
<1>2. job' \in Executions
  <2>1. CASE job' = [job EXCEPT ![j] = NoExecution]
    BY <2>1, EndTyped
  <2>2. CASE job' # [job EXCEPT ![j] = NoExecution]
    <3>1. job' = [job EXCEPT ![j] = [job[j] EXCEPT !.pc = "lock", !.token = op.token + 1]]
      BY <2>2
    <3>2. op.token + 1 \in Nat
      BY DEF Operation
    <3>3. [job[j] EXCEPT !.pc = "lock", !.token = op.token + 1] \in Execution
      BY <3>2, ExecutionTyped DEF Executions, Pc
    <3>4. QED
      BY <3>1, <3>3, JobTyped
  <2>3. QED
    BY <2>1, <2>2
<1>3. QED
  BY <1>1, <1>2, TypePartsNext DEF clients

LEMMA TakeLocksTyped ==
  ASSUME Typed, NEW j \in Jobs, TakeLocks(j)
  PROVE  TypeOK'
<1> USE TypeParts DEF Typed, TypeInv, TakeLocks
<1>1. lock' \in Locks
  BY OwnersTyped DEF Locks
<1>2. job' \in Executions
  BY GotoTyped DEF Pc
<1>3. QED
  BY <1>1, <1>2, TypePartsNext DEF clients

LEMMA LocksRefusedTyped ==
  ASSUME Typed, NEW j \in Jobs, LocksRefused(j)
  PROVE  TypeOK'
<1> USE TypeParts DEF Typed, TypeInv, LocksRefused
<1>1. job' \in Executions
  BY GotoTyped DEF Pc
<1>2. lock' \in Locks
  BY OwnersTyped DEF Locks
<1>3. QED
  BY <1>1, <1>2, TypePartsNext DEF clients

LEMMA ValidateTyped ==
  ASSUME Typed, NEW j \in Jobs, Validate(j)
  PROVE  TypeOK'
<1> USE TypeParts DEF Typed, TypeInv, Validate
<1>1. job' \in Executions
  BY GotoTyped DEF Pc
<1>2. budget' \in 0 .. Budget
  BY SpendTyped
<1>3. QED
  BY <1>1, <1>2, TypePartsNext DEF clients

LEMMA SnapshotTyped ==
  ASSUME Typed, NEW j \in Jobs, Snapshot(j)
  PROVE  TypeOK'
<1> USE TypeParts DEF Typed, TypeInv, Snapshot
<1>1. op' \in Operation
  BY OperationTyped
<1>2. job' \in Executions
  BY GotoTyped DEF Pc
<1>3. budget' \in 0 .. Budget
  BY SpendTyped
<1>4. QED
  BY <1>1, <1>2, <1>3, TypePartsNext DEF clients

LEMMA RecheckTyped ==
  ASSUME Typed, NEW j \in Jobs, Recheck(j)
  PROVE  TypeOK'
<1> USE TypeParts DEF Typed, TypeInv, Recheck
<1>1. lock' \in Locks
  BY FenceTyped
<1>2. op' \in Operation
  <2>1. "quiescing" \in Nonterminal \cup Terminal
    BY StateTyped
  <2>2. op \in Operation /\ [op EXCEPT !.state = "quiescing"] \in Operation
    BY <2>1, OperationTyped
  <2>3. op' = op \/ op' = [op EXCEPT !.state = "quiescing"]
    OBVIOUS
  <2>4. QED
    BY <2>2, <2>3
<1>3. job' \in Executions
  BY GotoTyped, StageTyped DEF Pc
<1>4. QED
  BY <1>1, <1>2, <1>3, TypePartsNext DEF clients

LEMMA CancelTyped ==
  ASSUME Typed, NEW j \in Jobs, Cancel(j)
  PROVE  TypeOK'
<1> USE TypeParts DEF Typed, TypeInv, Cancel
<1>1. op' \in Operation
  BY OperationTyped, StateTyped
<1>2. host' \in Hosts
  BY DEF Hosts
<1>3. job' \in Executions
  BY GotoTyped DEF Pc
<1>4. QED
  BY <1>1, <1>2, <1>3, TypePartsNext DEF clients

LEMMA ServiceBeginsTyped ==
  ASSUME Typed, NEW j \in Jobs, NEW i \in Instances, ServiceBegins(j, i)
  PROVE  TypeOK'
<1> USE TypeParts DEF Typed, TypeInv, ServiceBegins
<1>1. inst' \in Servers
  BY StatusTyped DEF Statuses
<1>2. job' \in Executions
  BY GotoTyped DEF Pc
<1>3. QED
  BY <1>1, <1>2, TypePartsNext DEF clients

LEMMA ServiceRunsTyped ==
  ASSUME Typed, NEW j \in Jobs, NEW i \in Instances, ServiceRuns(j, i)
  PROVE  TypeOK'
<1> USE TypeParts DEF Typed, TypeInv, ServiceRuns
<1>1. inst' \in Servers
  <2>1. inst[i].svc \in {"active", "inactive"} /\ inst[i].status \in Statuses
    BY InstanceTyped DEF Servers
  <2>2. PICK v \in {"active", "inactive"}, s \in Statuses :
           inst' = [inst EXCEPT ![i].svc = v, ![i].status = s]
    BY <2>1 DEF Target, Statuses
  <2>3. QED
    BY <2>2, ServiceTyped
<1>2. job' \in Executions
  <2>1. PICK b \in BOOLEAN, p \in {"stopped", "started"} :
           job' = [job EXCEPT ![j] = [job[j] EXCEPT !.ok = b, !.pc = p]]
    <3>1. PICK b \in BOOLEAN :
             job' = [job EXCEPT ![j].ok = b,
                                ![j].pc = IF @ = "stopplay" THEN "stopped" ELSE "started"]
      OBVIOUS
    <3>2. CASE job[j].pc = "stopplay"
      <4>1. job' = [job EXCEPT ![j] = [job[j] EXCEPT !.ok = b, !.pc = "stopped"]]
        BY <3>1, <3>2
      <4>2. QED
        BY <4>1
    <3>3. CASE job[j].pc # "stopplay"
      <4>1. job' = [job EXCEPT ![j] = [job[j] EXCEPT !.ok = b, !.pc = "started"]]
        BY <3>1, <3>3
      <4>2. QED
        BY <4>1
    <3>4. QED
      BY <3>2, <3>3
  <2>2. p \in Pc /\ job[j] \in Execution
    BY DEF Pc, Executions
  <2>3. [job[j] EXCEPT !.ok = b, !.pc = p] \in Execution
    BY <2>2, ExecutionTyped
  <2>4. QED
    BY <2>1, <2>3, JobTyped
<1>3. budget' \in 0 .. Budget
  BY SpendTyped
<1>4. QED
  BY <1>1, <1>2, <1>3, TypePartsNext DEF clients

LEMMA StopAskTyped ==
  ASSUME Typed, NEW j \in Jobs, NEW i \in Instances, StopAsk(j, i)
  PROVE  TypeOK'
<1> USE TypeParts DEF Typed, TypeInv, StopAsk
<1>1. lock' \in Locks
  BY FenceTyped
<1>2. log' \in Outcomes
  BY LogTyped
<1>3. job' \in Executions
  BY GotoTyped DEF Pc
<1>4. QED
  BY <1>1, <1>2, <1>3, TypePartsNext DEF clients

LEMMA StoppedTyped ==
  ASSUME Typed, NEW j \in Jobs, NEW i \in Instances, Stopped(j, i)
  PROVE  TypeOK'
<1> USE TypeParts DEF Typed, TypeInv, Stopped
<1>1. inst' \in Servers
  BY StatusTyped DEF Statuses
<1>2. log' \in Outcomes
  BY LogTyped
<1>3. job' \in Executions
  <2>1. "stop" \in Pc /\ "install" \in Pc /\ "rollback" \in Pc
    BY DEF Pc
  <2>2. QED
    BY <2>1, GotoTyped, DoneTyped
<1>4. budget' \in 0 .. Budget
  BY SpendTyped
<1>5. QED
  BY <1>1, <1>2, <1>3, <1>4, TypePartsNext DEF clients

LEMMA StopVerifyTyped ==
  ASSUME Typed, NEW j \in Jobs, NEW i \in Instances, StopVerify(j, i)
  PROVE  TypeOK'
<1> USE TypeParts DEF Typed, TypeInv, StopVerify
<1>1. log' \in Outcomes
  BY LogTyped
<1>2. job' \in Executions
  <2>1. "stop" \in Pc /\ "install" \in Pc /\ "rollback" \in Pc
    BY DEF Pc
  <2>2. QED
    BY <2>1, GotoTyped, DoneTyped
<1>3. budget' \in 0 .. Budget
  BY SpendTyped
<1>4. QED
  BY <1>1, <1>2, <1>3, TypePartsNext DEF clients

LEMMA BeginStepTyped ==
  ASSUME Typed, NEW j \in Jobs, BeginStep(j)
  PROVE  TypeOK'
<1> USE TypeParts DEF Typed, TypeInv, BeginStep
<1>1. lock' \in Locks
  BY FenceTyped
<1>2. op' \in Operation
  <2>1. PICK s \in {"installing", "converting", "configuring"} : op' = [op EXCEPT !.state = s]
    OBVIOUS
  <2>2. QED
    BY <2>1, OperationTyped, StateTyped
<1>3. host' \in Hosts
  BY DEF Hosts
<1>4. job' \in Executions
  BY GotoTyped, StageTyped DEF Pc
<1>5. QED
  BY <1>1, <1>2, <1>3, <1>4, TypePartsNext DEF clients

LEMMA InstallTyped ==
  ASSUME Typed, NEW j \in Jobs, Install(j)
  PROVE  TypeOK'
<1> USE TypeParts DEF Typed, TypeInv, Install
<1>1. fence' \in Fences
  BY RecordTyped
<1>2. job' \in Executions
  BY GotoTyped DEF Pc
<1>3. budget' \in 0 .. Budget
  BY SpendTyped
<1>4. QED
  BY <1>1, <1>2, <1>3, TypePartsNext DEF clients

LEMMA SwapAskTyped ==
  ASSUME Typed, NEW j \in Jobs, NEW i \in Instances, SwapAsk(j, i)
  PROVE  TypeOK'
<1> USE TypeParts DEF Typed, TypeInv, SwapAsk
<1>1. lock' \in Locks
  BY FenceTyped
<1>2. log' \in Outcomes
  BY LogTyped
<1>3. job' \in Executions
  BY GotoTyped DEF Pc
<1>4. QED
  BY <1>1, <1>2, <1>3, TypePartsNext DEF clients

LEMMA SwapTyped ==
  ASSUME Typed, NEW j \in Jobs, NEW i \in Instances, Swap(j, i)
  PROVE  TypeOK'
<1> USE TypeParts DEF Typed, TypeInv, Swap
<1>1. inst' \in Servers
  BY TreeTyped DEF Files
<1>2. log' \in Outcomes
  BY LogTyped
<1>3. job' \in Executions
  <2>1. "swap" \in Pc /\ "runtime" \in Pc /\ "rollback" \in Pc /\ "release" \in Pc
    BY DEF Pc
  <2>2. QED
    BY <2>1, GotoTyped, DoneTyped
<1>4. budget' \in 0 .. Budget
  BY SpendTyped
<1>5. QED
  BY <1>1, <1>2, <1>3, <1>4, TypePartsNext DEF clients

LEMMA ConfigureAskTyped ==
  ASSUME Typed, NEW j \in Jobs, NEW i \in Instances, ConfigureAsk(j, i)
  PROVE  TypeOK'
<1> USE TypeParts DEF Typed, TypeInv, ConfigureAsk
<1>1. lock' \in Locks
  BY FenceTyped
<1>2. log' \in Outcomes
  BY LogTyped
<1>3. inst' \in Servers
  BY StatusTyped DEF Statuses
<1>4. job' \in Executions
  BY GotoTyped DEF Pc
<1>5. QED
  BY <1>1, <1>2, <1>3, <1>4, TypePartsNext DEF clients

LEMMA PlayBeginsTyped ==
  ASSUME Typed, NEW j \in Jobs, NEW i \in Instances, PlayBegins(j, i)
  PROVE  TypeOK'
<1> USE TypeParts DEF Typed, TypeInv, PlayBegins
<1>1. job' \in Executions
  <2>1. CASE host.runtime = IF At(j, "play") THEN "minqlxtended" ELSE "minqlx"
    <3>1. PICK p \in {"playing", "restoring"} :
             job' = [job EXCEPT ![j] = [job[j] EXCEPT !.known = Ended, !.pc = p]]
      <4>1. job' = [job EXCEPT ![j] = [job[j] EXCEPT !.known = Ended,
                       !.pc = IF At(j, "play") THEN "playing" ELSE "restoring"]]
        BY <2>1
      <4>2. CASE At(j, "play")
        BY <4>1, <4>2
      <4>3. CASE ~At(j, "play")
        BY <4>1, <4>3
      <4>4. QED
        BY <4>2, <4>3
    <3>2. Ended \in Nat
      BY EndedTyped
    <3>3. [job[j] EXCEPT !.known = Ended, !.pc = p] \in Execution
      BY <3>2, ExecutionTyped DEF Executions, Pc
    <3>4. QED
      BY <3>1, <3>3, JobTyped
  <2>2. CASE host.runtime # IF At(j, "play") THEN "minqlxtended" ELSE "minqlx"
    <3>1. \/ Goto(j, "rollback") \/ Goto(j, "release")
          \/ FailInstance(j, i, inst[i], "tree", "finish")
      BY <2>2
    <3>2. /\ inst[i] \in Instance
          /\ "rollback" \in Pc /\ "release" \in Pc /\ "tree" \in Pc /\ "finish" \in Pc
      BY DEF Servers, Pc
    <3>3. QED
      BY <3>1, <3>2, GotoTyped, FailTyped
  <2>3. QED
    BY <2>1, <2>2
<1>2. log' \in Outcomes
  <2>1. inst[i] \in Instance /\ "tree" \in Pc /\ "finish" \in Pc
    BY DEF Servers, Pc
  <2>2. \/ log' = log \/ log' = [log EXCEPT ![i].configure = "failed"]
        \/ FailInstance(j, i, inst[i], "tree", "finish")
    OBVIOUS
  <2>3. QED
    BY <2>1, <2>2, LogTyped, FailTyped
<1>3. inst' \in Servers
  <2>1. inst[i] \in Instance /\ "tree" \in Pc /\ "finish" \in Pc
    BY DEF Servers, Pc
  <2>2. inst' = inst \/ FailInstance(j, i, inst[i], "tree", "finish")
    OBVIOUS
  <2>3. QED
    BY <2>1, <2>2, FailTyped
<1>4. QED
  BY <1>1, <1>2, <1>3, TypePartsNext DEF clients

LEMMA ConfigureTyped ==
  ASSUME Typed, NEW j \in Jobs, NEW i \in Instances, Configure(j, i)
  PROVE  TypeOK'
<1> USE TypeParts DEF Typed, TypeInv, Configure
<1>1. fence' \in Fences
  BY RecordTyped
<1>2. inst' \in Servers
  BY FilesTyped DEF Files
<1>3. log' \in Outcomes
  BY LogTyped
<1>4. job' \in Executions
  <2>1. "configure" \in Pc /\ "start" \in Pc /\ "rollback" \in Pc /\ "release" \in Pc
    BY DEF Pc
  <2>2. QED
    BY <2>1, GotoTyped, DoneTyped
<1>5. budget' \in 0 .. Budget
  BY SpendTyped
<1>6. QED
  BY <1>1, <1>2, <1>3, <1>4, <1>5, TypePartsNext DEF clients

LEMMA StartAskTyped ==
  ASSUME Typed, NEW j \in Jobs, NEW i \in Instances, StartAsk(j, i)
  PROVE  TypeOK'
<1> USE TypeParts DEF Typed, TypeInv, StartAsk
<1>1. lock' \in Locks
  BY FenceTyped
<1>2. job' \in Executions
  BY GotoTyped DEF Pc
<1>3. QED
  BY <1>1, <1>2, TypePartsNext DEF clients

LEMMA StartedTyped ==
  ASSUME Typed, NEW j \in Jobs, NEW i \in Instances, Started(j, i)
  PROVE  TypeOK'
<1> USE TypeParts DEF Typed, TypeInv, Started
<1>1. inst' \in Servers
  BY StatusTyped DEF Statuses
<1>2. job' \in Executions
  <2>1. "start" \in Pc /\ "succeed" \in Pc /\ "rollback" \in Pc
    BY DEF Pc
  <2>2. QED
    BY <2>1, GotoTyped, DoneTyped
<1>3. budget' \in 0 .. Budget
  BY SpendTyped
<1>4. QED
  BY <1>1, <1>2, <1>3, TypePartsNext DEF clients

LEMMA StartVerifyTyped ==
  ASSUME Typed, NEW j \in Jobs, NEW i \in Instances, StartVerify(j, i)
  PROVE  TypeOK'
<1> USE TypeParts DEF Typed, TypeInv, StartVerify
<1>1. lock' \in Locks
  BY FenceTyped
<1>2. inst' \in Servers
  BY StatusTyped DEF Statuses
<1>3. job' \in Executions
  <2>1. "start" \in Pc /\ "succeed" \in Pc /\ "rollback" \in Pc
    BY DEF Pc
  <2>2. QED
    BY <2>1, GotoTyped, DoneTyped
<1>4. budget' \in 0 .. Budget
  BY SpendTyped
<1>5. QED
  BY <1>1, <1>2, <1>3, <1>4, TypePartsNext DEF clients

LEMMA SucceedTyped ==
  ASSUME Typed, NEW j \in Jobs, Succeed(j)
  PROVE  TypeOK'
<1> USE TypeParts DEF Typed, TypeInv, Succeed
<1>1. lock' \in Locks
  BY FenceTyped
<1>2. op' \in Operation
  BY OperationTyped, StateTyped
<1>3. host' \in Hosts
  BY DEF Hosts
<1>4. job' \in Executions
  BY GotoTyped DEF Pc
<1>5. QED
  BY <1>1, <1>2, <1>3, <1>4, TypePartsNext DEF clients

LEMMA RollbackTyped ==
  ASSUME Typed, NEW j \in Jobs, Rollback(j)
  PROVE  TypeOK'
<1> USE TypeParts DEF Typed, TypeInv, Rollback
<1>1. lock' \in Locks
  BY FenceTyped
<1>2. op' \in Operation
  BY OperationTyped, StateTyped
<1>3. job' \in Executions
  <2> DEFINE s == {i \in Instances : Touched(i) /\ ~RolledBack(i)}
             p == IF ~op.snapshot THEN "release" ELSE IF s = {} THEN "back" ELSE "quiesce"
  <2>1. job' = [job EXCEPT ![j] = [job[j] EXCEPT !.undo = TRUE, !.todo = s, !.failed = {}, !.pc = p]]
    OBVIOUS
  <2>2. s \in SUBSET Instances
    OBVIOUS
  <2>3. p \in Pc
    BY DEF Pc
  <2> HIDE DEF s, p
  <2>4. [job[j] EXCEPT !.undo = TRUE, !.todo = s, !.failed = {}, !.pc = p] \in Execution
    BY <2>2, <2>3, ExecutionTyped DEF Executions
  <2>5. QED
    BY <2>1, <2>4, JobTyped
<1>4. QED
  BY <1>1, <1>2, <1>3, TypePartsNext DEF clients

LEMMA QuiesceTyped ==
  ASSUME Typed, NEW j \in Jobs, NEW i \in Instances, Quiesce(j, i)
  PROVE  TypeOK'
<1> USE TypeParts DEF Typed, TypeInv, Quiesce
<1>1. log' \in Outcomes
  <2>1. job[j].failed \in SUBSET Instances /\ inst[i] \in Instance /\ "quiesce" \in Pc /\ "back" \in Pc
    BY ExecutionTyped DEF Executions, Servers, Pc
  <2>2. QED
    BY <2>1, LogTyped, FailTyped
<1>2. inst' \in Servers
  <2>1. job[j].failed \in SUBSET Instances /\ inst[i] \in Instance /\ "quiesce" \in Pc /\ "back" \in Pc
    BY ExecutionTyped DEF Executions, Servers, Pc
  <2>2. QED
    BY <2>1, FailTyped
<1>3. job' \in Executions
  <2>1. job[j].failed \in SUBSET Instances /\ inst[i] \in Instance /\ "quiesce" \in Pc /\ "back" \in Pc /\ "stopcall" \in Pc
    BY ExecutionTyped DEF Executions, Servers, Pc
  <2>2. QED
    BY <2>1, FailTyped, GotoTyped, PassedTyped
<1>4. budget' \in 0 .. Budget
  BY SpendTyped
<1>5. QED
  BY <1>1, <1>2, <1>3, <1>4, TypePartsNext DEF clients

LEMMA QuiescedTyped ==
  ASSUME Typed, NEW j \in Jobs, NEW i \in Instances, Quiesced(j, i)
  PROVE  TypeOK'
<1> USE TypeParts DEF Typed, TypeInv, Quiesced
<1>1. log' \in Outcomes
  <2>1. job[j].failed \in SUBSET Instances /\ inst[i] \in Instance /\ "quiesce" \in Pc /\ "back" \in Pc
    BY ExecutionTyped DEF Executions, Servers, Pc
  <2>2. QED
    BY <2>1, FailTyped
<1>2. inst' \in Servers
  <2>1. job[j].failed \in SUBSET Instances /\ inst[i] \in Instance /\ "quiesce" \in Pc /\ "back" \in Pc
    BY ExecutionTyped DEF Executions, Servers, Pc
  <2>2. QED
    BY <2>1, FailTyped
<1>3. job' \in Executions
  <2>1. job[j].failed \in SUBSET Instances /\ inst[i] \in Instance /\ "quiesce" \in Pc /\ "back" \in Pc
    BY ExecutionTyped DEF Executions, Servers, Pc
  <2>2. QED
    BY <2>1, FailTyped, PassedTyped
<1>4. budget' \in 0 .. Budget
  BY SpendTyped
<1>5. QED
  BY <1>1, <1>2, <1>3, <1>4, TypePartsNext DEF clients

LEMMA RestoreRuntimeTyped ==
  ASSUME Typed, NEW j \in Jobs, RestoreRuntime(j)
  PROVE  TypeOK'
<1> USE TypeParts DEF Typed, TypeInv, RestoreRuntime
<1>1. lock' \in Locks
  BY FenceTyped
<1>2. op' \in Operation
  BY OperationTyped, StateTyped
<1>3. host' \in Hosts
  BY DEF Hosts
<1>4. job' \in Executions
  <2> DEFINE s == Instances \ job[j].failed
             p == IF s = {} THEN "finish" ELSE "tree"
  <2>1. job' = [job EXCEPT ![j] = [job[j] EXCEPT !.todo = s, !.pc = p]]
    OBVIOUS
  <2>2. s \in SUBSET Instances /\ p \in Pc
    BY DEF Pc
  <2> HIDE DEF s, p
  <2>3. [job[j] EXCEPT !.todo = s, !.pc = p] \in Execution
    BY <2>2, ExecutionTyped DEF Executions
  <2>4. QED
    BY <2>1, <2>3, JobTyped
<1>5. QED
  BY <1>1, <1>2, <1>3, <1>4, TypePartsNext DEF clients

LEMMA ReverifyTyped ==
  ASSUME Typed, NEW j \in Jobs, NEW i \in Instances, Reverify(j, i)
  PROVE  TypeOK'
<1> USE TypeParts DEF Typed, TypeInv, Reverify
<1>1. job' \in Executions
  <2>1. job[j].failed \in SUBSET Instances /\ inst[i] \in Instance /\ "tree" \in Pc /\ "finish" \in Pc
    BY ExecutionTyped DEF Executions, Servers, Pc
  <2>2. QED
    BY <2>1, PassedTyped
<1>2. QED
  BY <1>1, TypePartsNext DEF clients

LEMMA RestoreTreeTyped ==
  ASSUME Typed, NEW j \in Jobs, NEW i \in Instances, RestoreTree(j, i)
  PROVE  TypeOK'
<1> USE TypeParts DEF Typed, TypeInv, RestoreTree
<1>1. lock' \in Locks
  BY FenceTyped
<1>2. inst' \in Servers
  <2>1. "tree" \in Pc /\ "finish" \in Pc /\ "files" \in Pc
    BY DEF Pc
  <2>2. \A t \in Files : [inst[i] EXCEPT !.tree = t] \in Instance
    BY InstanceTyped DEF Servers
  <2>3. inst' = inst \/ inst' = [inst EXCEPT ![i].tree = "minqlx"]
        \/ \E t \in Files : FailInstance(j, i, [inst[i] EXCEPT !.tree = t], "tree", "finish")
    <3>1. inst[i].tree \in Files /\ "mixed" \in Files
      BY InstanceTyped DEF Servers, Files
    <3>2. QED
      BY <3>1
  <2>4. QED
    BY <2>1, <2>2, <2>3, FailTyped, TreeTyped DEF Files
<1>3. log' \in Outcomes
  <2>1. "tree" \in Pc /\ "finish" \in Pc /\ "files" \in Pc
    BY DEF Pc
  <2>2. \A t \in Files : [inst[i] EXCEPT !.tree = t] \in Instance
    BY InstanceTyped DEF Servers
  <2>3. log' = log
        \/ \E t \in Files : FailInstance(j, i, [inst[i] EXCEPT !.tree = t], "tree", "finish")
    <3>1. inst[i].tree \in Files /\ "mixed" \in Files
      BY InstanceTyped DEF Servers, Files
    <3>2. QED
      BY <3>1
  <2>4. QED
    BY <2>1, <2>2, <2>3, FailTyped
<1>4. job' \in Executions
  <2>1. "tree" \in Pc /\ "finish" \in Pc /\ "files" \in Pc
    BY DEF Pc
  <2>2. \A t \in Files : [inst[i] EXCEPT !.tree = t] \in Instance
    BY InstanceTyped DEF Servers
  <2>3. Goto(j, "files")
        \/ \E t \in Files : FailInstance(j, i, [inst[i] EXCEPT !.tree = t], "tree", "finish")
    <3>1. inst[i].tree \in Files /\ "mixed" \in Files
      BY InstanceTyped DEF Servers, Files
    <3>2. QED
      BY <3>1
  <2>4. QED
    BY <2>1, <2>2, <2>3, FailTyped, GotoTyped
<1>5. budget' \in 0 .. Budget
  BY SpendTyped
<1>6. QED
  BY <1>1, <1>2, <1>3, <1>4, <1>5, TypePartsNext DEF clients

LEMMA FilesAskTyped ==
  ASSUME Typed, NEW j \in Jobs, NEW i \in Instances, FilesAsk(j, i)
  PROVE  TypeOK'
<1> USE TypeParts DEF Typed, TypeInv, FilesAsk
<1>1. lock' \in Locks
  BY FenceTyped
<1>2. job' \in Executions
  BY GotoTyped DEF Pc
<1>3. QED
  BY <1>1, <1>2, TypePartsNext DEF clients

LEMMA RestoreFilesTyped ==
  ASSUME Typed, NEW j \in Jobs, NEW i \in Instances, RestoreFiles(j, i)
  PROVE  TypeOK'
<1> USE TypeParts DEF Typed, TypeInv, RestoreFiles
<1>1. fence' \in Fences
  BY RecordTyped
<1>2. inst' \in Servers
  <2>1. "tree" \in Pc /\ "finish" \in Pc /\ "state" \in Pc /\ "release" \in Pc
    BY DEF Pc
  <2>2. \A t \in Files : [inst[i] EXCEPT !.files = t] \in Instance
    BY InstanceTyped DEF Servers
  <2>3. \/ \E t \in Files : inst' = [inst EXCEPT ![i] = [inst[i] EXCEPT !.files = t]]
        \/ \E t \in Files : FailInstance(j, i, [inst[i] EXCEPT !.files = t], "tree", "finish")
    <3>1. inst[i].files \in Files /\ "mixed" \in Files /\ "minqlx" \in Files
      BY InstanceTyped DEF Servers, Files
    <3>2. QED
      BY <3>1
  <2>4. QED
    BY <2>1, <2>2, <2>3, FailTyped, InstTyped
<1>3. log' \in Outcomes
  <2>1. "tree" \in Pc /\ "finish" \in Pc /\ "state" \in Pc /\ "release" \in Pc
    BY DEF Pc
  <2>2. \A t \in Files : [inst[i] EXCEPT !.files = t] \in Instance
    BY InstanceTyped DEF Servers
  <2>3. log' = log
        \/ \E t \in Files : FailInstance(j, i, [inst[i] EXCEPT !.files = t], "tree", "finish")
    <3>1. inst[i].files \in Files /\ "mixed" \in Files /\ "minqlx" \in Files
      BY InstanceTyped DEF Servers, Files
    <3>2. QED
      BY <3>1
  <2>4. QED
    BY <2>1, <2>2, <2>3, FailTyped
<1>4. job' \in Executions
  <2>1. "tree" \in Pc /\ "finish" \in Pc /\ "state" \in Pc /\ "release" \in Pc
    BY DEF Pc
  <2>2. \A t \in Files : [inst[i] EXCEPT !.files = t] \in Instance
    BY InstanceTyped DEF Servers
  <2>3. Goto(j, "state") \/ Goto(j, "release")
        \/ \E t \in Files : FailInstance(j, i, [inst[i] EXCEPT !.files = t], "tree", "finish")
    <3>1. inst[i].files \in Files /\ "mixed" \in Files /\ "minqlx" \in Files
      BY InstanceTyped DEF Servers, Files
    <3>2. QED
      BY <3>1
  <2>4. QED
    BY <2>1, <2>2, <2>3, FailTyped, GotoTyped
<1>5. budget' \in 0 .. Budget
  BY SpendTyped
<1>6. QED
  BY <1>1, <1>2, <1>3, <1>4, <1>5, TypePartsNext DEF clients

LEMMA RestoreStateTyped ==
  ASSUME Typed, NEW j \in Jobs, NEW i \in Instances, RestoreState(j, i)
  PROVE  TypeOK'
<1> USE TypeParts DEF Typed, TypeInv, RestoreState
<1>1. lock' \in Locks
  BY FenceTyped
<1>2. log' \in Outcomes
  <2>1. job[j].failed \in SUBSET Instances /\ inst[i] \in Instance /\ "tree" \in Pc /\ "finish" \in Pc
    BY ExecutionTyped DEF Executions, Servers, Pc
  <2>2. QED
    BY <2>1, FailTyped, LogTyped DEF LeaveUntouched
<1>3. inst' \in Servers
  <2>1. job[j].failed \in SUBSET Instances /\ inst[i] \in Instance /\ "tree" \in Pc /\ "finish" \in Pc
    BY ExecutionTyped DEF Executions, Servers, Pc
  <2>2. QED
    BY <2>1, FailTyped, StatusTyped DEF LeaveUntouched, Statuses
<1>4. job' \in Executions
  <2>1. job[j].failed \in SUBSET Instances /\ inst[i] \in Instance
    BY ExecutionTyped DEF Executions, Servers
  <2>2. "tree" \in Pc /\ "finish" \in Pc /\ "startcall" \in Pc
    BY DEF Pc
  <2>3. [job[j] EXCEPT !.ok = TRUE, !.pc = "started"] \in Execution
    BY ExecutionTyped DEF Executions, Pc
  <2>4. \/ Passed(j, i, job[j].failed, "tree", "finish")
        \/ job' = [job EXCEPT ![j] = [job[j] EXCEPT !.ok = TRUE, !.pc = "started"]]
        \/ Goto(j, "startcall")
        \/ FailInstance(j, i, inst[i], "tree", "finish")
    BY DEF LeaveUntouched
  <2>5. QED
    BY <2>1, <2>2, <2>3, <2>4, PassedTyped, JobTyped, GotoTyped, FailTyped
<1>5. budget' \in 0 .. Budget
  BY SpendTyped DEF LeaveUntouched
<1>6. QED
  BY <1>1, <1>2, <1>3, <1>4, <1>5, TypePartsNext DEF clients

LEMMA RestartedTyped ==
  ASSUME Typed, NEW j \in Jobs, NEW i \in Instances, Restarted(j, i)
  PROVE  TypeOK'
<1> USE TypeParts DEF Typed, TypeInv, Restarted
<1>1. log' \in Outcomes
  <2>1. job[j].failed \in SUBSET Instances /\ inst[i] \in Instance /\ "tree" \in Pc /\ "finish" \in Pc
    BY ExecutionTyped DEF Executions, Servers, Pc
  <2>2. QED
    BY <2>1, FailTyped, LogTyped
<1>2. inst' \in Servers
  <2>1. job[j].failed \in SUBSET Instances /\ inst[i] \in Instance /\ "tree" \in Pc /\ "finish" \in Pc
    BY ExecutionTyped DEF Executions, Servers, Pc
  <2>2. QED
    BY <2>1, FailTyped, StatusTyped DEF Statuses
<1>3. job' \in Executions
  <2>1. job[j].failed \in SUBSET Instances /\ inst[i] \in Instance /\ "tree" \in Pc /\ "finish" \in Pc
    BY ExecutionTyped DEF Executions, Servers, Pc
  <2>2. QED
    BY <2>1, FailTyped, PassedTyped
<1>4. budget' \in 0 .. Budget
  BY SpendTyped
<1>5. QED
  BY <1>1, <1>2, <1>3, <1>4, TypePartsNext DEF clients

LEMMA FinishTyped ==
  ASSUME Typed, NEW j \in Jobs, Finish(j)
  PROVE  TypeOK'
<1> USE TypeParts DEF Typed, TypeInv, Finish
<1>1. lock' \in Locks
  BY FenceTyped
<1>2. host' \in Hosts
  BY DEF Hosts
<1>3. op' \in Operation
  <2>1. PICK s \in {"rolled_back", "recovery_required"}, b \in BOOLEAN :
           op' = [op EXCEPT !.state = s, !.required = b]
    <3>1. CASE job[j].failed = {}
      <4>1. op' = [op EXCEPT !.state = "rolled_back", !.required = FALSE]
        BY <3>1
      <4>2. QED
        BY <4>1
    <3>2. CASE job[j].failed # {}
      <4>1. op' = [op EXCEPT !.state = "recovery_required", !.required = TRUE]
        BY <3>2
      <4>2. QED
        BY <4>1
    <3>3. QED
      BY <3>1, <3>2
  <2>2. QED
    BY <2>1, OperationTyped, StateTyped
<1>4. job' \in Executions
  BY GotoTyped DEF Pc
<1>5. QED
  BY <1>1, <1>2, <1>3, <1>4, TypePartsNext DEF clients

LEMMA FinalizeTyped ==
  ASSUME Typed, NEW j \in Jobs, Finalize(j)
  PROVE  TypeOK'
<1> USE TypeParts DEF Typed, TypeInv, Finalize
<1>1. fence' \in Fences
  <2>1. [Recorded(j) EXCEPT !.final = TRUE] \in Fences
    BY RecordTyped DEF Fences
  <2>2. QED
    BY <2>1
<1>2. job' \in Executions
  BY GotoTyped DEF Pc
<1>3. budget' \in 0 .. Budget
  BY SpendTyped
<1>4. QED
  BY <1>1, <1>2, <1>3, TypePartsNext DEF clients

LEMMA SupersededTyped ==
  ASSUME Typed, NEW j \in Jobs, Superseded(j)
  PROVE  TypeOK'
<1> USE TypeParts DEF Typed, TypeInv, Superseded
<1>1. job' \in Executions
  BY GotoTyped DEF Pc
<1>2. QED
  BY <1>1, TypePartsNext DEF clients

LEMMA StepFailsTyped ==
  ASSUME Typed, NEW j \in Jobs, StepFails(j)
  PROVE  TypeOK'
<1> USE TypeParts DEF Typed, TypeInv, StepFails
<1>1. job' \in Executions
  BY GotoTyped DEF Pc
<1>2. budget' \in 0 .. Budget
  BY SpendTyped
<1>3. QED
  BY <1>1, <1>2, TypePartsNext DEF clients

LEMMA InterruptedTyped ==
  ASSUME Typed, NEW j \in Jobs, Interrupted(j)
  PROVE  TypeOK'
<1> USE TypeParts DEF Typed, TypeInv, Interrupted
<1>1. op' \in Operation
  BY OperationTyped
<1>2. job' \in Executions
  BY GotoTyped DEF Pc
<1>3. budget' \in 0 .. Budget
  BY SpendTyped
<1>4. QED
  BY <1>1, <1>2, <1>3, TypePartsNext DEF clients

LEMMA ReleaseTyped ==
  ASSUME Typed, NEW j \in Jobs, Release(j)
  PROVE  TypeOK'
<1> USE TypeParts DEF Typed, TypeInv, Release
<1>1. lock' \in Locks
  BY FreeTyped
<1>2. job' \in Executions
  BY EndTyped
<1>3. QED
  BY <1>1, <1>2, TypePartsNext DEF clients

LEMMA CrashTyped ==
  ASSUME Typed, NEW j \in Jobs, Crash(j)
  PROVE  TypeOK'
<1> USE TypeParts DEF Typed, TypeInv, Crash
<1>1. inst' \in Servers
  <2>1. ASSUME NEW i \in Instances
        PROVE  CutShort(j, i) \subseteq Instance
    <3>1. \A x \in CutShort(j, i) :
             \/ x = inst[i]
             \/ \E s \in {"active", "inactive"} : x = [inst[i] EXCEPT !.svc = s]
             \/ \E t \in Files : x = [inst[i] EXCEPT !.tree = t] \/ x = [inst[i] EXCEPT !.files = t]
      BY DEF CutShort
    <3>2. inst[i] \in Instance
      BY DEF Servers
    <3>3. /\ \A v \in {"active", "inactive"} : [inst[i] EXCEPT !.svc = v] \in Instance
          /\ \A t \in Files : [inst[i] EXCEPT !.tree = t] \in Instance
          /\ \A t \in Files : [inst[i] EXCEPT !.files = t] \in Instance
      BY <3>2, InstanceTyped
    <3>4. \A x \in CutShort(j, i) : x \in Instance
      <4> HIDE DEF Crash
      <4> SUFFICES ASSUME NEW x \in CutShort(j, i) PROVE x \in Instance
        OBVIOUS
      <4>1. CASE x = inst[i]
        BY <3>2, <4>1
      <4>2. CASE \E s \in {"active", "inactive"} : x = [inst[i] EXCEPT !.svc = s]
        BY <3>3, <4>2
      <4>3. CASE \E t \in Files : x = [inst[i] EXCEPT !.tree = t] \/ x = [inst[i] EXCEPT !.files = t]
        BY <3>3, <4>3
      <4>4. QED
        BY <3>1, <4>1, <4>2, <4>3
    <3>5. QED
      BY <3>4
  <2>2. PICK now \in [Instances -> UNION {CutShort(j, i) : i \in Instances}] :
           (\A i \in Instances : now[i] \in CutShort(j, i)) /\ inst' = now
    OBVIOUS
  <2>3. QED
    BY <2>1, <2>2 DEF Servers
<1>2. job' \in Executions
  BY EndTyped
<1>3. budget' \in 0 .. Budget
  BY SpendTyped
<1>4. QED
  BY <1>1, <1>2, <1>3, TypePartsNext DEF clients

LEMMA StallTyped ==
  ASSUME Typed, NEW j \in Jobs, Stall(j)
  PROVE  TypeOK'
<1> USE TypeParts DEF Typed, TypeInv, Stall
<1>1. job' \in Executions
  <2>1. job' = [job EXCEPT ![j] = [job[j] EXCEPT !.rq = "stalled"]]
    OBVIOUS
  <2>2. [job[j] EXCEPT !.rq = "stalled"] \in Execution
    BY ExecutionTyped DEF Executions
  <2>3. QED
    BY <2>1, <2>2, JobTyped
<1>2. budget' \in 0 .. Budget
  BY SpendTyped
<1>3. QED
  BY <1>1, <1>2, TypePartsNext DEF clients

LEMMA GuardTyped ==
  ASSUME Typed, NEW u \in Users, NEW i \in Instances, Guard(u, i)
  PROVE  TypeOK'
<1> USE TypeParts DEF Typed, TypeInv, Guard
<1>1. user' \in UserOps
  BY DEF UserOps, Entities
<1>2. QED
  BY <1>1, TypePartsNext

LEMMA WorksTyped ==
  ASSUME Typed, NEW u \in Users, Works(u)
  PROVE  TypeOK'
<1> USE TypeParts DEF Typed, TypeInv, Works
<1>1. lock' \in Locks
  BY OwnersTyped DEF Locks
<1>2. inst' \in Servers
  <2>1. user[u].inst \in Instances
    BY DEF IndInv, LockInv
  <2>2. QED
    BY <2>1, StatusTyped DEF Statuses
<1>3. user' \in UserOps
  <2>1. [user[u] EXCEPT !.phase = "working"] \in [phase : {"idle", "guarded", "working", "done"}, inst : Entities]
    BY DEF UserOps
  <2>2. user' = [user EXCEPT ![u] = [user[u] EXCEPT !.phase = "working"]]
    OBVIOUS
  <2>3. QED
    BY <2>1, <2>2, ExceptType DEF UserOps
<1>4. QED
  BY <1>1, <1>2, <1>3, TypePartsNext DEF IndInv, LockInv

LEMMA RefusedTyped ==
  ASSUME Typed, NEW u \in Users, Refused(u)
  PROVE  TypeOK'
<1> USE TypeParts DEF Typed, TypeInv, Refused
<1>1. user' \in UserOps
  <2>1. [user[u] EXCEPT !.phase = "done"] \in [phase : {"idle", "guarded", "working", "done"}, inst : Entities]
    BY DEF UserOps
  <2>2. user' = [user EXCEPT ![u] = [user[u] EXCEPT !.phase = "done"]]
    OBVIOUS
  <2>3. QED
    BY <2>1, <2>2, ExceptType DEF UserOps
<1>2. QED
  BY <1>1, TypePartsNext

LEMMA WorkEndsTyped ==
  ASSUME Typed, NEW u \in Users, WorkEnds(u)
  PROVE  TypeOK'
<1> USE TypeParts DEF Typed, TypeInv, WorkEnds
<1>1. lock' \in Locks
  BY OwnersTyped DEF Locks
<1>2. inst' \in Servers
  <2>1. user[u].inst \in Instances
    BY DEF IndInv, LockInv
  <2>2. QED
    BY <2>1, ServiceTyped DEF Statuses
<1>3. user' \in UserOps
  <2>1. [user[u] EXCEPT !.phase = "done"] \in [phase : {"idle", "guarded", "working", "done"}, inst : Entities]
    BY DEF UserOps
  <2>2. user' = [user EXCEPT ![u] = [user[u] EXCEPT !.phase = "done"]]
    OBVIOUS
  <2>3. QED
    BY <2>1, <2>2, ExceptType DEF UserOps
<1>4. QED
  BY <1>1, <1>2, <1>3, TypePartsNext

LEMMA BackupTyped ==
  ASSUME Typed, BackupLocks \/ BackupStep
  PROVE  TypeOK'
BY TypeParts, TypePartsNext DEF Typed, TypeInv, BackupLocks, BackupStep, RestoreBackup, BackupEnds

LEMMA StutterTyped ==
  ASSUME Typed, UNCHANGED vars
  PROVE  TypeOK'
BY TypeParts, TypePartsNext DEF Typed, TypeInv, vars

\* An operation in progress has a number, since Reserve counts.
LEMMA NumberedStep ==
  ASSUME Typed, [Next]_vars
  PROVE  Reserved' => op'.id > 0
<1>1. op.id \in Nat /\ (Reserved => op.id > 0)
  BY DEF Typed, TypeInv, IndInv, Shape
<1>2. CASE Reserve
  BY <1>1, <1>2 DEF Reserve
<1>3. CASE \E j \in Jobs : WorkStep(j)
  BY <1>1, <1>3 DEF WorkStep, RowStep
<1>4. CASE \E j \in Jobs : RouteAssigns(j) \/ HandOver(j) \/ Enter(j) \/ Claim(j)
  <2>1. DOMAIN op = RowFields
    BY DEF Typed, IndInv, Shape
  <2>2. op'.id = op.id /\ op'.state = op.state
    <3>1. PICK j \in Jobs : RouteAssigns(j) \/ HandOver(j) \/ Enter(j) \/ Claim(j)
      BY <1>4
    <3>2. CASE RouteAssigns(j) \/ HandOver(j)
      BY <2>1, <3>2 DEF RowFields, RouteAssigns, HandOver
    <3>3. CASE Enter(j) \/ Claim(j)
      BY <2>1, <3>3 DEF RowFields, Enter, Claim
    <3>4. QED
      BY <3>1, <3>2, <3>3
  <2>3. QED
    BY <1>1, <2>2 DEF Reserved
<1>5. CASE UNCHANGED op
  BY <1>1, <1>5 DEF Reserved
<1>6. QED
  <2>1. CASE \E j \in Jobs : \/ Push(j) \/ Begin(j) \/ TakeLocks(j) \/ LocksRefused(j)
                             \/ ForwardStep(j) \/ ServiceStep(j) \/ RollbackStep(j)
                             \/ Superseded(j) \/ Release(j) \/ WorkerFault(j)
    BY <1>3, <2>1, WorkerWorks DEF Typed
  <2>2. CASE RouteLocks \/ RouteUnlocks \/ RouteGivesUp \/ \E e \in Entities : LocksExpire(e)
    BY <1>5, <2>2 DEF RouteLocks, RouteUnlocks, RouteGivesUp, LocksExpire
  <2>3. CASE \E u \in Users : UserStep(u) \/ \E i \in Instances : Guard(u, i)
    BY <1>5, <2>3 DEF UserStep, Works, Refused, WorkEnds, Guard
  <2>4. CASE BackupLocks \/ BackupStep
    BY <1>5, <2>4 DEF BackupLocks, BackupStep, RestoreBackup, BackupEnds
  <2>5. CASE UNCHANGED vars
    BY <1>5, <2>5 DEF vars
  <2>6. QED
    BY <1>2, <1>4, <2>1, <2>2, <2>3, <2>4, <2>5 DEF Next, RouteStep, WorkerStep

LEMMA ForwardTyped ==
  ASSUME Typed, NEW j \in Jobs, ForwardStep(j) \/ ServiceStep(j)
  PROVE  TypeOK'
BY ValidateTyped, SnapshotTyped, RecheckTyped, CancelTyped, BeginStepTyped, InstallTyped,
   SucceedTyped, StopAskTyped, StoppedTyped, StopVerifyTyped, SwapAskTyped, SwapTyped,
   ConfigureAskTyped, PlayBeginsTyped, ConfigureTyped, StartAskTyped, StartedTyped,
   StartVerifyTyped, ServiceBeginsTyped, ServiceRunsTyped
   DEF ForwardStep, ServiceStep

LEMMA RollbackStepTyped ==
  ASSUME Typed, NEW j \in Jobs, RollbackStep(j)
  PROVE  TypeOK'
BY RollbackTyped, RestoreRuntimeTyped, FinishTyped, FinalizeTyped, QuiesceTyped,
   QuiescedTyped, ReverifyTyped, RestoreTreeTyped, FilesAskTyped, RestoreFilesTyped,
   RestoreStateTyped, RestartedTyped
   DEF RollbackStep

LEMMA TypeInit == Init => TypeInv
<1> SUFFICES ASSUME Init PROVE TypeInv
  OBVIOUS
<1> USE DEF Init
<1>1. op \in Operation /\ ~Reserved
  BY DEF Operation, Reserved, Nonterminal
<1>2. log \in Outcomes
  BY DEF Outcomes, Outcome, NoOutcome
<1>3. host \in Hosts /\ fence \in Fences
  BY DEF Hosts, Fences
<1>4. inst \in Servers
  <2>1. [status : {"running", "stopped"}, svc : {"active", "inactive"},
         tree : {"minqlx"}, files : {"minqlx"}] \subseteq Instance
    BY DEF Instance, Files
  <2>2. QED
    BY <2>1 DEF Servers
<1>5. job \in Executions
  <2>1. NoExecution \in Execution
    BY DEF NoExecution, Execution, Pc
  <2>2. QED
    BY <2>1 DEF Executions
<1>6. lock \in Locks
  BY OwnersTyped DEF Locks
<1>7. user \in UserOps
  BY DEF UserOps, Entities
<1>8. budget \in 0 .. Budget
  BY RuntimeUpgradeAssumption
<1>9. QED
  BY <1>1, <1>2, <1>3, <1>4, <1>5, <1>6, <1>7, <1>8, TypeParts DEF TypeInv

LEMMA TypeNext ==
  ASSUME Typed, [Next]_vars
  PROVE  TypeInv'
<1>1. CASE RouteLocks \/ Reserve \/ RouteUnlocks \/ RouteGivesUp \/ \E e \in Entities : LocksExpire(e)
  BY <1>1, NumberedStep, RouteLocksTyped, ReserveTyped, RouteUnlocksTyped, RouteGivesUpTyped,
     LocksExpireTyped DEF TypeInv
<1>2. CASE \E j \in Jobs : RouteAssigns(j) \/ HandOver(j) \/ Enter(j) \/ Claim(j)
  BY <1>2, NumberedStep, RouteAssignsTyped, HandOverTyped, EnterTyped, ClaimTyped DEF TypeInv
<1>3. CASE \E j \in Jobs : Push(j) \/ Begin(j) \/ TakeLocks(j) \/ LocksRefused(j)
  BY <1>3, NumberedStep, PushTyped, BeginTyped, TakeLocksTyped, LocksRefusedTyped DEF TypeInv
<1>4. CASE \E j \in Jobs : ForwardStep(j) \/ ServiceStep(j) \/ RollbackStep(j)
  BY <1>4, NumberedStep, ForwardTyped, RollbackStepTyped DEF TypeInv
<1>5. CASE \E j \in Jobs : Superseded(j) \/ Release(j) \/ WorkerFault(j)
  BY <1>5, NumberedStep, SupersededTyped, ReleaseTyped, StepFailsTyped, InterruptedTyped,
     CrashTyped, StallTyped DEF WorkerFault, TypeInv
<1>6. CASE \E u \in Users : UserStep(u) \/ \E i \in Instances : Guard(u, i)
  BY <1>6, NumberedStep, GuardTyped, WorksTyped, RefusedTyped, WorkEndsTyped DEF UserStep, TypeInv
<1>7. CASE BackupLocks \/ BackupStep
  BY <1>7, NumberedStep, BackupTyped DEF TypeInv
<1>8. CASE UNCHANGED vars
  BY <1>8, NumberedStep, StutterTyped DEF TypeInv
<1>9. QED
  BY <1>1, <1>2, <1>3, <1>4, <1>5, <1>6, <1>7, <1>8 DEF Next, RouteStep, WorkerStep

\* The row, the journal, the jobs and the host keep their types, in whatever
\* order requests, jobs, the poller and users come (models_runtime_upgrade.py).
THEOREM TypeCorrect == Spec => []TypeOK
<1>1. IndInv /\ TypeInv /\ [Next]_vars => TypeInv'
  BY TypeNext DEF Typed
<1>2. TypeInv => TypeOK
  BY DEF TypeInv
<1>3. QED
  BY TypeInit, <1>1, <1>2, Invariance, PTL DEF Spec

\* Where an execution neither changes the host, nor will before it has looked
\* at the row again.
Quiet == {"lock", "cancel", "rollback", "finalize", "release"}
Harmless(j) == job[j].pc \in Quiet /\ (job[j].pc = "lock" => job[j].undo)

\* The one execution at work, joined by no other: ...
Alone(j) ==
    /\ op.job = j
    /\ job[j].token = op.token
    /\ route \notin {"reserved", "unlocked"}
    /\ \A k \in Jobs \ {j} :
          /\ ~Claimed(k)
          /\ Live(k) /\ job[k].pc = "claim" => job[k].token # op.token

\* ... or one of those that clean up a preparation.
Tidying(j) ==
    /\ op.state = "preparing"
    /\ job[j].undo
    /\ job[j].pc \in {"lock", "cancel", "release"}

\* Without stalls no worker outlives its job, so who claimed a reserved host is
\* alone there, and who is past its claim of something over does no harm.
SoleInv ==
    /\ \A j \in Jobs : job[j].rq # "stalled"
    /\ route \in {"reserved", "unlocked"} /\ Reserved => op.state = "preparing"
    /\ \A j \in Jobs : Claimed(j) /\ Reserved => Alone(j) \/ Tidying(j)
    /\ \A j \in Jobs : job[j].pc \notin Unclaimed /\ ~(Live(j) /\ Reserved) => Harmless(j)
    /\ \A j \in Jobs :
          Live(j) /\ job[j].task = "upgrade" /\ Reserved /\ ~op.required => op.job = j
    /\ \A j \in Jobs :
          Owns(j) /\ Live(j) /\ job[j].pc = "claim" /\ ~job[j].undo =>
             job[j].task = "upgrade" /\ ~op.required /\ op.job = j

\* An execution at work holds every lock, from its claim to its release.
LocksHeld ==
    \A j \in Jobs :
        /\ Reserved /\ Claimed(j)
        /\ job[j].pc \notin {"lock", "cancel", "release"}
        => \A e \in Entities : lock[e] = Exec(job[j])

-----------------------------------------------------------------------------
(* What journal and host look like at each point of an execution's way.    *)

On(i, runtime) == inst[i].tree = runtime /\ inst[i].files = runtime
Clean(i) == inst[i].tree = inst[i].files /\ inst[i].tree # "mixed"

EndInv == ~Reserved => \A i \in Instances : On(i, host.runtime)
Unmarked(i) == log[i].convert = "" /\ log[i].configure = "" /\ log[i].rollback = ""
PreInv ==
    op.state = "preparing" => host.runtime = "minqlx" /\ \A i \in Instances : Unmarked(i)
BackInv == Reserved => \A i \in Instances : RolledBack(i) => On(i, "minqlx")
BusyInv ==
    Reserved => \A u \in Users : user[u].phase = "working" => user[u].inst \in meddled

Stopping == {"stopcall", "stopplay", "stopped"}
Starting == {"startcall", "startplay", "started"}
Opening == {"stop", "install", "installing", "convert"} \cup Stopping
Swapping == {"swap", "swapping"}
Playing == {"configure", "play", "playing"}
Closing == {"start", "succeed"} \cup Starting
Restoring == {"files", "replay", "restoring", "state"} \cup Starting

\* Each step belongs to one of the two ways.
OneWay(j) ==
    /\ job[j].pc \notin Early \cup {"lock", "release"} => op.state # "preparing"
    /\ job[j].pc \in {"validate", "snapshot", "recheck", "stop", "install", "installing", "convert",
                      "swap", "swapping", "runtime", "configure", "play", "playing", "start",
                      "succeed"} => ~job[j].undo
    /\ job[j].pc \in {"quiesce", "back", "tree", "files", "replay", "restoring", "state", "finish"}
          => job[j].undo
    /\ ~job[j].undo => \A i \in Instances : log[i].rollback = ""

\* Forward, instance by instance: those that are done, and the next one.
Forward(j) ==
    ~job[j].undo =>
        /\ job[j].pc \in Opening \cup Swapping \cup {"runtime"} =>
              host.runtime = "minqlx" /\ \A i \in Instances : log[i].configure = ""
        /\ job[j].pc \in Opening => \A i \in Instances : log[i].convert = ""
        /\ job[j].pc \in Swapping =>
              \A i \in Instances \ job[j].todo : inst[i].tree = "minqlxtended"
        /\ job[j].pc = "swapping" =>
              \A i \in Instances : Next1(i, job[j].todo) => log[i].convert # ""
        /\ job[j].pc \in {"runtime"} \cup Playing \cup Closing =>
              \A i \in Instances : inst[i].tree = "minqlxtended"
        /\ job[j].pc \in Playing \cup Closing => host.runtime = "minqlxtended"
        /\ job[j].pc \in Playing =>
              \A i \in Instances \ job[j].todo : inst[i].files = "minqlxtended"
        /\ job[j].pc \in {"play", "playing"} =>
              \A i \in Instances : Next1(i, job[j].todo) => log[i].configure # ""
        /\ job[j].pc \in Closing => \A i \in Instances : inst[i].files = "minqlxtended"

\* Back: what is not to do and did not fail is as it was.
Back(j) ==
    job[j].undo =>
        /\ job[j].pc \in Restoring \cup {"tree", "finish"} =>
              /\ host.runtime = "minqlx"
              /\ \A i \in Instances \ (job[j].todo \cup job[j].failed) : RolledBack(i)
        /\ job[j].pc \in Restoring =>
              \A i \in Instances :
                  Next1(i, job[j].todo) => ~RolledBack(i) /\ inst[i].tree = "minqlx"
        /\ job[j].pc \in {"replay", "restoring"} =>
              \A i \in Instances : Next1(i, job[j].todo) => log[i].configure # ""
        /\ job[j].pc \in {"state"} \cup Starting =>
              \A i \in Instances : Next1(i, job[j].todo) => inst[i].files = "minqlx"
        /\ job[j].pc = "finish" => job[j].todo = {}

\* Where services are being stopped, and where they are stopped.
Emptying == {"stop"} \cup Stopping
Emptied == {"install", "installing", "convert", "runtime"} \cup Swapping \cup Playing
Returning == {"tree", "files", "replay", "restoring"}

\* An instance that was touched and is not yet restored is stopped.
Still(i) == i \notin meddled => inst[i].svc = "inactive"
Pending(i) == Touched(i) /\ ~RolledBack(i)

ForwardStill(j) ==
    ~job[j].undo =>
        /\ job[j].pc \in Emptying => \A i \in Instances \ job[j].todo : Still(i)
        /\ job[j].pc \in Emptied => \A i \in Instances : Still(i)

BackStill(j) ==
    job[j].undo =>
        /\ job[j].pc \in {"quiesce"} \cup Stopping =>
              \A i \in Instances \ (job[j].todo \cup job[j].failed) :
                  Pending(i) => Still(i)
        /\ job[j].pc = "back" =>
              \A i \in Instances \ job[j].failed : Pending(i) => Still(i)
        /\ job[j].pc \in Stopping =>
              \A i \in Instances \ meddled : Next1(i, job[j].todo) => Clean(i)
        /\ job[j].pc \in Returning =>
              \A i \in job[j].todo : Pending(i) => Still(i)
        /\ job[j].pc \in {"state"} \cup Starting =>
              \A i \in job[j].todo : Pending(i) => Next1(i, job[j].todo) \/ Still(i)

OnTrack(j) == OneWay(j) /\ Forward(j) /\ Back(j)

RecordInv ==
    /\ JournalCovers /\ EndInv /\ PreInv /\ BackInv
    /\ \A j \in Jobs : Claimed(j) /\ Reserved => OnTrack(j)

StillTrack(j) == ForwardStill(j) /\ BackStill(j)

StillInv ==
    /\ BusyInv /\ RunsOneRuntime
    /\ \A j \in Jobs : Claimed(j) /\ Reserved => StillTrack(j)

\* No worker goes on with a job that RQ has given up.
NoStall == "stall" \notin Faults

\* What a step of execution j has to do with who is at work.
SoleStep(j) ==
    /\ op'.job = op.job
    /\ job'[j].rq # "stalled"
    /\ op'.required # op.required => Owns(j) /\ job[j].pc \notin Unclaimed
    /\ op'.state # op.state /\ Reserved' => job[j].pc \notin {"lock", "cancel", "release"}
    /\ Tidying(j) => \/ job'[j].pc = ""
                     \/ job'[j].undo /\ job'[j].pc \in {"cancel", "release"}
    /\ job[j].pc \notin Unclaimed /\ (~(Live(j) /\ Reserved) \/ ~Reserved') =>
          job'[j].pc = "" \/ Harmless(j)'

LEMMA Worker ==
  ASSUME IndInv, NEW j \in Jobs, Owns(j), job[j].pc \notin Unclaimed
  PROVE  Claimed(j)
BY DEF IndInv, JobInv, Owns, Claimed, Live, Unclaimed

\* Who changes the state is alone, but for the end of a preparation.
LEMMA StateChange ==
  ASSUME IndInv, SoleInv, NEW j \in Jobs, WorkStep(j), op'.state # op.state
  PROVE  /\ Owns(j) /\ Claimed(j)
         /\ Reserved => Alone(j) \/ Tidying(j)
<1>1. Owns(j) /\ job[j].pc \notin Unclaimed
  BY DEF WorkStep, RowStep
<1>2. Claimed(j)
  BY <1>1, Worker
<1>3. QED
  BY <1>1, <1>2 DEF SoleInv

LEMMA SoleWork ==
  ASSUME IndInv, SoleInv, NEW j \in Jobs, WorkStep(j), SoleStep(j)
  PROVE  SoleInv'
<1>1. /\ op'.id = op.id /\ op'.token = op.token /\ op'.job = op.job
      /\ Reserved' => Reserved /\ (op.required => op'.required)
      /\ UNCHANGED route
  BY DEF WorkStep, RowStep, SoleStep, clients
<1>2. /\ \A k \in Jobs \ {j} : job'[k] = job[k]
      /\ job'[j] = NoExecution \/ Continues(j)
  BY DEF WorkStep, JobStep
<1>3. \A k \in Jobs : job'[k].rq # "stalled"
  BY <1>2 DEF SoleInv, SoleStep
<1>4. route' \in {"reserved", "unlocked"} /\ Reserved' => op'.state = "preparing"
  <2>1. CASE op'.state = op.state
    BY <1>1, <2>1 DEF SoleInv
  <2>2. CASE op'.state # op.state
    BY <1>1, <2>2, StateChange DEF SoleStep, Alone, Tidying
  <2>3. QED
    BY <2>1, <2>2
<1>5. ASSUME NEW k \in Jobs, Claimed(k)', Reserved'
      PROVE  Alone(k)' \/ Tidying(k)'
  <2>1. Claimed(k) /\ Reserved /\ job'[k].token = job[k].token
    BY <1>1, <1>5, WorkStepJobs DEF Claimed
  <2>2. CASE Alone(k)
    <3>1. ASSUME NEW l \in Jobs \ {k}
          PROVE  /\ ~Claimed(l)'
                 /\ Live(l)' /\ job'[l].pc = "claim" => job'[l].token # op'.token
      <4>1. /\ ~Claimed(l) /\ (Live(l) /\ job[l].pc = "claim" => job[l].token # op.token)
        BY <2>2 DEF Alone
      <4>2. Live(l)' => Live(l) /\ job'[l].token = job[l].token
        BY WorkStepJobs
      <4>3. job'[l].pc = "claim" => job[l].pc = "claim"
        BY WorkStepJob, NoExecutionFields DEF Continues
      <4>4. QED
        BY <1>1, <4>1, <4>2, <4>3, WorkStepJobs
    <3>2. QED
      BY <1>1, <2>1, <2>2, <3>1 DEF Alone
  <2>3. CASE Tidying(k)
    <3>1. CASE k = j
      <4>1. job'[j].undo /\ job'[j].pc \in {"cancel", "release"}
        BY <1>5, <2>3, <3>1 DEF SoleStep, Claimed, Unclaimed
      <4>2. op'.state = op.state
        BY <1>5, <2>3, <3>1 DEF SoleStep, Tidying
      <4>3. QED
        BY <2>3, <3>1, <4>1, <4>2 DEF Tidying
    <3>2. CASE k # j
      <4>1. op'.state = op.state
        <5>1. SUFFICES ASSUME op'.state # op.state
                       PROVE  FALSE
          OBVIOUS
        <5>2. Claimed(j) /\ (Alone(j) \/ Tidying(j))
          BY <2>1, <5>1, StateChange
        <5>3. Tidying(j)
          BY <2>1, <3>2, <5>2 DEF Alone
        <5>4. QED
          BY <1>5, <5>1, <5>3 DEF SoleStep, Tidying
      <4>2. QED
        BY <1>2, <2>3, <3>2, <4>1 DEF Tidying
    <3>3. QED
      BY <3>1, <3>2
  <2>4. QED
    BY <2>1, <2>2, <2>3 DEF SoleInv
<1>6. ASSUME NEW k \in Jobs, job'[k].pc \notin Unclaimed, ~(Live(k)' /\ Reserved')
      PROVE  Harmless(k)'
  <2>1. CASE k = j
    <3>1. job[j].pc \notin Unclaimed /\ (Live(j)' <=> Live(j))
      BY <1>1, <1>2, <1>6, <2>1, NoExecutionFields DEF Continues, Live, Unclaimed
    <3>2. job'[j].pc # ""
      BY <1>6, <2>1 DEF Unclaimed
    <3>3. QED
      BY <1>6, <2>1, <3>1, <3>2 DEF SoleStep
  <2>2. CASE k # j
    <3>1. job'[k] = job[k] /\ (Live(k)' <=> Live(k))
      BY <1>1, <1>2, <2>2 DEF Live
    <3>2. CASE ~(Live(k) /\ Reserved)
      BY <1>6, <3>1, <3>2 DEF SoleInv, Harmless
    <3>3. CASE Live(k) /\ Reserved
      <4>1. Claimed(k) /\ op'.state # op.state
        BY <1>6, <3>1, <3>3 DEF Claimed, Reserved
      <4>2. Claimed(j)
        BY <4>1, StateChange
      <4>3. Tidying(k)
        BY <2>2, <3>3, <4>1, <4>2 DEF SoleInv, Alone
      <4>4. QED
        BY <3>1, <4>3 DEF Tidying, Harmless, Quiet
    <3>4. QED
      BY <3>2, <3>3
  <2>3. QED
    BY <2>1, <2>2
<1>7. ASSUME NEW k \in Jobs, Live(k)', job'[k].task = "upgrade", Reserved', ~op'.required
      PROVE  op'.job = k
  BY <1>1, <1>7, WorkStepJobs DEF SoleInv
<1>8. ASSUME NEW k \in Jobs, Owns(k)', Live(k)', job'[k].pc = "claim", ~job'[k].undo
      PROVE  job'[k].task = "upgrade" /\ ~op'.required /\ op'.job = k
  <2>1. Live(k) /\ job'[k].task = job[k].task /\ job'[k].token = job[k].token
    BY <1>8, WorkStepJobs
  <2>2. Owns(k)
    BY <1>1, <1>8, <2>1 DEF Owns, Live
  <2>3. job[k].pc = "claim" /\ ~job[k].undo
    BY <1>8, WorkStepJob, NoExecutionFields DEF Continues
  <2>4. op'.required = op.required
    BY <2>2, <2>3, NoOwnerYet DEF SoleStep, IndInv
  <2>5. QED
    BY <1>1, <2>1, <2>2, <2>3, <2>4 DEF SoleInv
<1>9. QED
  BY <1>3, <1>4, <1>5, <1>6, <1>7, <1>8 DEF SoleInv

\* Most actions are taken only by the one execution at work.
LEMMA BusySole ==
  ASSUME IndInv, SoleInv, NEW j \in Jobs, job[j].pc \notin Quiet \cup Unclaimed,
         job'[j].rq = job[j].rq, op'.job = op.job,
         op'.required = op.required \/ Owns(j),
         op'.state = op.state \/ Reserved' \/ job'[j].pc \in {"finalize", "release"}
  PROVE  SoleStep(j)
<1>1. Live(j) /\ Reserved
  BY DEF SoleInv, Harmless
<1>2. ~Reserved' => job'[j].pc \in {"finalize", "release"}
  BY <1>1 DEF Reserved
<1>3. job'[j].pc \in {"finalize", "release"} => Harmless(j)'
  BY DEF Harmless, Quiet
<1>4. job'[j].rq # "stalled" /\ ~Tidying(j)
  BY DEF SoleInv, Tidying, Quiet
<1>5. job[j].pc \notin Unclaimed /\ job[j].pc \notin {"lock", "cancel", "release"}
  BY DEF Quiet
<1>6. QED
  BY <1>1, <1>2, <1>3, <1>4, <1>5 DEF SoleStep

Busy(j) == job[j].pc \notin Quiet \cup Unclaimed /\ job'[j].rq = job[j].rq

LEMMA BusySameRow ==
  ASSUME IndInv, SoleInv, NEW j \in Jobs, Busy(j), UNCHANGED op
  PROVE  SoleStep(j) /\ Busy(j)
BY BusySole DEF Busy

LEMMA ForwardBusy ==
  ASSUME IndInv, SoleInv, NEW j \in Jobs, NEW i \in Instances,
         \/ StopAsk(j, i) \/ Stopped(j, i) \/ StopVerify(j, i) \/ SwapAsk(j, i)
         \/ Swap(j, i) \/ ConfigureAsk(j, i) \/ PlayBegins(j, i) \/ Configure(j, i)
         \/ StartAsk(j, i) \/ Started(j, i) \/ StartVerify(j, i)
         \/ ServiceBegins(j, i) \/ ServiceRuns(j, i)
  PROVE  SoleStep(j) /\ Busy(j)
<1>1. CASE StopAsk(j, i)
  BY <1>1, StopAskWorks, BusySameRow DEF StopAsk, At, Busy, Quiet, Unclaimed, GoesOn, Goes
<1>2. CASE Stopped(j, i)
  BY <1>2, StoppedWorks, BusySameRow DEF Stopped, At, Busy, Quiet, Unclaimed, GoesOn, Goes
<1>3. CASE StopVerify(j, i)
  BY <1>3, StopVerifyWorks, BusySameRow DEF StopVerify, At, Busy, Quiet, Unclaimed, GoesOn, Goes
<1>4. CASE SwapAsk(j, i)
  BY <1>4, SwapAskWorks, BusySameRow DEF SwapAsk, At, Busy, Quiet, Unclaimed, GoesOn, Goes
<1>5. CASE Swap(j, i)
  BY <1>5, SwapWorks, BusySameRow DEF Swap, At, Busy, Quiet, Unclaimed, GoesOn, Goes
<1>6. CASE ConfigureAsk(j, i)
  BY <1>6, ConfigureAskWorks, BusySameRow DEF ConfigureAsk, At, Busy, Quiet, Unclaimed, GoesOn, Goes
<1>7. CASE PlayBegins(j, i)
  <2>1. UNCHANGED op
    BY <1>7 DEF PlayBegins
  <2>2. job[j].pc \notin Quiet \cup Unclaimed
    BY <1>7 DEF PlayBegins, At, Quiet, Unclaimed
  <2>3. job'[j].rq = job[j].rq
    BY <1>7, PlayBeginsWorks DEF GoesOn, Goes
  <2>4. QED
    BY <2>1, <2>2, <2>3, BusySameRow DEF Busy
<1>8. CASE Configure(j, i)
  BY <1>8, ConfigureWorks, BusySameRow DEF Configure, At, Busy, Quiet, Unclaimed, GoesOn, Goes
<1>9. CASE StartAsk(j, i)
  BY <1>9, StartAskWorks, BusySameRow DEF StartAsk, At, Busy, Quiet, Unclaimed, GoesOn, Goes
<1>10. CASE Started(j, i)
  BY <1>10, StartedWorks, BusySameRow DEF Started, At, Busy, Quiet, Unclaimed, GoesOn, Goes
<1>11. CASE StartVerify(j, i)
  BY <1>11, StartVerifyWorks, BusySameRow DEF StartVerify, At, Busy, Quiet, Unclaimed, GoesOn, Goes
<1>12. CASE ServiceBegins(j, i)
  BY <1>12, ServiceBeginsWorks, BusySameRow DEF ServiceBegins, At, Busy, Quiet, Unclaimed, GoesOn, Goes
<1>13. CASE ServiceRuns(j, i)
  BY <1>13, ServiceRunsWorks, BusySameRow DEF ServiceRuns, At, Busy, Quiet, Unclaimed, GoesOn, Goes
<1>14. QED
  BY <1>1, <1>2, <1>3, <1>4, <1>5, <1>6, <1>7, <1>8, <1>9, <1>10, <1>11, <1>12, <1>13

LEMMA BackBusy ==
  ASSUME IndInv, SoleInv, NEW j \in Jobs, NEW i \in Instances,
         \/ Quiesce(j, i) \/ Quiesced(j, i) \/ Reverify(j, i) \/ RestoreTree(j, i)
         \/ FilesAsk(j, i) \/ RestoreFiles(j, i) \/ RestoreState(j, i)
         \/ Restarted(j, i)
  PROVE  SoleStep(j) /\ Busy(j)
<1>1. CASE Quiesce(j, i)
  BY <1>1, QuiesceWorks, BusySameRow DEF Quiesce, At, Busy, Quiet, Unclaimed, GoesOn, Goes
<1>2. CASE Quiesced(j, i)
  BY <1>2, QuiescedWorks, BusySameRow DEF Quiesced, At, Busy, Quiet, Unclaimed, GoesOn, Goes
<1>3. CASE Reverify(j, i)
  BY <1>3, ReverifyWorks, BusySameRow DEF Reverify, At, Busy, Quiet, Unclaimed, GoesOn, Goes
<1>4. CASE RestoreTree(j, i)
  BY <1>4, RestoreTreeWorks, BusySameRow DEF RestoreTree, At, Busy, Quiet, Unclaimed, GoesOn, Goes
<1>5. CASE FilesAsk(j, i)
  BY <1>5, FilesAskWorks, BusySameRow DEF FilesAsk, At, Busy, Quiet, Unclaimed, GoesOn, Goes
<1>6. CASE RestoreFiles(j, i)
  BY <1>6, RestoreFilesWorks, BusySameRow DEF RestoreFiles, At, Busy, Quiet, Unclaimed, GoesOn, Goes
<1>7. CASE RestoreState(j, i)
  <2>1. UNCHANGED op
    BY <1>7 DEF RestoreState
  <2>2. job[j].pc \notin Quiet \cup Unclaimed
    BY <1>7 DEF RestoreState, At, Quiet, Unclaimed
  <2>3. job'[j].rq = job[j].rq
    BY <1>7, RestoreStateWorks DEF GoesOn, Goes
  <2>4. QED
    BY <2>1, <2>2, <2>3, BusySameRow DEF Busy
<1>8. CASE Restarted(j, i)
  BY <1>8, RestartedWorks, BusySameRow DEF Restarted, At, Busy, Quiet, Unclaimed, GoesOn, Goes
<1>9. QED
  BY <1>1, <1>2, <1>3, <1>4, <1>5, <1>6, <1>7, <1>8

LEMMA HostBusy ==
  ASSUME IndInv, SoleInv, NEW j \in Jobs,
         \/ Install(j) \/ StepFails(j) \/ Validate(j) \/ Snapshot(j) \/ Recheck(j)
         \/ BeginStep(j) \/ Succeed(j) \/ RestoreRuntime(j) \/ Finish(j)
  PROVE  SoleStep(j) /\ Busy(j)
<1> DOMAIN op = RowFields
  BY DEF IndInv, Shape
<1>1. CASE Install(j)
  BY <1>1, InstallWorks, BusySameRow DEF Install, At, Busy, Quiet, Unclaimed, GoesOn, Goes
<1>2. CASE StepFails(j)
  BY <1>2, StepFailsWorks, BusySameRow DEF StepFails, At, Busy, Quiet, Unclaimed, GoesOn, Goes
<1>3. CASE Validate(j)
  <2>1. Goes(j, "snapshot") \/ Goes(j, "cancel")
    BY <1>3, GotoGoes DEF Validate, IndInv
  <2>2. QED
    BY <1>3, <2>1, BusySameRow DEF Validate, At, Busy, Quiet, Unclaimed, Goes
<1>4. CASE Snapshot(j)
  <2>1. Goes(j, "recheck") \/ Goes(j, "cancel")
    BY <1>4, GotoGoes DEF Snapshot, IndInv
  <2>2. op'.job = op.job /\ op'.required = op.required /\ op'.state = op.state
    BY <1>4 DEF Snapshot, RowFields
  <2>3. QED
    BY <1>4, <2>1, <2>2, BusySole DEF Snapshot, At, Busy, Quiet, Unclaimed, Goes
<1>5. CASE Recheck(j)
  <2>1. Goes(j, "stop") \/ Goes(j, "cancel")
    BY <1>5, GotoGoes, StageGoes DEF Recheck, IndInv
  <2>2. op'.job = op.job /\ op'.required = op.required /\ (op'.state = op.state \/ Reserved')
    BY <1>5 DEF Recheck, RowFields, Reserved, Nonterminal
  <2>3. QED
    BY <1>5, <2>1, <2>2, BusySole DEF Recheck, At, Busy, Quiet, Unclaimed, Goes
<1>6. CASE BeginStep(j)
  <2>1. op'.job = op.job /\ Owns(j)
    BY <1>6 DEF BeginStep, Fence, RowFields
  <2>2. Reserved' \/ job'[j].pc \in {"finalize", "release"}
    BY <1>6 DEF BeginStep, IndInv, Shape, RowFields, JobFields, Goto, Reserved, Nonterminal
  <2>3. QED
    BY <1>6, <2>1, <2>2, BeginStepWorks, BusySole DEF BeginStep, At, Busy, Quiet, Unclaimed, GoesOn, Goes
<1>7. CASE Succeed(j)
  <2>1. op'.job = op.job /\ Owns(j)
    BY <1>7 DEF Succeed, Fence, RowFields
  <2>2. Reserved' \/ job'[j].pc \in {"finalize", "release"}
    BY <1>7 DEF Succeed, IndInv, Shape, RowFields, JobFields, Goto, Reserved, Nonterminal
  <2>3. QED
    BY <1>7, <2>1, <2>2, SucceedWorks, BusySole DEF Succeed, At, Busy, Quiet, Unclaimed, GoesOn, Goes
<1>8. CASE RestoreRuntime(j)
  <2>1. op'.job = op.job /\ Owns(j)
    BY <1>8 DEF RestoreRuntime, Fence, RowFields
  <2>2. Reserved' \/ job'[j].pc \in {"finalize", "release"}
    BY <1>8 DEF RestoreRuntime, IndInv, Shape, RowFields, JobFields, Goto, Reserved, Nonterminal
  <2>3. QED
    BY <1>8, <2>1, <2>2, RestoreRuntimeWorks, BusySole DEF RestoreRuntime, At, Busy, Quiet, Unclaimed, GoesOn, Goes
<1>9. CASE Finish(j)
  <2>1. op'.job = op.job /\ Owns(j)
    BY <1>9 DEF Finish, Fence, RowFields
  <2>2. Reserved' \/ job'[j].pc \in {"finalize", "release"}
    BY <1>9 DEF Finish, IndInv, Shape, RowFields, JobFields, Goto, Reserved, Nonterminal
  <2>3. QED
    BY <1>9, <2>1, <2>2, FinishWorks, BusySole DEF Finish, At, Busy, Quiet, Unclaimed, GoesOn, Goes
<1>10. QED
  BY <1>1, <1>2, <1>3, <1>4, <1>5, <1>6, <1>7, <1>8, <1>9

\* The actions that may be taken by others as well.
QuietAction(j) ==
    \/ Push(j) \/ Begin(j) \/ TakeLocks(j) \/ LocksRefused(j) \/ Cancel(j) \/ Rollback(j)
    \/ Finalize(j) \/ Superseded(j) \/ Interrupted(j) \/ Release(j) \/ Crash(j)

LEMMA QuietSole ==
  ASSUME IndInv, SoleInv, NEW j \in Jobs, QuietAction(j)
  PROVE  SoleStep(j)
<1>1. DOMAIN op = RowFields /\ DOMAIN job = Jobs /\ DOMAIN job[j] = JobFields
  BY DEF IndInv, Shape
<1>2. job[j].rq # "stalled" /\ (~(Live(j) /\ Reserved) => job[j].pc \in Unclaimed \/ Harmless(j))
  BY DEF SoleInv
<1>3. CASE Release(j) \/ Crash(j)
  <2>1. job'[j] = NoExecution /\ op' = op
    BY <1>1, <1>3 DEF Release, Crash
  <2>2. QED
    BY <2>1, NoExecutionFields DEF SoleStep, Reserved
<1>4. CASE Push(j) \/ Begin(j)
  <2>1. job[j].pc \in Unclaimed
    BY <1>4, PushWorks, BeginWorks DEF Push, Begin, IndInv, JobInv, Unclaimed
  <2>2. op' = op /\ job'[j].rq # "stalled"
    BY <1>1, <1>4, NoExecutionFields DEF Push, Begin, JobFields
  <2>3. QED
    BY <2>1, <2>2 DEF SoleStep, Tidying, Unclaimed, Reserved
<1>5. CASE TakeLocks(j)
  <2>1. /\ job[j].pc = "lock" /\ op' = op /\ job'[j].rq = job[j].rq /\ job'[j].undo = job[j].undo
        /\ job'[j].pc = IF ~job[j].undo THEN "validate"
                        ELSE IF op.state = "preparing" THEN "cancel" ELSE "rollback"
    BY <1>1, <1>5 DEF TakeLocks, Goto, JobFields, At
  <2>2. QED
    BY <1>2, <2>1 DEF SoleStep, Tidying, Unclaimed, Reserved, Harmless, Quiet
<1>6. CASE LocksRefused(j)
  <2>1. /\ job[j].pc = "lock" /\ op' = op /\ job'[j].rq = job[j].rq /\ job'[j].undo = job[j].undo
        /\ job'[j].pc = IF job[j].undo THEN "release" ELSE "cancel"
    BY <1>1, <1>6 DEF LocksRefused, Goto, JobFields, At
  <2>2. QED
    BY <1>2, <2>1 DEF SoleStep, Tidying, Unclaimed, Reserved, Harmless, Quiet
<1>7. CASE Cancel(j)
  <2>1. /\ job[j].pc = "cancel" /\ Owns(j) /\ job'[j].rq = job[j].rq /\ job'[j].undo = job[j].undo
        /\ job'[j].pc = "release" /\ op'.job = op.job /\ ~Reserved'
    BY <1>1, <1>7 DEF Cancel, Goto, JobFields, RowFields, At, Reserved, Nonterminal
  <2>2. QED
    BY <1>2, <2>1 DEF SoleStep, Tidying, Unclaimed, Harmless, Quiet
<1>8. CASE Rollback(j)
  <2>1. /\ job[j].pc = "rollback" /\ Owns(j) /\ Reserved /\ Reserved' /\ op'.job = op.job
        /\ job'[j].rq = job[j].rq
    BY <1>1, <1>8 DEF Rollback, Fence, JobFields, RowFields, At, Reserved, Nonterminal
  <2>2. Live(j)
    BY <2>1, Worker DEF Claimed, Unclaimed
  <2>3. QED
    BY <1>2, <2>1, <2>2 DEF SoleStep, Tidying, Unclaimed
<1>9. CASE Finalize(j) \/ Superseded(j)
  <2>1. /\ job[j].pc \in {"finalize"} \cup Checked /\ op' = op
        /\ job'[j].rq = job[j].rq /\ job'[j].undo = job[j].undo /\ job'[j].pc = "release"
    BY <1>1, <1>9 DEF Finalize, Superseded, Goto, JobFields, At
  <2>2. QED
    BY <1>2, <2>1 DEF SoleStep, Tidying, Unclaimed, Reserved, Harmless, Quiet, Checked
<1>10. CASE Interrupted(j)
  <2>1. /\ job[j].pc \in Checked \ {"cancel", "tree"} /\ Owns(j) /\ op'.job = op.job
        /\ op'.state = op.state /\ Reserved' = Reserved
        /\ job'[j].rq = job[j].rq /\ job'[j].undo = job[j].undo /\ job'[j].pc = "release"
    BY <1>1, <1>10 DEF Interrupted, Goto, JobFields, RowFields, At, Reserved
  <2>2. QED
    BY <1>2, <2>1 DEF SoleStep, Tidying, Unclaimed, Harmless, Quiet, Checked
<1>11. QED
  BY <1>3, <1>4, <1>5, <1>6, <1>7, <1>8, <1>9, <1>10 DEF QuietAction

\* What a worker's step is, if none is given up on while it goes on.
WorkAction(j) ==
    \/ Push(j) \/ Begin(j) \/ TakeLocks(j) \/ LocksRefused(j)
    \/ ForwardStep(j) \/ ServiceStep(j) \/ RollbackStep(j)
    \/ Superseded(j) \/ Release(j) \/ WorkerFault(j)

LEMMA WorkerSole ==
  ASSUME IndInv, SoleInv, NoStall, NEW j \in Jobs, WorkAction(j)
  PROVE  SoleInv' /\ (QuietAction(j) \/ Busy(j))
<1>1. WorkStep(j)
  BY WorkerWorks DEF WorkAction
<1>2. ~Stall(j)
  BY DEF Stall, Spend, NoStall
<1>3. SoleStep(j) /\ (QuietAction(j) \/ Busy(j))
  <2>1. CASE ForwardStep(j)
    BY <2>1, HostBusy, ForwardBusy, QuietSole DEF ForwardStep, QuietAction
  <2>2. CASE ServiceStep(j)
    BY <2>2, ForwardBusy DEF ServiceStep
  <2>3. CASE RollbackStep(j)
    BY <2>3, HostBusy, BackBusy, QuietSole DEF RollbackStep, QuietAction
  <2>4. CASE \/ Push(j) \/ Begin(j) \/ TakeLocks(j) \/ LocksRefused(j)
             \/ Superseded(j) \/ Release(j)
    BY <2>4, QuietSole DEF QuietAction
  <2>5. CASE WorkerFault(j)
    BY <1>2, <2>5, HostBusy, QuietSole DEF WorkerFault, QuietAction
  <2>6. QED
    BY <2>1, <2>2, <2>3, <2>4, <2>5 DEF WorkAction
<1>4. QED
  BY <1>1, <1>3, SoleWork

-----------------------------------------------------------------------------
(* The others.                                                             *)

LEMMA SameJobsSole ==
  ASSUME SoleInv, UNCHANGED <<op, job>>,
         route' \in {"reserved", "unlocked"} => route \in {"reserved", "unlocked"}
  PROVE  SoleInv'
<1>1. \A j \in Jobs : /\ (Live(j)' <=> Live(j)) /\ (Claimed(j)' <=> Claimed(j))
                      /\ (Owns(j)' <=> Owns(j)) /\ (Tidying(j)' <=> Tidying(j))
                      /\ (Harmless(j)' <=> Harmless(j))
  BY DEF Live, Claimed, Owns, Tidying, Harmless
<1>2. \A j \in Jobs : Alone(j) => Alone(j)'
  BY <1>1 DEF Alone
<1>3. Reserved' <=> Reserved
  BY DEF Reserved
<1>4. QED
  BY <1>1, <1>2, <1>3 DEF SoleInv

\* A reservation leaves the executions of the operation before it behind.
LEMMA ReserveSole ==
  ASSUME IndInv, SoleInv, Reserve
  PROVE  SoleInv'
<1>1. op.id \in Nat /\ DOMAIN op = RowFields /\ \A j \in Jobs : job[j].of <= op.id /\ job[j].of \in Nat
  BY DEF IndInv, Shape, JobInv
<1>2. job' = job /\ op'.id = op.id + 1 /\ op'.state = "preparing"
  BY DEF Reserve
<1>3. \A j \in Jobs : ~Live(j)'
  BY <1>1, <1>2 DEF Live
<1>4. ~Reserved
  BY DEF Reserve, Eligible
<1>5. \A j \in Jobs : job[j].pc \notin Unclaimed => Harmless(j)'
  BY <1>2, <1>4 DEF SoleInv, Harmless
<1>6. QED
  BY <1>2, <1>3, <1>5 DEF SoleInv, Claimed

\* A new job j, which nobody has started.
LEMMA NewJobSole ==
  ASSUME IndInv, SoleInv, NEW j \in Jobs, NEW t \in {"upgrade", "recover"}, Fresh(j),
         \A k \in Jobs \ {j} : job'[k] = job[k],
         job'[j].pc = "", job'[j].rq = "assigned", job'[j].task = t,
         op'.id = op.id, op'.token = op.token, op'.state = op.state, op'.job = j,
         route' = route \/ route' = "idle", Reserved,
         \A k \in Jobs : Claimed(k) => ~Alone(k),
         t = "upgrade" => op'.required = op.required /\ \A k \in Jobs : Live(k) => job[k].task # "upgrade",
         t = "recover" => op'.required,
         \A k \in Jobs : Owns(k) => ~(Live(k) /\ job[k].pc = "claim" /\ ~job[k].undo)
  PROVE  SoleInv'
<1>2. \A k \in Jobs \ {j} : job'[k] = job[k]
  OBVIOUS
<1>3. job'[j].pc = "" /\ job'[j].rq = "assigned" /\ job'[j].task = t
  OBVIOUS
<1>4. \A k \in Jobs \ {j} : /\ (Live(k)' <=> Live(k)) /\ (Claimed(k)' <=> Claimed(k))
                            /\ (Owns(k)' <=> Owns(k)) /\ (Tidying(k)' <=> Tidying(k))
                            /\ (Harmless(k)' <=> Harmless(k))
  BY <1>2 DEF Live, Claimed, Owns, Tidying, Harmless
<1>5. Reserved' <=> Reserved
  BY DEF Reserved
<1>6. ~Claimed(j)' /\ job'[j].pc \in Unclaimed
  BY <1>3 DEF Claimed, Unclaimed
<1>7. \A k \in Jobs : Claimed(k)' /\ Reserved' => Tidying(k)'
  BY <1>4, <1>5, <1>6 DEF SoleInv
<1>8. \A k \in Jobs : job'[k].pc \notin Unclaimed /\ ~(Live(k)' /\ Reserved') => Harmless(k)'
  BY <1>2, <1>4, <1>5, <1>6 DEF SoleInv
<1>9. ASSUME NEW k \in Jobs, Live(k)', job'[k].task = "upgrade", ~op'.required
      PROVE  op'.job = k
  <2>1. CASE k = j
    BY <2>1
  <2>2. CASE k # j
    <3>1. Live(k) /\ job[k].task = "upgrade"
      BY <1>2, <1>4, <1>9, <2>2
    <3>2. t = "recover"
      BY <3>1
    <3>3. QED
      BY <1>9, <3>2
  <2>3. QED
    BY <2>1, <2>2
<1>10. \A k \in Jobs :
          ~(Owns(k)' /\ Live(k)' /\ job'[k].pc = "claim" /\ ~job'[k].undo)
  BY <1>2, <1>3, <1>4
<1>11. \A k \in Jobs : job'[k].rq # "stalled"
  BY <1>2, <1>3 DEF SoleInv
<1>12. route' \in {"reserved", "unlocked"} /\ Reserved' => op'.state = "preparing"
  BY <1>5 DEF SoleInv
<1>13. QED
  BY <1>7, <1>8, <1>9, <1>10, <1>11, <1>12 DEF SoleInv

LEMMA HandOverSole ==
  ASSUME IndInv, SoleInv, NEW j \in Jobs, HandOver(j)
  PROVE  SoleInv'
<1>1. DOMAIN op = RowFields /\ Jobs \subseteq Nat \ {None}
  BY RuntimeUpgradeAssumption DEF IndInv, Shape
<1>2. /\ op'.id = op.id /\ op'.token = op.token /\ op'.state = op.state /\ op'.job = j
      /\ op'.required
  BY <1>1 DEF HandOver, RowFields
<1>3. \A k \in Jobs : op.job = k => job[k].rq \notin {"queued", "started"}
  BY <1>1 DEF HandOver, Alive
<1>4. \A k \in Jobs : job[k].pc # "" => job[k].rq = "started"
  BY DEF IndInv, JobInv, SoleInv
<1>5. \A k \in Jobs : Claimed(k) => ~Alone(k)
  BY <1>3, <1>4 DEF Claimed, Unclaimed, Alone
<1>6. \A k \in Jobs : Owns(k) => ~(Live(k) /\ job[k].pc = "claim" /\ ~job[k].undo)
  BY <1>3, <1>4 DEF SoleInv
<1>7. /\ \A k \in Jobs \ {j} : job'[k] = job[k]
      /\ job'[j].pc = "" /\ job'[j].rq = "assigned" /\ job'[j].task = "recover"
  BY DEF HandOver, IndInv, Shape, NoExecution
<1>8. Reserved /\ route' = route
  BY DEF HandOver, clients
<1>9. QED
  BY <1>2, <1>5, <1>6, <1>7, <1>8, NewJobSole DEF HandOver

LEMMA RouteAssignsSole ==
  ASSUME IndInv, SoleInv, NEW j \in Jobs, RouteAssigns(j)
  PROVE  SoleInv'
<1>1. DOMAIN op = RowFields
  BY DEF IndInv, Shape
<1>2. /\ op'.id = op.id /\ op'.token = op.token /\ op'.state = op.state /\ op'.job = j
      /\ op'.required = op.required
  BY <1>1 DEF RouteAssigns, RowFields
<1>3. \A k \in Jobs : Claimed(k) => ~Alone(k)
  BY DEF RouteAssigns, Alone
<1>4. \A k \in Jobs : Live(k) => job[k].task # "upgrade"
  BY DEF RouteAssigns, IndInv, JobInv
<1>5. \A k \in Jobs : Owns(k) => ~(Live(k) /\ job[k].pc = "claim" /\ ~job[k].undo)
  BY <1>4 DEF SoleInv
<1>6. /\ \A k \in Jobs \ {j} : job'[k] = job[k]
      /\ job'[j].pc = "" /\ job'[j].rq = "assigned" /\ job'[j].task = "upgrade"
  BY DEF RouteAssigns, IndInv, Shape, NoExecution
<1>7. Reserved /\ route' = "idle"
  BY DEF RouteAssigns
<1>8. QED
  BY <1>2, <1>3, <1>4, <1>5, <1>6, <1>7, NewJobSole DEF RouteAssigns

LEMMA EnterSole ==
  ASSUME IndInv, SoleInv, NEW j \in Jobs, Enter(j)
  PROVE  SoleInv'
<1>1. DOMAIN job = Jobs /\ DOMAIN job[j] = JobFields /\ Jobs \subseteq Nat \ {None}
  BY RuntimeUpgradeAssumption DEF IndInv, Shape
<1>2. /\ op' = op /\ route' = route /\ (Reserved' <=> Reserved)
      /\ \A k \in Jobs \ {j} : job'[k] = job[k]
  BY <1>1 DEF Enter, clients, Reserved
<1>3. job[j].pc = "enter" /\ job[j].rq = "started"
  BY DEF Enter, At, SoleInv
<1>4. \A k \in Jobs \ {j} : /\ (Live(k)' <=> Live(k)) /\ (Claimed(k)' <=> Claimed(k))
                            /\ (Owns(k)' <=> Owns(k)) /\ (Tidying(k)' <=> Tidying(k))
                            /\ (Harmless(k)' <=> Harmless(k))
  BY <1>2 DEF Live, Claimed, Owns, Tidying, Harmless
<1>5. CASE job'[j] = NoExecution
  <2>1. ~Live(j)' /\ ~Claimed(j)' /\ job'[j].pc = "" /\ job'[j].rq = "none"
    BY <1>5, NoExecutionFields DEF Live, Claimed
  <2>2. \A k \in Jobs \ {j} : Alone(k) => Alone(k)'
    BY <1>2, <1>4, <2>1 DEF Alone
  <2>3. \A k \in Jobs : Claimed(k)' /\ Reserved' => Alone(k)' \/ Tidying(k)'
    BY <1>2, <1>4, <2>1, <2>2 DEF SoleInv
  <2>4. \A k \in Jobs : job'[k].pc \notin Unclaimed /\ ~(Live(k)' /\ Reserved') => Harmless(k)'
    BY <1>2, <1>4, <2>1 DEF SoleInv, Unclaimed
  <2>5. \A k \in Jobs : Live(k)' /\ job'[k].task = "upgrade" /\ Reserved' /\ ~op'.required => op'.job = k
    BY <1>2, <1>4, <2>1 DEF SoleInv
  <2>6. \A k \in Jobs : Owns(k)' /\ Live(k)' /\ job'[k].pc = "claim" /\ ~job'[k].undo =>
           job'[k].task = "upgrade" /\ ~op'.required /\ op'.job = k
    <3>1. ASSUME NEW k \in Jobs \ {j}, Owns(k)', Live(k)', job'[k].pc = "claim", ~job'[k].undo
          PROVE  job'[k].task = "upgrade" /\ ~op'.required /\ op'.job = k
      <4>1. job'[k] = job[k] /\ op' = op /\ Owns(k) /\ Live(k)
        BY <1>2, <1>4, <3>1
      <4>2. job[k].task = "upgrade" /\ ~op.required /\ op.job = k
        BY <3>1, <4>1 DEF SoleInv
      <4>3. QED
        BY <4>1, <4>2
    <3>2. QED
      BY <2>1, <3>1
  <2>7. \A k \in Jobs : job'[k].rq # "stalled"
    BY <1>2, <2>1 DEF SoleInv
  <2>8. route' \in {"reserved", "unlocked"} /\ Reserved' => op'.state = "preparing"
    BY <1>2 DEF SoleInv
  <2>9. QED
    BY <2>3, <2>4, <2>5, <2>6, <2>7, <2>8 DEF SoleInv
<1>6. CASE job'[j] # NoExecution
  <2> DEFINE forward == job[j].task = "upgrade" /\ op.state = "preparing" /\ ~op.required
  <2>1. /\ job[j].of = op.id /\ Reserved
        /\ forward \/ op.job \in {None, j} \/ ~Alive(op.job)
        /\ job' = [job EXCEPT ![j].pc = "claim", ![j].token = op.token, ![j].undo = ~forward]
    BY <1>1, <1>6 DEF Enter
  <2>2. /\ job'[j].pc = "claim" /\ job'[j].rq = "started" /\ job'[j].undo = ~forward
        /\ job'[j].task = job[j].task /\ job'[j].of = op.id
    BY <1>1, <1>3, <2>1 DEF JobFields
  <2>3. Live(j) /\ Live(j)' /\ ~Claimed(j) /\ ~Claimed(j)'
    BY <1>2, <1>3, <2>1, <2>2 DEF Live, Claimed, Unclaimed
  <2>4. forward => op.job = j
    BY <2>1, <2>3 DEF SoleInv
  <2>5. ASSUME NEW k \in Jobs, Claimed(k), Alone(k)
        PROVE  FALSE
    <3>1. k # j /\ op.job = k /\ k # None
      BY <1>1, <2>3, <2>5 DEF Alone
    <3>2. job[k].rq = "started"
      BY <2>5 DEF Claimed, Unclaimed, SoleInv, IndInv, JobInv
    <3>3. QED
      BY <2>1, <2>4, <3>1, <3>2 DEF Alive
  <2>6. \A k \in Jobs : Claimed(k)' /\ Reserved' => Tidying(k)'
    BY <1>2, <1>4, <2>3, <2>5 DEF SoleInv
  <2>7. \A k \in Jobs : job'[k].pc \notin Unclaimed /\ ~(Live(k)' /\ Reserved') => Harmless(k)'
    BY <1>2, <1>4, <2>2 DEF SoleInv, Unclaimed
  <2>8. \A k \in Jobs : Live(k)' /\ job'[k].task = "upgrade" /\ Reserved' /\ ~op'.required => op'.job = k
    BY <1>2, <1>4, <2>2, <2>3 DEF SoleInv
  <2>9. ASSUME NEW k \in Jobs, Owns(k)', Live(k)', job'[k].pc = "claim", ~job'[k].undo
        PROVE  job'[k].task = "upgrade" /\ ~op'.required /\ op'.job = k
    <3>1. CASE k = j
      <4>1. forward
        BY <2>2, <2>9, <3>1
      <4>2. QED
        BY <1>2, <2>2, <2>4, <3>1, <4>1
    <3>2. CASE k # j
      BY <1>2, <1>4, <2>9, <3>2 DEF SoleInv
    <3>3. QED
      BY <3>1, <3>2
  <2>10. \A k \in Jobs : job'[k].rq # "stalled"
    BY <1>2, <2>2 DEF SoleInv
  <2> HIDE DEF forward
  <2>11. QED
    BY <1>2, <2>6, <2>7, <2>8, <2>9, <2>10 DEF SoleInv
<1>7. QED
  BY <1>5, <1>6

LEMMA ClaimSole ==
  ASSUME IndInv, SoleInv, NEW j \in Jobs, Claim(j)
  PROVE  SoleInv'
<1>1. /\ DOMAIN job = Jobs /\ DOMAIN job[j] = JobFields /\ DOMAIN op = RowFields
      /\ op.token \in Nat /\ \A k \in Jobs : job[k].token \in Nat
  BY DEF IndInv, Shape
<1>2. /\ route' = route /\ op'.id = op.id /\ op'.state = op.state /\ op'.required = op.required
      /\ (Reserved' <=> Reserved)
      /\ \A k \in Jobs \ {j} : job'[k] = job[k]
  BY <1>1 DEF Claim, clients, Reserved, RowFields
<1>3. job[j].pc = "claim" /\ job[j].rq = "started"
  BY DEF Claim, At, SoleInv
<1>4. \A k \in Jobs \ {j} : /\ (Live(k)' <=> Live(k)) /\ (Claimed(k)' <=> Claimed(k))
                            /\ (Tidying(k)' <=> Tidying(k)) /\ (Harmless(k)' <=> Harmless(k))
  BY <1>2 DEF Live, Claimed, Tidying, Harmless
<1>5. CASE ~Owns(j)
  <2>1. job'[j] = NoExecution /\ op' = op
    BY <1>1, <1>5 DEF Claim
  <2>2. ~Live(j)' /\ ~Claimed(j)' /\ job'[j].pc = "" /\ job'[j].rq = "none"
    BY <2>1, NoExecutionFields DEF Live, Claimed
  <2>3. \A k \in Jobs \ {j} : Alone(k) => Alone(k)'
    BY <1>2, <1>4, <2>1, <2>2 DEF Alone
  <2>4. \A k \in Jobs \ {j} : Owns(k)' <=> Owns(k)
    BY <1>2, <2>1 DEF Owns
  <2>5. \A k \in Jobs : job'[k].rq # "stalled"
    BY <1>2, <2>2 DEF SoleInv
  <2>6. route' \in {"reserved", "unlocked"} /\ Reserved' => op'.state = "preparing"
    BY <1>2 DEF SoleInv
  <2>7. \A k \in Jobs : Claimed(k)' /\ Reserved' => Alone(k)' \/ Tidying(k)'
    BY <1>2, <1>4, <2>2, <2>3 DEF SoleInv
  <2>8. \A k \in Jobs : job'[k].pc \notin Unclaimed /\ ~(Live(k)' /\ Reserved') => Harmless(k)'
    BY <1>2, <1>4, <2>2 DEF SoleInv, Unclaimed
  <2>9. \A k \in Jobs :
            Live(k)' /\ job'[k].task = "upgrade" /\ Reserved' /\ ~op'.required => op'.job = k
    BY <1>2, <1>4, <2>1, <2>2 DEF SoleInv
  <2>10. \A k \in Jobs :
             Owns(k)' /\ Live(k)' /\ job'[k].pc = "claim" /\ ~job'[k].undo =>
                job'[k].task = "upgrade" /\ ~op'.required /\ op'.job = k
    <3>1. ASSUME NEW k \in Jobs \ {j}, Owns(k)', Live(k)', job'[k].pc = "claim", ~job'[k].undo
          PROVE  job'[k].task = "upgrade" /\ ~op'.required /\ op'.job = k
      <4>1. job'[k] = job[k] /\ op' = op /\ Owns(k) /\ Live(k)
        BY <1>2, <1>4, <2>1, <2>4, <3>1
      <4>2. job[k].task = "upgrade" /\ ~op.required /\ op.job = k
        BY <3>1, <4>1 DEF SoleInv
      <4>3. QED
        BY <4>1, <4>2
    <3>2. QED
      BY <2>2, <3>1
  <2>11. QED
    BY <2>5, <2>6, <2>7, <2>8, <2>9, <2>10 DEF SoleInv, Unclaimed
<1>6. CASE Owns(j)
  <2>1. /\ op' = [op EXCEPT !.token = op.token + 1, !.job = j]
        /\ job' = [job EXCEPT ![j].pc = "lock", ![j].token = op.token + 1]
    BY <1>6 DEF Claim
  <2>2. /\ op'.job = j /\ op'.token = op.token + 1
        /\ job'[j].pc = "lock" /\ job'[j].token = op.token + 1 /\ job'[j].rq = "started"
        /\ job'[j].undo = job[j].undo /\ job'[j].task = job[j].task /\ job'[j].of = job[j].of
    BY <1>1, <1>3, <2>1 DEF JobFields, RowFields
  <2>3. Live(j) /\ Live(j)' /\ Claimed(j)' /\ ~Claimed(j)
    BY <1>2, <1>3, <1>6, <2>2 DEF Owns, Live, Claimed, Unclaimed
  <2>4. \A k \in Jobs : Live(k) => job[k].token <= op.token
    BY DEF IndInv, JobInv
  <2>5. \A k \in Jobs \ {j} : ~(Owns(k)' /\ Live(k)')
    BY <1>1, <1>2, <1>4, <2>2, <2>4 DEF Owns
  <2>6. \A k \in Jobs : Claimed(k) /\ Reserved => Tidying(k)
    BY <1>3, <1>6, <2>3 DEF SoleInv, Alone, Owns
  <2>7. ASSUME Reserved
        PROVE  Alone(j)' \/ Tidying(j)'
    <3>1. CASE ~job[j].undo
      <4>1. job[j].task = "upgrade" /\ ~op.required
        BY <1>3, <1>6, <2>3, <3>1 DEF SoleInv
      <4>2. \A k \in Jobs : Live(k) => k = j
        BY <2>3, <2>7, <4>1 DEF IndInv, JobInv
      <4>3. route \notin {"reserved", "unlocked"}
        BY <2>3, <4>1 DEF IndInv, JobInv
      <4>4. \A k \in Jobs \ {j} : ~Live(k)'
        BY <1>4, <4>2
      <4>5. QED
        BY <1>2, <2>2, <4>3, <4>4 DEF Alone, Claimed
    <3>2. CASE job[j].undo /\ op.state = "preparing"
      BY <1>2, <2>2, <3>2 DEF Tidying
    <3>3. CASE op.state # "preparing"
      <4>1. \A k \in Jobs \ {j} : ~Claimed(k)'
        BY <1>4, <2>6, <2>7, <3>3 DEF Tidying
      <4>2. route \notin {"reserved", "unlocked"}
        BY <2>7, <3>3 DEF SoleInv
      <4>3. \A k \in Jobs \ {j} : Live(k)' => job'[k].token # op'.token
        BY <1>1, <1>2, <1>4, <2>2, <2>4
      <4>4. QED
        BY <1>2, <2>2, <4>1, <4>2, <4>3 DEF Alone
    <3>4. QED
      BY <3>1, <3>2, <3>3
  <2>8. \A k \in Jobs : Claimed(k)' /\ Reserved' => Alone(k)' \/ Tidying(k)'
    BY <1>2, <1>4, <2>6, <2>7
  <2>9. ~Reserved => Harmless(j)'
    <3>1. ~Reserved => job[j].undo
      BY <1>3, <1>6 DEF IndInv, OwnerInv, Reserved, Nonterminal
    <3>2. QED
      BY <2>2, <3>1 DEF Harmless, Quiet
  <2>10. \A k \in Jobs : job'[k].pc \notin Unclaimed /\ ~(Live(k)' /\ Reserved') => Harmless(k)'
    BY <1>2, <1>4, <2>3, <2>9 DEF SoleInv
  <2>11. ASSUME NEW k \in Jobs, Live(k)', job'[k].task = "upgrade", Reserved', ~op'.required
         PROVE  op'.job = k
    <3>1. Live(k) /\ job[k].task = "upgrade"
      BY <1>2, <1>4, <2>2, <2>3, <2>11
    <3>2. job[j].task # "recover"
      BY <1>2, <2>3, <2>11 DEF IndInv, JobInv
    <3>3. job[j].task = "upgrade"
      BY <2>3, <3>2 DEF IndInv, JobInv
    <3>4. QED
      BY <2>2, <2>3, <3>1, <3>3 DEF IndInv, JobInv
  <2>12. \A k \in Jobs : ~(Owns(k)' /\ Live(k)' /\ job'[k].pc = "claim")
    BY <2>2, <2>5
  <2>13. \A k \in Jobs : job'[k].rq # "stalled"
    BY <1>2, <2>2 DEF SoleInv
  <2>14. route' \in {"reserved", "unlocked"} /\ Reserved' => op'.state = "preparing"
    BY <1>2 DEF SoleInv
  <2>15. QED
    BY <2>8, <2>10, <2>11, <2>12, <2>13, <2>14 DEF SoleInv
<1>7. QED
  BY <1>5, <1>6

LEMMA SoleInit == Init => SoleInv
<1> SUFFICES ASSUME Init PROVE SoleInv
  OBVIOUS
<1>1. \A j \in Jobs : job[j].rq = "none" /\ job[j].pc = ""
  BY NoExecutionFields DEF Init
<1>2. QED
  BY <1>1 DEF Init, SoleInv, Live, Claimed, Unclaimed

LEMMA SoleNext ==
  ASSUME IndInv, SoleInv, NoStall, [Next]_vars
  PROVE  SoleInv'
<1>1. CASE Reserve \/ \E j \in Jobs : RouteAssigns(j) \/ HandOver(j) \/ Enter(j) \/ Claim(j)
  BY <1>1, ReserveSole, RouteAssignsSole, HandOverSole, EnterSole, ClaimSole
<1>2. CASE \E j \in Jobs : WorkAction(j)
  BY <1>2, WorkerSole
<1>3. CASE RouteLocks \/ RouteUnlocks \/ RouteGivesUp \/ \E e \in Entities : LocksExpire(e)
  BY <1>3, SameJobsSole DEF RouteLocks, RouteUnlocks, RouteGivesUp, LocksExpire, clients
<1>4. CASE \E u \in Users : UserStep(u) \/ \E i \in Instances : Guard(u, i)
  BY <1>4, SameJobsSole DEF UserStep, Works, Refused, WorkEnds, Guard
<1>5. CASE BackupLocks \/ BackupStep
  BY <1>5, SameJobsSole DEF BackupLocks, BackupStep, RestoreBackup, BackupEnds
<1>6. CASE UNCHANGED vars
  BY <1>6, SameJobsSole DEF vars
<1>7. QED
  BY <1>1, <1>2, <1>3, <1>4, <1>5, <1>6 DEF Next, RouteStep, WorkerStep, WorkAction

\* An execution that has taken the locks and has not yet been told to stop.
AtWork(j) ==
    Reserved /\ Claimed(j) /\ job[j].pc \notin {"lock", "cancel", "release"}

Holds(j) == \A e \in Entities : lock[e] = Exec(job[j])

\* All that an action of a worker does to the locks.
LEMMA LockActions ==
  ASSUME NEW j \in Jobs, WorkAction(j)
  PROVE  lock' = lock \/ Fence(j) \/ TakeLocks(j) \/ LocksRefused(j) \/ Release(j)
<1>1. CASE Push(j) \/ Begin(j) \/ TakeLocks(j) \/ LocksRefused(j) \/ Superseded(j) \/ Release(j)
  BY <1>1 DEF Push, Begin, Superseded
<1>2. CASE ForwardStep(j)
  <2>1. CASE \/ Validate(j) \/ Snapshot(j) \/ Recheck(j) \/ Cancel(j)
             \/ BeginStep(j) \/ Install(j) \/ Succeed(j)
    BY <2>1 DEF Validate, Snapshot, Recheck, Cancel, BeginStep, Install, Succeed
  <2>2. CASE \E i \in Instances : \/ StopAsk(j, i) \/ Stopped(j, i) \/ StopVerify(j, i)
                                  \/ SwapAsk(j, i) \/ Swap(j, i) \/ ConfigureAsk(j, i)
    BY <2>2 DEF StopAsk, Stopped, StopVerify, SwapAsk, Swap, ConfigureAsk
  <2>3. CASE \E i \in Instances : \/ PlayBegins(j, i) \/ Configure(j, i) \/ StartAsk(j, i)
                                  \/ Started(j, i) \/ StartVerify(j, i)
    BY <2>3 DEF PlayBegins, Configure, StartAsk, Started, StartVerify
  <2>4. QED
    BY <1>2, <2>1, <2>2, <2>3 DEF ForwardStep
<1>3. CASE ServiceStep(j)
  BY <1>3 DEF ServiceStep, ServiceBegins, ServiceRuns
<1>4. CASE RollbackStep(j)
  <2>1. CASE Rollback(j) \/ RestoreRuntime(j) \/ Finish(j) \/ Finalize(j)
    BY <2>1 DEF Rollback, RestoreRuntime, Finish, Finalize
  <2>2. CASE \E i \in Instances : Quiesce(j, i) \/ Quiesced(j, i) \/ Reverify(j, i) \/ RestoreTree(j, i)
    BY <2>2 DEF Quiesce, Quiesced, Reverify, RestoreTree
  <2>3. CASE \E i \in Instances : FilesAsk(j, i) \/ RestoreFiles(j, i)
    BY <2>3 DEF FilesAsk, RestoreFiles
  <2>4. CASE \E i \in Instances : RestoreState(j, i) \/ Restarted(j, i)
    BY <2>4 DEF RestoreState, Restarted
  <2>5. QED
    BY <1>4, <2>1, <2>2, <2>3, <2>4 DEF RollbackStep
<1>5. CASE WorkerFault(j)
  BY <1>5 DEF WorkerFault, StepFails, Interrupted, Crash, Stall
<1>6. QED
  BY <1>1, <1>2, <1>3, <1>4, <1>5 DEF WorkAction

\* ... and while execution k holds all of them.
LEMMA HeldWork ==
  ASSUME IndInv, SoleInv, NEW j \in Jobs, WorkAction(j), NEW k \in Jobs, AtWork(k), Holds(k),
         Claimed(k)', job'[k].pc # "release"
  PROVE  Holds(k)'
<1>1. /\ Host \in Entities /\ DOMAIN lock = Entities /\ DOMAIN job = Jobs
      /\ job[k].of = op.id /\ Alone(k)
  BY DEF Entities, IndInv, Shape, AtWork, Claimed, Live, SoleInv, Tidying
<1>2. Exec(job'[k]) = Exec(job[k])
  <2>1. op'.id = op.id /\ job'[k].token = job[k].token
    BY WorkerWorks, WorkStepJobs DEF WorkAction, WorkStep, RowStep, Claimed
  <2>2. QED
    BY <1>1, <2>1 DEF Exec, Claimed, Live
<1>3. lock[Host] = Exec(job[k]) /\ Exec(job[k]) # Nobody /\ Exec(job[k])[2] = op.id
      /\ Exec(job[k])[1] = "upgrade"
  BY <1>1 DEF Holds, Exec, Nobody
<1>4. CASE lock' = lock
  BY <1>2, <1>4 DEF Holds
<1>5. CASE Fence(j)
  BY <1>2, <1>3, <1>5 DEF Fence, Holds
<1>6. CASE TakeLocks(j)
  <2>1. job[j].pc = "lock" /\ job[j].rq # "none"
    BY <1>6 DEF TakeLocks, At
  <2>2. job[j].of = op.id
    <3>1. Lockable(j, Host)
      BY <1>1, <1>6 DEF TakeLocks
    <3>2. QED
      BY <1>3, <3>1 DEF Lockable
  <2>3. Claimed(j)
    BY <2>1, <2>2 DEF Claimed, Live, Unclaimed
  <2>4. QED
    BY <1>1, <2>1, <2>3 DEF Alone, AtWork
<1>7. CASE Release(j)
  <2>1. j # k
    BY <1>7 DEF Release, Claimed, Unclaimed, NoExecution, Live, IndInv, Shape
  <2>2. job[j].of # op.id
    BY <1>1, <1>7, <2>1 DEF Release, At, Claimed, Live, Unclaimed, Alone
  <2>3. Exec(job[j]) # Exec(job[k])
    BY <1>3, <2>2 DEF Exec
  <2>4. \A e \in Entities : lock'[e] = lock[e]
    BY <1>7, <2>3 DEF Release, FreeAll, Holds
  <2>5. QED
    BY <1>2, <2>4 DEF Holds
<1>8. CASE LocksRefused(j)
  <2>1. job[j].pc = "lock" /\ job[j].rq # "none"
    BY <1>8 DEF LocksRefused, At
  <2>2. job[j].of # op.id
    <3>1. job[j].of = op.id => Claimed(j)
      BY <2>1 DEF Claimed, Live, Unclaimed
    <3>2. QED
      BY <1>1, <2>1, <3>1 DEF Alone, AtWork
  <2>3. ~Lockable(j, Host)
    BY <1>3, <2>2 DEF Lockable, Nobody
  <2>4. PICK got \in SUBSET {e \in Entities : Lockable(j, e)} :
           /\ got = {}
           /\ lock' = [e \in Entities |-> IF e \in got THEN Nobody ELSE lock[e]]
    BY <1>8, <2>3 DEF LocksRefused
  <2>5. \A e \in Entities : lock'[e] = lock[e]
    BY <2>4
  <2>6. QED
    BY <1>2, <2>5 DEF Holds
<1>9. QED
  BY <1>4, <1>5, <1>6, <1>7, <1>8, LockActions

LEMMA WorkerHolds ==
  ASSUME IndInv, SoleInv, LocksHeld, NoStall, NEW j \in Jobs, WorkAction(j)
  PROVE  LocksHeld'
<1> SUFFICES ASSUME NEW k \in Jobs, AtWork(k)'
             PROVE  Holds(k)'
  BY DEF LocksHeld, AtWork, Holds
<1>1. WorkStep(j) /\ (QuietAction(j) \/ Busy(j))
  BY WorkerWorks, WorkerSole DEF WorkAction
<1>2. Reserved /\ Claimed(k)
  BY <1>1, WorkStepJobs DEF AtWork, WorkStep, RowStep
<1>3. CASE AtWork(k)
  BY <1>3, HeldWork DEF LocksHeld, AtWork, Holds
<1>4. CASE ~AtWork(k)
  <2>1. job[k].pc \in {"lock", "cancel", "release"} /\ k = j
    BY <1>1, <1>2, <1>4 DEF AtWork, WorkStep, JobStep
  <2>2. QuietAction(j)
    BY <1>1, <2>1 DEF Busy, Quiet
  <2>3. TakeLocks(j)
    <3>1. DOMAIN job = Jobs /\ DOMAIN job[j] = JobFields
      BY DEF IndInv, Shape
    <3>2. job'[j].pc \notin {"", "lock", "cancel", "release"}
      BY <2>1 DEF AtWork, Claimed, Unclaimed
    <3>3. CASE Push(j) \/ Begin(j)
      BY <2>1, <3>3, PushWorks, BeginWorks DEF Push, Begin, IndInv, JobInv
    <3>4. CASE Rollback(j) \/ Finalize(j) \/ Interrupted(j)
      BY <2>1, <3>1, <3>2, <3>4 DEF Rollback, Finalize, Interrupted, Goto, At, JobFields
    <3>5. CASE LocksRefused(j) \/ Cancel(j) \/ Superseded(j)
      BY <2>1, <3>1, <3>2, <3>5 DEF LocksRefused, Cancel, Superseded, Goto, JobFields
    <3>6. CASE Release(j) \/ Crash(j)
      <4>1. job' = [job EXCEPT ![j] = NoExecution]
        BY <3>6 DEF Release, Crash
      <4>2. job'[j] = NoExecution
        BY <3>1, <4>1
      <4>3. job'[j].pc = ""
        BY <4>2, NoExecutionFields
      <4>4. QED
        BY <3>2, <4>3
    <3>7. QED
      BY <2>2, <3>3, <3>4, <3>5, <3>6 DEF QuietAction
  <2>4. Exec(job'[j]) = Exec(job[j])
    BY <2>3 DEF TakeLocks, Goto, Exec, IndInv, Shape, JobFields
  <2>5. QED
    BY <2>1, <2>3, <2>4 DEF TakeLocks, Holds
<1>5. QED
  BY <1>3, <1>4

\* Steps that leave the locks and the claimed executions alone.
LEMMA SameHolds ==
  ASSUME LocksHeld, UNCHANGED lock,
         \A k \in Jobs : AtWork(k)' => AtWork(k) /\ Exec(job'[k]) = Exec(job[k])
  PROVE  LocksHeld'
BY DEF LocksHeld, AtWork

LEMMA NewJobHolds ==
  ASSUME IndInv, SoleInv, LocksHeld,
         NEW j \in Jobs, RouteAssigns(j) \/ HandOver(j) \/ Enter(j) \/ Claim(j)
  PROVE  LocksHeld'
<1>1. DOMAIN job = Jobs /\ DOMAIN op = RowFields /\ DOMAIN job[j] = JobFields
  BY DEF IndInv, Shape
<1>2. lock' = lock /\ \A k \in Jobs \ {j} : job'[k] = job[k]
  BY <1>1 DEF RouteAssigns, HandOver, Enter, Claim
<1>3. op'.id = op.id /\ op'.state = op.state
  <2>1. CASE RouteAssigns(j) \/ HandOver(j)
    BY <1>1, <2>1 DEF RowFields, RouteAssigns, HandOver
  <2>2. CASE Enter(j) \/ Claim(j)
    BY <1>1, <2>2 DEF RowFields, Enter, Claim
  <2>3. QED
    BY <2>1, <2>2
<1>4. job'[j].pc \in {"", "claim", "lock"}
  <2>1. CASE RouteAssigns(j) \/ HandOver(j)
    BY <1>1, <2>1 DEF RouteAssigns, HandOver, NoExecution
  <2>2. CASE job' = [job EXCEPT ![j] = NoExecution]
    BY <1>1, <2>2, NoExecutionFields
  <2>3. CASE Enter(j) /\ job' # [job EXCEPT ![j] = NoExecution]
    <3>1. PICK b : job' = [job EXCEPT ![j].pc = "claim", ![j].token = op.token, ![j].undo = b]
      BY <2>3 DEF Enter
    <3>2. QED
      BY <1>1, <3>1 DEF JobFields
  <2>4. CASE Claim(j) /\ job' # [job EXCEPT ![j] = NoExecution]
    <3>1. job' = [job EXCEPT ![j].pc = "lock", ![j].token = op.token + 1]
      BY <2>4 DEF Claim
    <3>2. QED
      BY <1>1, <3>1 DEF JobFields
  <2>5. QED
    BY <2>1, <2>2, <2>3, <2>4
<1>5. ASSUME NEW k \in Jobs, AtWork(k)'
      PROVE  AtWork(k) /\ Exec(job'[k]) = Exec(job[k])
  <2>1. k # j
    BY <1>4, <1>5 DEF AtWork, Claimed, Unclaimed
  <2>2. QED
    BY <1>2, <1>3, <1>5, <2>1 DEF AtWork, Claimed, Live, Reserved
<1>6. QED
  BY <1>2, <1>5, SameHolds

LEMMA ReserveHolds ==
  ASSUME IndInv, Reserve
  PROVE  LocksHeld'
<1>1. op.id \in Nat /\ \A j \in Jobs : job[j].of <= op.id /\ job[j].of \in Nat
  BY DEF IndInv, Shape, JobInv
<1>2. job' = job /\ op'.id = op.id + 1
  BY DEF Reserve
<1>3. \A j \in Jobs : ~Claimed(j)'
  BY <1>1, <1>2 DEF Claimed, Live
<1>4. QED
  BY <1>3 DEF LocksHeld

\* Nobody else gets at a lock an execution at work holds.
LEMMA OthersHold ==
  ASSUME IndInv, LocksHeld, UNCHANGED <<op, job>>,
         \/ RouteLocks \/ RouteUnlocks \/ RouteGivesUp \/ \E e \in Entities : LocksExpire(e)
         \/ \E u \in Users : UserStep(u) \/ \E i \in Instances : Guard(u, i)
         \/ BackupLocks \/ BackupStep \/ UNCHANGED vars
  PROVE  LocksHeld'
<1> SUFFICES ASSUME NEW k \in Jobs, AtWork(k)'
             PROVE  Holds(k)'
  BY DEF LocksHeld, AtWork, Holds
<1>1. AtWork(k)
  BY DEF AtWork, Reserved, Claimed, Live
<1>2. Holds(k)
  BY <1>1 DEF LocksHeld, AtWork, Holds
<1>3. DOMAIN lock = Entities /\ Instances \subseteq Entities
  BY DEF IndInv, Shape, Entities
<1>4. /\ Exec(job[k]) \notin {Nobody, User, Route} /\ job[k].pc # ""
      /\ Exec(job'[k]) = Exec(job[k])
  BY <1>1 DEF AtWork, Claimed, Unclaimed, Exec, Nobody, User, Route
<1>5. ~RouteLocks
  BY <1>1 DEF RouteLocks, AtWork
<1>6. CASE RouteUnlocks
  BY <1>2, <1>4, <1>6 DEF RouteUnlocks, FreeAll, Holds
<1>7. CASE \E e \in Entities : LocksExpire(e)
  <2>1. PICK e \in Entities : LocksExpire(e)
    BY <1>7
  <2>2. lock[e] = Exec(job[k])
    BY <1>2 DEF Holds
  <2>3. QED
    BY <1>4, <2>1, <2>2 DEF LocksExpire, Abandoned
<1>8. CASE \E u \in Users : UserStep(u)
  <2>1. PICK u \in Users : UserStep(u)
    BY <1>8
  <2>2. user[u].phase \in {"guarded", "working"} => lock[user[u].inst] = Exec(job[k])
    BY <1>2, <1>3 DEF IndInv, LockInv, Holds
  <2>3. user[u].phase = "working" => lock[user[u].inst] = User
    BY DEF IndInv, LockInv
  <2>4. ~Works(u) /\ ~WorkEnds(u)
    BY <1>4, <2>2, <2>3 DEF Works, WorkEnds
  <2>5. lock' = lock
    BY <2>1, <2>4 DEF UserStep, Refused
  <2>6. QED
    BY <1>2, <1>4, <2>5 DEF Holds
<1>9. CASE lock' = lock
  BY <1>2, <1>4, <1>9 DEF Holds
<1>10. QED
  BY <1>5, <1>6, <1>7, <1>8, <1>9 DEF RouteGivesUp, Guard, BackupLocks, BackupStep, RestoreBackup,
     BackupEnds, vars

LEMMA HoldsNext ==
  ASSUME IndInv, SoleInv, LocksHeld, NoStall, [Next]_vars
  PROVE  LocksHeld'
<1>1. CASE Reserve \/ \E j \in Jobs : RouteAssigns(j) \/ HandOver(j) \/ Enter(j) \/ Claim(j)
  BY <1>1, ReserveHolds, NewJobHolds
<1>2. CASE \E j \in Jobs : WorkAction(j)
  BY <1>2, WorkerHolds
<1>3. CASE RouteLocks \/ RouteUnlocks \/ RouteGivesUp \/ \E e \in Entities : LocksExpire(e)
  BY <1>3, OthersHold DEF RouteLocks, RouteUnlocks, RouteGivesUp, LocksExpire
<1>4. CASE \E u \in Users : UserStep(u) \/ \E i \in Instances : Guard(u, i)
  BY <1>4, OthersHold DEF UserStep, Works, Refused, WorkEnds, Guard
<1>5. CASE BackupLocks \/ BackupStep
  BY <1>5, OthersHold DEF BackupLocks, BackupStep, RestoreBackup, BackupEnds
<1>6. CASE UNCHANGED vars
  BY <1>6, OthersHold DEF vars
<1>7. QED
  BY <1>1, <1>2, <1>3, <1>4, <1>5, <1>6 DEF Next, RouteStep, WorkerStep, WorkAction

LEMMA HeldExcludes ==
  ASSUME IndInv, LocksHeld
  PROVE  UsersExcluded
<1> SUFFICES ASSUME NEW j \in Jobs, NEW u \in Users, user[u].phase = "working", Owns(j), Reserved,
                    job[j].pc \notin {"", "enter", "claim", "lock", "cancel", "release"}
             PROVE  FALSE
  BY DEF UsersExcluded
<1>1. Claimed(j)
  BY Worker DEF Unclaimed
<1>2. user[u].inst \in Entities /\ lock[user[u].inst] = User
  BY DEF IndInv, LockInv, Entities
<1>3. lock[user[u].inst] = Exec(job[j])
  BY <1>1, <1>2 DEF LocksHeld
<1>4. Exec(job[j])[1] = "upgrade" /\ User[1] = "user"
  BY DEF Exec, User
<1>5. QED
  BY <1>2, <1>3, <1>4

\* Where no worker goes on after RQ gave its job up, one execution at a time
\* works on the host, holding all its locks (claim_operation,
\* host_runtime_upgrade_state.py:55, and RedisExecutionLocks).
THEOREM SoleWorker ==
  ASSUME NoStall
  PROVE  Spec => [](SoleInv /\ LocksHeld)
<1>1. Init => LocksHeld
  BY NoExecutionFields DEF Init, LocksHeld, Claimed, Live
<1>2. IndInv /\ SoleInv /\ LocksHeld /\ [Next]_vars => SoleInv' /\ LocksHeld'
  BY SoleNext, HoldsNext
<1>3. QED
  BY SoleInit, <1>1, <1>2, Invariance, PTL DEF Spec

\* Nor does any user's job work on an instance beside such an execution: jobs
\* hold a lock that it has taken (RedisExecutionLocks.acquire).
THEOREM UsersKeptOut ==
  ASSUME NoStall
  PROVE  Spec => []UsersExcluded
<1>1. IndInv /\ SoleInv /\ LocksHeld => UsersExcluded
  BY HeldExcludes
<1>2. QED
  BY <1>1, Invariance, SoleWorker, PTL

-----------------------------------------------------------------------------
(* What the journal and the host's files say of each other, while one     *)
(* execution works at a time.                                             *)

LogFields == {"original", "stop", "convert", "configure", "rollback"}
InstFields == {"status", "svc", "tree", "files"}

DataShape ==
    /\ DOMAIN log = Instances /\ DOMAIN inst = Instances
    /\ \A i \in Instances : DOMAIN log[i] = LogFields /\ DOMAIN inst[i] = InstFields
    /\ DOMAIN host = {"status", "runtime"}
    /\ DOMAIN op = RowFields
    /\ DOMAIN job = Jobs
    /\ \A j \in Jobs : /\ DOMAIN job[j] = JobFields
                       /\ job[j].todo \subseteq Instances /\ job[j].failed \subseteq Instances

LEMMA TypedShape ==
  ASSUME Typed
  PROVE  DataShape
<1>1. DOMAIN op = RowFields /\ DOMAIN job = Jobs /\ \A j \in Jobs : DOMAIN job[j] = JobFields
  BY DEF Typed, IndInv, Shape
<1>2. DOMAIN log = Instances /\ \A i \in Instances : DOMAIN log[i] = LogFields
  BY DEF Typed, TypeInv, TypeOK, Outcome, LogFields
<1>3. DOMAIN inst = Instances /\ \A i \in Instances : DOMAIN inst[i] = InstFields
  BY DEF Typed, TypeInv, TypeOK, Instance, InstFields
<1>4. DOMAIN host = {"status", "runtime"}
  BY DEF Typed, TypeInv, TypeOK
<1>5. \A j \in Jobs : job[j].todo \subseteq Instances /\ job[j].failed \subseteq Instances
  BY DEF Typed, TypeInv, TypeOK, Execution
<1>6. QED
  BY <1>1, <1>2, <1>3, <1>4, <1>5 DEF DataShape

\* No file and no entry that a rollback looks at is changed; ...
SameHost ==
    /\ host'.runtime = host.runtime
    /\ \A i \in Instances : inst'[i].tree = inst[i].tree /\ inst'[i].files = inst[i].files

SameJournal ==
    \A i \in Instances : /\ log'[i].convert = log[i].convert
                         /\ log'[i].configure = log[i].configure
                         /\ log'[i].rollback = log[i].rollback

\* ... the operation goes on, and not back to its preparation.
Underway == Reserved' /\ (op'.state = "preparing" => op.state = "preparing")

\* Execution j goes to p, with the same instances to do.
Moves(j, p) ==
    /\ job'[j].pc = p /\ job'[j].undo = job[j].undo
    /\ job'[j].todo = job[j].todo /\ job'[j].failed = job[j].failed

\* It goes to p, with all of them.
Stages(j, p) ==
    /\ job'[j].pc = p /\ job'[j].undo = job[j].undo
    /\ job'[j].todo = Instances

\* It has done instance i.
Drops(j, i, p) ==
    /\ job'[j].pc = p /\ job'[j].undo = job[j].undo
    /\ job'[j].todo = job[j].todo \ {i} /\ job'[j].failed = job[j].failed

RecordStep(j) ==
    /\ JournalCovers' /\ EndInv' /\ PreInv' /\ BackInv'
    /\ job'[j].pc = "" \/ OnTrack(j)'
    /\ Reserved' \/ SameHost

LEMMA GotoMoves ==
  ASSUME DataShape, NEW j \in Jobs, NEW p, Goto(j, p)
  PROVE  Moves(j, p)
BY DEF DataShape, JobFields, Goto, Moves

LEMMA StageStages ==
  ASSUME DataShape, NEW j \in Jobs, NEW p, Stage(j, p)
  PROVE  Stages(j, p)
BY DEF DataShape, JobFields, Stage, Stages

LEMMA DoneMoves ==
  ASSUME DataShape, NEW j \in Jobs, NEW i, NEW p, NEW q, Done(j, i, p, q)
  PROVE  \/ job[j].todo = {i} /\ Stages(j, q)
         \/ job[j].todo # {i} /\ Drops(j, i, p)
<1>1. CASE job[j].todo = {i}
  BY <1>1 DEF DataShape, JobFields, Done, Stages
<1>2. CASE job[j].todo # {i}
  BY <1>2 DEF DataShape, JobFields, Done, Drops
<1>3. QED
  BY <1>1, <1>2

LEMMA PassedMoves ==
  ASSUME DataShape, NEW j \in Jobs, NEW i, NEW f, NEW p, NEW q, Passed(j, i, f, p, q)
  PROVE  /\ job'[j].todo = job[j].todo \ {i} /\ job'[j].failed = f
         /\ job'[j].undo = job[j].undo
         /\ job'[j].pc = IF job[j].todo = {i} THEN q ELSE p
BY DEF DataShape, JobFields, Passed

LEMMA KeepsRecord ==
  ASSUME RecordInv, Reserved, SameHost, SameJournal, Underway
  PROVE  JournalCovers' /\ EndInv' /\ PreInv' /\ BackInv'
<1>1. JournalCovers'
  BY DEF RecordInv, JournalCovers, SameHost, SameJournal
<1>2. EndInv'
  BY DEF EndInv, Underway
<1>3. PreInv'
  BY DEF RecordInv, PreInv, Unmarked, SameHost, SameJournal, Underway
<1>4. BackInv'
  BY DEF RecordInv, BackInv, RolledBack, On, SameHost, SameJournal
<1>5. QED
  BY <1>1, <1>2, <1>3, <1>4

LEMMA FirstUnique ==
  ASSUME NEW S \in SUBSET Instances, NEW i, NEW k, Next1(i, S), Next1(k, S)
  PROVE  i = k
BY RuntimeUpgradeAssumption DEF Next1


LEMMA OpeningTrack ==
  ASSUME NEW j \in Jobs, OnTrack(j), SameHost, SameJournal, job'[j].undo = job[j].undo,
         job[j].pc \in Opening, job'[j].pc \in Opening \cup {"rollback", "release"}
  PROVE  Forward(j)'
<1> SUFFICES ASSUME ~job[j].undo, job'[j].pc \in Opening
             PROVE  Forward(j)'
  BY DEF Forward, Opening, Stopping, Swapping, Playing, Closing, Starting
<1>1. host'.runtime = "minqlx" /\ \A i \in Instances : log'[i].configure = "" /\ log'[i].convert = ""
  BY DEF OnTrack, Forward, SameHost, SameJournal
<1>2. job'[j].pc \notin {"runtime"} \cup Swapping \cup Playing \cup Closing
  BY DEF Opening, Stopping, Swapping, Playing, Closing, Starting
<1>3. job'[j].pc \notin {"swapping", "play", "playing"}
  BY <1>2 DEF Swapping, Playing
<1>4. QED
  BY <1>1, <1>2, <1>3 DEF Forward

LEMMA ClosingTrack ==
  ASSUME NEW j \in Jobs, OnTrack(j), SameHost, SameJournal, job'[j].undo = job[j].undo,
         job[j].pc \in Closing, job'[j].pc \in Closing \cup {"rollback", "release"}
  PROVE  Forward(j)'
<1> SUFFICES ASSUME ~job[j].undo, job'[j].pc \in Closing
             PROVE  Forward(j)'
  BY DEF Forward, Opening, Stopping, Swapping, Playing, Closing, Starting
<1>1. /\ host'.runtime = "minqlxtended"
      /\ \A i \in Instances : inst'[i].tree = "minqlxtended" /\ inst'[i].files = "minqlxtended"
  BY DEF OnTrack, Forward, SameHost
<1>2. job'[j].pc \notin {"runtime"} \cup Opening \cup Swapping \cup Playing
  BY DEF Opening, Stopping, Swapping, Playing, Closing, Starting
<1>3. job'[j].pc \notin {"swapping", "play", "playing"}
  BY <1>2 DEF Swapping, Playing
<1>4. QED
  BY <1>1, <1>2, <1>3 DEF Forward

LEMMA ServiceTrack ==
  ASSUME NEW j \in Jobs, OnTrack(j), SameHost, SameJournal, NEW p, Moves(j, p),
         \/ job[j].pc \in Stopping /\ p \in Stopping
         \/ job[j].pc \in Starting /\ p \in Starting
  PROVE  Forward(j)' /\ Back(j)'
<1>1. CASE job[j].pc \in Stopping /\ p \in Stopping
  <2>1. Forward(j)'
    BY <1>1, OpeningTrack DEF Moves, Opening
  <2>2. Back(j)'
    BY <1>1 DEF Moves, Back, Stopping, Starting, Restoring
  <2>3. QED
    BY <2>1, <2>2
<1>2. CASE job[j].pc \in Starting /\ p \in Starting
  <2>1. Forward(j)'
    BY <1>2, ClosingTrack DEF Moves, Closing
  <2>2. p \notin {"replay", "restoring", "finish"} /\ p \in Restoring /\ job[j].pc \in Restoring
    BY <1>2 DEF Starting, Restoring
  <2>3. ASSUME job[j].undo
        PROVE  /\ host.runtime = "minqlx"
               /\ \A i \in Instances \ (job[j].todo \cup job[j].failed) : RolledBack(i)
               /\ \A i \in Instances :
                     Next1(i, job[j].todo) => /\ ~RolledBack(i)
                                              /\ inst[i].tree = "minqlx" /\ inst[i].files = "minqlx"
    BY <1>2, <2>2, <2>3 DEF OnTrack, Back
  <2>4. \A i \in Instances : RolledBack(i)' = RolledBack(i)
    BY DEF RolledBack, SameJournal
  <2>5. Back(j)'
    BY <2>2, <2>3, <2>4 DEF Back, Moves, SameHost
  <2>6. QED
    BY <2>1, <2>5
<1>3. QED
  BY <1>1, <1>2

LEMMA LocksRefusedTrack ==
  ASSUME Typed, RecordInv, NEW j \in Jobs, Claimed(j), Reserved, LocksRefused(j)
  PROVE  RecordStep(j)
<1>1. DataShape /\ OnTrack(j)
  BY TypedShape DEF RecordInv
<1>2. SameHost /\ SameJournal
  BY <1>1 DEF DataShape, LogFields, InstFields, LocksRefused, SameHost, SameJournal
<1>3. Underway
  BY <1>1 DEF DataShape, RowFields, LocksRefused, Underway, Reserved, Nonterminal
<1>4. job[j].pc = "lock" /\ (Moves(j, "release") \/ (Moves(j, "cancel") /\ ~job[j].undo))
  BY <1>1, GotoMoves DEF LocksRefused, At
<1>5. OneWay(j)'
  BY <1>1, <1>2, <1>3, <1>4 DEF OnTrack, OneWay, Moves, Stages, Drops, SameJournal, Underway, Early
<1>6. Forward(j)'
  BY <1>1, <1>2, <1>4 DEF OnTrack, OneWay, Forward, Moves, Stages, Drops, SameHost, SameJournal,
     Opening, Swapping, Playing, Closing, Stopping, Starting, Restoring
<1>7. Back(j)'
  BY <1>1, <1>2, <1>4 DEF OnTrack, OneWay, Back, Moves, Stages, Drops, SameHost, SameJournal,
     RolledBack, Opening, Swapping, Playing, Closing, Stopping, Starting, Restoring
<1>8. QED
  BY <1>2, <1>3, <1>5, <1>6, <1>7, KeepsRecord DEF RecordStep, OnTrack

LEMMA TakeLocksTrack ==
  ASSUME Typed, RecordInv, NEW j \in Jobs, Claimed(j), Reserved, TakeLocks(j)
  PROVE  RecordStep(j)
<1>1. DataShape /\ OnTrack(j)
  BY TypedShape DEF RecordInv
<1>2. SameHost /\ SameJournal
  BY DEF TakeLocks, SameHost, SameJournal
<1>3. Underway
  BY DEF TakeLocks, Underway, Reserved
<1>4. PICK p \in {"validate", "cancel", "rollback"} :
          /\ Goto(j, p)
          /\ p = "validate" => ~job[j].undo
          /\ p # "validate" => job[j].undo
          /\ p = "rollback" => op.state # "preparing"
  BY DEF TakeLocks
<1>5. Moves(j, p)
  BY <1>1, <1>4, GotoMoves
<1>6. OneWay(j)'
  BY <1>1, <1>2, <1>3, <1>4, <1>5 DEF OnTrack, OneWay, Moves, SameJournal, Underway, Early, TakeLocks
<1>7. Forward(j)' /\ Back(j)'
  BY <1>4, <1>5 DEF Forward, Back, Moves, Opening, Swapping, Playing, Closing, Stopping, Starting, Restoring
<1>8. QED
  BY <1>2, <1>3, <1>6, <1>7, KeepsRecord DEF RecordStep, OnTrack

LEMMA ValidateTrack ==
  ASSUME Typed, RecordInv, NEW j \in Jobs, Claimed(j), Reserved, Validate(j)
  PROVE  RecordStep(j)
<1>1. DataShape /\ OnTrack(j)
  BY TypedShape DEF RecordInv
<1>2. SameHost /\ SameJournal
  BY <1>1 DEF DataShape, LogFields, InstFields, Validate, SameHost, SameJournal
<1>3. Underway
  BY <1>1 DEF DataShape, RowFields, Validate, Underway, Reserved, Nonterminal
<1>4. job[j].pc = "validate" /\ (Moves(j, "snapshot") \/ Moves(j, "cancel"))
  BY <1>1, GotoMoves DEF Validate, At
<1>5. OneWay(j)'
  BY <1>1, <1>2, <1>3, <1>4 DEF OnTrack, OneWay, Moves, Stages, Drops, SameJournal, Underway, Early
<1>6. Forward(j)'
  BY <1>1, <1>2, <1>4 DEF OnTrack, OneWay, Forward, Moves, Stages, Drops, SameHost, SameJournal,
     Opening, Swapping, Playing, Closing, Stopping, Starting, Restoring
<1>7. Back(j)'
  BY <1>1, <1>2, <1>4 DEF OnTrack, OneWay, Back, Moves, Stages, Drops, SameHost, SameJournal,
     RolledBack, Opening, Swapping, Playing, Closing, Stopping, Starting, Restoring
<1>8. QED
  BY <1>2, <1>3, <1>5, <1>6, <1>7, KeepsRecord DEF RecordStep, OnTrack

LEMMA SnapshotTrack ==
  ASSUME Typed, RecordInv, NEW j \in Jobs, Claimed(j), Reserved, Snapshot(j)
  PROVE  RecordStep(j)
<1>1. DataShape /\ OnTrack(j)
  BY TypedShape DEF RecordInv
<1>2. SameHost /\ SameJournal
  BY <1>1 DEF DataShape, LogFields, InstFields, Snapshot, SameHost, SameJournal
<1>3. Underway
  BY <1>1 DEF DataShape, RowFields, Snapshot, Underway, Reserved, Nonterminal
<1>4. job[j].pc = "snapshot" /\ (Moves(j, "recheck") \/ Moves(j, "cancel"))
  BY <1>1, GotoMoves DEF Snapshot, At
<1>5. OneWay(j)'
  BY <1>1, <1>2, <1>3, <1>4 DEF OnTrack, OneWay, Moves, Stages, Drops, SameJournal, Underway, Early
<1>6. Forward(j)'
  BY <1>1, <1>2, <1>4 DEF OnTrack, OneWay, Forward, Moves, Stages, Drops, SameHost, SameJournal,
     Opening, Swapping, Playing, Closing, Stopping, Starting, Restoring
<1>7. Back(j)'
  BY <1>1, <1>2, <1>4 DEF OnTrack, OneWay, Back, Moves, Stages, Drops, SameHost, SameJournal,
     RolledBack, Opening, Swapping, Playing, Closing, Stopping, Starting, Restoring
<1>8. QED
  BY <1>2, <1>3, <1>5, <1>6, <1>7, KeepsRecord DEF RecordStep, OnTrack

LEMMA InstallTrack ==
  ASSUME Typed, RecordInv, NEW j \in Jobs, Claimed(j), Reserved, Install(j)
  PROVE  RecordStep(j)
<1>1. DataShape /\ OnTrack(j)
  BY TypedShape DEF RecordInv
<1>2. SameHost /\ SameJournal
  BY <1>1 DEF DataShape, LogFields, InstFields, Install, SameHost, SameJournal
<1>3. Underway
  BY <1>1 DEF DataShape, RowFields, Install, Underway, Reserved, Nonterminal
<1>4. job[j].pc = "installing" /\ (Moves(j, "convert") \/ Moves(j, "rollback"))
  BY <1>1, GotoMoves DEF Install, At
<1>5. OneWay(j)'
  BY <1>1, <1>2, <1>3, <1>4 DEF OnTrack, OneWay, Moves, Stages, Drops, SameJournal, Underway, Early
<1>6. Forward(j)'
  BY <1>1, <1>2, <1>4 DEF OnTrack, OneWay, Forward, Moves, Stages, Drops, SameHost, SameJournal,
     Opening, Swapping, Playing, Closing, Stopping, Starting, Restoring
<1>7. Back(j)'
  BY <1>1, <1>2, <1>4 DEF OnTrack, OneWay, Back, Moves, Stages, Drops, SameHost, SameJournal,
     RolledBack, Opening, Swapping, Playing, Closing, Stopping, Starting, Restoring
<1>8. QED
  BY <1>2, <1>3, <1>5, <1>6, <1>7, KeepsRecord DEF RecordStep, OnTrack

LEMMA FinalizeTrack ==
  ASSUME Typed, RecordInv, NEW j \in Jobs, Claimed(j), Reserved, Finalize(j)
  PROVE  RecordStep(j)
<1>1. DataShape /\ OnTrack(j)
  BY TypedShape DEF RecordInv
<1>2. SameHost /\ SameJournal
  BY <1>1 DEF DataShape, LogFields, InstFields, Finalize, SameHost, SameJournal
<1>3. Underway
  BY <1>1 DEF DataShape, RowFields, Finalize, Underway, Reserved, Nonterminal
<1>4. job[j].pc = "finalize" /\ Moves(j, "release")
  BY <1>1, GotoMoves DEF Finalize, At
<1>5. OneWay(j)'
  BY <1>1, <1>2, <1>3, <1>4 DEF OnTrack, OneWay, Moves, Stages, Drops, SameJournal, Underway, Early
<1>6. Forward(j)'
  BY <1>1, <1>2, <1>4 DEF OnTrack, OneWay, Forward, Moves, Stages, Drops, SameHost, SameJournal,
     Opening, Swapping, Playing, Closing, Stopping, Starting, Restoring
<1>7. Back(j)'
  BY <1>1, <1>2, <1>4 DEF OnTrack, OneWay, Back, Moves, Stages, Drops, SameHost, SameJournal,
     RolledBack, Opening, Swapping, Playing, Closing, Stopping, Starting, Restoring
<1>8. QED
  BY <1>2, <1>3, <1>5, <1>6, <1>7, KeepsRecord DEF RecordStep, OnTrack

LEMMA SupersededTrack ==
  ASSUME Typed, RecordInv, NEW j \in Jobs, Claimed(j), Reserved, Superseded(j)
  PROVE  RecordStep(j)
<1>1. DataShape /\ OnTrack(j)
  BY TypedShape DEF RecordInv
<1>2. SameHost /\ SameJournal
  BY <1>1 DEF DataShape, LogFields, InstFields, Superseded, SameHost, SameJournal
<1>3. Underway
  BY <1>1 DEF DataShape, RowFields, Superseded, Underway, Reserved, Nonterminal
<1>4. Moves(j, "release")
  BY <1>1, GotoMoves DEF Superseded, At
<1>5. OneWay(j)'
  BY <1>1, <1>2, <1>3, <1>4 DEF OnTrack, OneWay, Moves, Stages, Drops, SameJournal, Underway, Early
<1>6. Forward(j)'
  BY <1>1, <1>2, <1>4 DEF OnTrack, OneWay, Forward, Moves, Stages, Drops, SameHost, SameJournal,
     Opening, Swapping, Playing, Closing, Stopping, Starting, Restoring
<1>7. Back(j)'
  BY <1>1, <1>2, <1>4 DEF OnTrack, OneWay, Back, Moves, Stages, Drops, SameHost, SameJournal,
     RolledBack, Opening, Swapping, Playing, Closing, Stopping, Starting, Restoring
<1>8. QED
  BY <1>2, <1>3, <1>5, <1>6, <1>7, KeepsRecord DEF RecordStep, OnTrack

LEMMA InterruptedTrack ==
  ASSUME Typed, RecordInv, NEW j \in Jobs, Claimed(j), Reserved, Interrupted(j)
  PROVE  RecordStep(j)
<1>1. DataShape /\ OnTrack(j)
  BY TypedShape DEF RecordInv
<1>2. SameHost /\ SameJournal
  BY <1>1 DEF DataShape, LogFields, InstFields, Interrupted, SameHost, SameJournal
<1>3. Underway
  BY <1>1 DEF DataShape, RowFields, Interrupted, Underway, Reserved, Nonterminal
<1>4. Moves(j, "release")
  BY <1>1, GotoMoves DEF Interrupted, At
<1>5. OneWay(j)'
  BY <1>1, <1>2, <1>3, <1>4 DEF OnTrack, OneWay, Moves, Stages, Drops, SameJournal, Underway, Early
<1>6. Forward(j)'
  BY <1>1, <1>2, <1>4 DEF OnTrack, OneWay, Forward, Moves, Stages, Drops, SameHost, SameJournal,
     Opening, Swapping, Playing, Closing, Stopping, Starting, Restoring
<1>7. Back(j)'
  BY <1>1, <1>2, <1>4 DEF OnTrack, OneWay, Back, Moves, Stages, Drops, SameHost, SameJournal,
     RolledBack, Opening, Swapping, Playing, Closing, Stopping, Starting, Restoring
<1>8. QED
  BY <1>2, <1>3, <1>5, <1>6, <1>7, KeepsRecord DEF RecordStep, OnTrack

LEMMA StepFailsTrack ==
  ASSUME Typed, RecordInv, NEW j \in Jobs, Claimed(j), Reserved, StepFails(j)
  PROVE  RecordStep(j)
<1>1. DataShape /\ OnTrack(j)
  BY TypedShape DEF RecordInv
<1>2. SameHost /\ SameJournal
  BY <1>1 DEF DataShape, LogFields, InstFields, StepFails, SameHost, SameJournal
<1>3. Underway
  BY <1>1 DEF DataShape, RowFields, StepFails, Underway, Reserved, Nonterminal
<1>4. job[j].pc \in {"stop", "install", "swap", "runtime", "configure", "start"} /\ Moves(j, "rollback")
  BY <1>1, GotoMoves DEF StepFails, At
<1>5. OneWay(j)'
  BY <1>1, <1>2, <1>3, <1>4 DEF OnTrack, OneWay, Moves, Stages, Drops, SameJournal, Underway, Early
<1>6. Forward(j)'
  BY <1>1, <1>2, <1>4 DEF OnTrack, OneWay, Forward, Moves, Stages, Drops, SameHost, SameJournal,
     Opening, Swapping, Playing, Closing, Stopping, Starting, Restoring
<1>7. Back(j)'
  BY <1>1, <1>2, <1>4 DEF OnTrack, OneWay, Back, Moves, Stages, Drops, SameHost, SameJournal,
     RolledBack, Opening, Swapping, Playing, Closing, Stopping, Starting, Restoring
<1>8. QED
  BY <1>2, <1>3, <1>5, <1>6, <1>7, KeepsRecord DEF RecordStep, OnTrack

LEMMA StopAskTrack ==
  ASSUME Typed, RecordInv, NEW j \in Jobs, NEW i \in Instances, Claimed(j), Reserved, StopAsk(j, i)
  PROVE  RecordStep(j)
<1>1. DataShape /\ OnTrack(j)
  BY TypedShape DEF RecordInv
<1>2. SameHost /\ SameJournal
  BY <1>1 DEF DataShape, LogFields, InstFields, StopAsk, SameHost, SameJournal
<1>3. Underway
  BY <1>1 DEF DataShape, RowFields, StopAsk, Underway, Reserved, Nonterminal
<1>4. job[j].pc = "stop" /\ Moves(j, "stopcall")
  BY <1>1, GotoMoves DEF StopAsk, At
<1>5. OneWay(j)'
  BY <1>1, <1>2, <1>3, <1>4 DEF OnTrack, OneWay, Moves, Stages, Drops, SameJournal, Underway, Early
<1>6. Forward(j)'
  BY <1>1, <1>2, <1>4, OpeningTrack DEF Moves, Stages, Drops, Opening, Closing, Stopping, Starting
<1>7. Back(j)'
  BY <1>1, <1>2, <1>4 DEF OnTrack, OneWay, Back, Moves, Stages, Drops, SameHost, SameJournal,
     RolledBack, Opening, Swapping, Playing, Closing, Stopping, Starting, Restoring
<1>8. QED
  BY <1>2, <1>3, <1>5, <1>6, <1>7, KeepsRecord DEF RecordStep, OnTrack

LEMMA StoppedTrack ==
  ASSUME Typed, RecordInv, NEW j \in Jobs, NEW i \in Instances, Claimed(j), Reserved, Stopped(j, i)
  PROVE  RecordStep(j)
<1>1. DataShape /\ OnTrack(j)
  BY TypedShape DEF RecordInv
<1>2. SameHost /\ SameJournal
  BY <1>1 DEF DataShape, LogFields, InstFields, Stopped, SameHost, SameJournal
<1>3. Underway
  BY <1>1 DEF DataShape, RowFields, Stopped, Underway, Reserved, Nonterminal
<1>4. job[j].pc = "stopped" /\ ~job[j].undo /\ (Moves(j, "rollback") \/ Stages(j, "install") \/ Drops(j, i, "stop"))
  BY <1>1, GotoMoves, DoneMoves DEF Stopped, At
<1>5. OneWay(j)'
  BY <1>1, <1>2, <1>3, <1>4 DEF OnTrack, OneWay, Moves, Stages, Drops, SameJournal, Underway, Early
<1>6. Forward(j)'
  BY <1>1, <1>2, <1>4, OpeningTrack DEF Moves, Stages, Drops, Opening, Closing, Stopping, Starting
<1>7. Back(j)'
  BY <1>1, <1>2, <1>4 DEF OnTrack, OneWay, Back, Moves, Stages, Drops, SameHost, SameJournal,
     RolledBack, Opening, Swapping, Playing, Closing, Stopping, Starting, Restoring
<1>8. QED
  BY <1>2, <1>3, <1>5, <1>6, <1>7, KeepsRecord DEF RecordStep, OnTrack

LEMMA StopVerifyTrack ==
  ASSUME Typed, RecordInv, NEW j \in Jobs, NEW i \in Instances, Claimed(j), Reserved, StopVerify(j, i)
  PROVE  RecordStep(j)
<1>1. DataShape /\ OnTrack(j)
  BY TypedShape DEF RecordInv
<1>2. SameHost /\ SameJournal
  BY <1>1 DEF DataShape, LogFields, InstFields, StopVerify, SameHost, SameJournal
<1>3. Underway
  BY <1>1 DEF DataShape, RowFields, StopVerify, Underway, Reserved, Nonterminal
<1>4. job[j].pc = "stop" /\ (Moves(j, "rollback") \/ Stages(j, "install") \/ Drops(j, i, "stop"))
  BY <1>1, GotoMoves, DoneMoves DEF StopVerify, At
<1>5. OneWay(j)'
  BY <1>1, <1>2, <1>3, <1>4 DEF OnTrack, OneWay, Moves, Stages, Drops, SameJournal, Underway, Early
<1>6. Forward(j)'
  BY <1>1, <1>2, <1>4, OpeningTrack DEF Moves, Stages, Drops, Opening, Closing, Stopping, Starting
<1>7. Back(j)'
  BY <1>1, <1>2, <1>4 DEF OnTrack, OneWay, Back, Moves, Stages, Drops, SameHost, SameJournal,
     RolledBack, Opening, Swapping, Playing, Closing, Stopping, Starting, Restoring
<1>8. QED
  BY <1>2, <1>3, <1>5, <1>6, <1>7, KeepsRecord DEF RecordStep, OnTrack

LEMMA StartAskTrack ==
  ASSUME Typed, RecordInv, NEW j \in Jobs, NEW i \in Instances, Claimed(j), Reserved, StartAsk(j, i)
  PROVE  RecordStep(j)
<1>1. DataShape /\ OnTrack(j)
  BY TypedShape DEF RecordInv
<1>2. SameHost /\ SameJournal
  BY <1>1 DEF DataShape, LogFields, InstFields, StartAsk, SameHost, SameJournal
<1>3. Underway
  BY <1>1 DEF DataShape, RowFields, StartAsk, Underway, Reserved, Nonterminal
<1>4. job[j].pc = "start" /\ Moves(j, "startcall")
  BY <1>1, GotoMoves DEF StartAsk, At
<1>5. OneWay(j)'
  BY <1>1, <1>2, <1>3, <1>4 DEF OnTrack, OneWay, Moves, Stages, Drops, SameJournal, Underway, Early
<1>6. Forward(j)'
  BY <1>1, <1>2, <1>4, ClosingTrack DEF Moves, Stages, Drops, Opening, Closing, Stopping, Starting
<1>7. Back(j)'
  BY <1>1, <1>2, <1>4 DEF OnTrack, OneWay, Back, Moves, Stages, Drops, SameHost, SameJournal,
     RolledBack, Opening, Swapping, Playing, Closing, Stopping, Starting, Restoring
<1>8. QED
  BY <1>2, <1>3, <1>5, <1>6, <1>7, KeepsRecord DEF RecordStep, OnTrack

LEMMA StartedTrack ==
  ASSUME Typed, RecordInv, NEW j \in Jobs, NEW i \in Instances, Claimed(j), Reserved, Started(j, i)
  PROVE  RecordStep(j)
<1>1. DataShape /\ OnTrack(j)
  BY TypedShape DEF RecordInv
<1>2. SameHost /\ SameJournal
  BY <1>1 DEF DataShape, LogFields, InstFields, Started, SameHost, SameJournal
<1>3. Underway
  BY <1>1 DEF DataShape, RowFields, Started, Underway, Reserved, Nonterminal
<1>4. job[j].pc = "started" /\ ~job[j].undo /\ (Moves(j, "rollback") \/ Stages(j, "succeed") \/ Drops(j, i, "start"))
  BY <1>1, GotoMoves, DoneMoves DEF Started, At
<1>5. OneWay(j)'
  BY <1>1, <1>2, <1>3, <1>4 DEF OnTrack, OneWay, Moves, Stages, Drops, SameJournal, Underway, Early
<1>6. Forward(j)'
  BY <1>1, <1>2, <1>4, ClosingTrack DEF Moves, Stages, Drops, Opening, Closing, Stopping, Starting
<1>7. Back(j)'
  BY <1>1, <1>2, <1>4 DEF OnTrack, OneWay, Back, Moves, Stages, Drops, SameHost, SameJournal,
     RolledBack, Opening, Swapping, Playing, Closing, Stopping, Starting, Restoring
<1>8. QED
  BY <1>2, <1>3, <1>5, <1>6, <1>7, KeepsRecord DEF RecordStep, OnTrack

LEMMA StartVerifyTrack ==
  ASSUME Typed, RecordInv, NEW j \in Jobs, NEW i \in Instances, Claimed(j), Reserved, StartVerify(j, i)
  PROVE  RecordStep(j)
<1>1. DataShape /\ OnTrack(j)
  BY TypedShape DEF RecordInv
<1>2. SameHost /\ SameJournal
  BY <1>1 DEF DataShape, LogFields, InstFields, StartVerify, SameHost, SameJournal
<1>3. Underway
  BY <1>1 DEF DataShape, RowFields, StartVerify, Underway, Reserved, Nonterminal
<1>4. job[j].pc = "start" /\ (Moves(j, "rollback") \/ Stages(j, "succeed") \/ Drops(j, i, "start"))
  BY <1>1, GotoMoves, DoneMoves DEF StartVerify, At
<1>5. OneWay(j)'
  BY <1>1, <1>2, <1>3, <1>4 DEF OnTrack, OneWay, Moves, Stages, Drops, SameJournal, Underway, Early
<1>6. Forward(j)'
  BY <1>1, <1>2, <1>4, ClosingTrack DEF Moves, Stages, Drops, Opening, Closing, Stopping, Starting
<1>7. Back(j)'
  BY <1>1, <1>2, <1>4 DEF OnTrack, OneWay, Back, Moves, Stages, Drops, SameHost, SameJournal,
     RolledBack, Opening, Swapping, Playing, Closing, Stopping, Starting, Restoring
<1>8. QED
  BY <1>2, <1>3, <1>5, <1>6, <1>7, KeepsRecord DEF RecordStep, OnTrack

LEMMA ServiceBeginsTrack ==
  ASSUME Typed, RecordInv, NEW j \in Jobs, NEW i \in Instances, Claimed(j), Reserved,
         ServiceBegins(j, i)
  PROVE  RecordStep(j)
<1>1. DataShape /\ OnTrack(j)
  BY TypedShape DEF RecordInv
<1>2. SameHost /\ SameJournal
  BY <1>1 DEF DataShape, InstFields, ServiceBegins, SameHost, SameJournal
<1>3. Underway
  BY DEF ServiceBegins, Underway, Reserved
<1>4. PICK p \in {"stopplay", "startplay"} :
          /\ Goto(j, p)
          /\ job[j].pc = IF p = "stopplay" THEN "stopcall" ELSE "startcall"
  BY DEF ServiceBegins, At
<1>5. Moves(j, p)
  BY <1>1, <1>4, GotoMoves
<1>6. OneWay(j)'
  BY <1>1, <1>2, <1>3, <1>4, <1>5 DEF OnTrack, OneWay, Moves, SameJournal, Underway, Early
<1>7. \/ job[j].pc \in Stopping /\ p \in Stopping
      \/ job[j].pc \in Starting /\ p \in Starting
  BY <1>4 DEF Stopping, Starting
<1>8. QED
  BY <1>1, <1>2, <1>3, <1>5, <1>6, <1>7, ServiceTrack, KeepsRecord DEF RecordStep, OnTrack

LEMMA ServiceRunsTrack ==
  ASSUME Typed, RecordInv, NEW j \in Jobs, NEW i \in Instances, Claimed(j), Reserved,
         ServiceRuns(j, i)
  PROVE  RecordStep(j)
<1>1. DataShape /\ OnTrack(j)
  BY TypedShape DEF RecordInv
<1>2. \E svc, status : inst' = [inst EXCEPT ![i].svc = svc, ![i].status = status]
  BY DEF ServiceRuns
<1>3. SameHost /\ SameJournal
  BY <1>1, <1>2 DEF DataShape, InstFields, ServiceRuns, SameHost, SameJournal
<1>4. Underway
  BY DEF ServiceRuns, Underway, Reserved
<1>5. \E ok : job' = [job EXCEPT ![j].ok = ok,
                                 ![j].pc = IF @ = "stopplay" THEN "stopped" ELSE "started"]
  BY DEF ServiceRuns
<1>6. job[j].pc \in {"stopplay", "startplay"}
  BY DEF ServiceRuns, At
<1>7. PICK p \in {"stopped", "started"} :
          Moves(j, p) /\ job[j].pc = IF p = "stopped" THEN "stopplay" ELSE "startplay"
  BY <1>1, <1>5, <1>6 DEF DataShape, JobFields, Moves
<1>8. OneWay(j)'
  BY <1>1, <1>3, <1>4, <1>7 DEF OnTrack, OneWay, Moves, SameJournal, Underway, Early
<1>9. \/ job[j].pc \in Stopping /\ p \in Stopping
      \/ job[j].pc \in Starting /\ p \in Starting
  BY <1>7 DEF Stopping, Starting
<1>10. QED
  BY <1>1, <1>3, <1>4, <1>7, <1>8, <1>9, ServiceTrack, KeepsRecord DEF RecordStep, OnTrack

\* An action changes files or journal of one instance.
LEMMA OneRecord ==
  ASSUME RecordInv, Reserved, Underway, op.state # "preparing", NEW i \in Instances,
         \A k \in Instances \ {i} :
            /\ inst'[k].tree = inst[k].tree /\ inst'[k].files = inst[k].files
            /\ log'[k].convert = log[k].convert /\ log'[k].configure = log[k].configure
            /\ log'[k].rollback = log[k].rollback,
         inst'[i].tree # "minqlx" => log'[i].convert # "",
         inst'[i].files # "minqlx" => log'[i].configure # "",
         RolledBack(i)' => On(i, "minqlx")'
  PROVE  JournalCovers' /\ EndInv' /\ PreInv' /\ BackInv'
<1>1. JournalCovers'
  BY DEF RecordInv, JournalCovers
<1>2. EndInv' /\ PreInv'
  BY DEF EndInv, PreInv, Underway
<1>3. BackInv'
  BY DEF RecordInv, BackInv, RolledBack, On
<1>4. QED
  BY <1>1, <1>2, <1>3

\* What FailInstance does.
Fails(j, i, now, p, q) ==
    /\ \A k \in Instances \ {i} : inst'[k] = inst[k] /\ log'[k] = log[k]
    /\ inst'[i].svc = now.svc /\ inst'[i].tree = now.tree /\ inst'[i].files = now.files
    /\ log'[i].original = log[i].original /\ log'[i].stop = log[i].stop
    /\ log'[i].convert = log[i].convert /\ log'[i].configure = log[i].configure
    /\ log'[i].rollback = "failed"
    /\ job'[j].todo = job[j].todo \ {i} /\ job'[j].failed = job[j].failed \cup {i}
    /\ job'[j].undo = job[j].undo
    /\ job'[j].pc = IF job[j].todo = {i} THEN q ELSE p

LEMMA FailFacts ==
  ASSUME DataShape, NEW j \in Jobs, NEW i \in Instances, NEW now, DOMAIN now = InstFields,
         NEW p, NEW q, FailInstance(j, i, now, p, q)
  PROVE  Fails(j, i, now, p, q)
<1>1. Passed(j, i, job[j].failed \cup {i}, p, q)
  BY DEF FailInstance
<1>2. PICK status \in {now.status, "error"} : inst' = [inst EXCEPT ![i] = [now EXCEPT !.status = status]]
  BY DEF FailInstance
<1>3. /\ \A k \in Instances \ {i} : inst'[k] = inst[k]
      /\ inst'[i].svc = now.svc /\ inst'[i].tree = now.tree /\ inst'[i].files = now.files
  BY <1>2 DEF DataShape, InstFields
<1>4. log' = [log EXCEPT ![i].rollback = "failed"]
  BY DEF FailInstance
<1>5. /\ \A k \in Instances \ {i} : log'[k] = log[k]
      /\ log'[i].original = log[i].original /\ log'[i].stop = log[i].stop
      /\ log'[i].convert = log[i].convert /\ log'[i].configure = log[i].configure
      /\ log'[i].rollback = "failed"
  BY <1>4 DEF DataShape, LogFields
<1>6. QED
  BY <1>1, <1>3, <1>5, PassedMoves DEF Fails

\* The rollback is through with one instance.
LEMMA PassTrack ==
  ASSUME NEW j \in Jobs, NEW i \in Instances, OnTrack(j), job[j].undo, op'.state # "preparing",
         job[j].pc \in Restoring \cup {"tree"}, host'.runtime = host.runtime,
         job'[j].todo = job[j].todo \ {i}, job[j].failed \subseteq job'[j].failed,
         job'[j].undo = job[j].undo,
         job'[j].pc = IF job[j].todo = {i} THEN "finish" ELSE "tree",
         \A k \in Instances \ {i} : log'[k].rollback = log[k].rollback,
         i \in job'[j].failed \/ RolledBack(i)'
  PROVE  OnTrack(j)'
<1>1. /\ host.runtime = "minqlx"
      /\ \A k \in Instances \ (job[j].todo \cup job[j].failed) : RolledBack(k)
  BY DEF OnTrack, Back
<1>2. \A k \in Instances \ (job'[j].todo \cup job'[j].failed) : RolledBack(k)'
  BY <1>1 DEF RolledBack
<1>3. job'[j].pc \in {"tree", "finish"} /\ (job'[j].pc = "finish" => job'[j].todo = {})
  OBVIOUS
<1>4. Back(j)'
  BY <1>1, <1>2, <1>3 DEF Back, Restoring, Starting
<1>5. Forward(j)' /\ OneWay(j)'
  BY <1>3 DEF Forward, OneWay
<1>6. QED
  BY <1>4, <1>5 DEF OnTrack

-----------------------------------------------------------------------------
LEMMA RecheckTrack ==
  ASSUME Typed, RecordInv, NEW j \in Jobs, Claimed(j), Reserved, Recheck(j)
  PROVE  RecordStep(j)
<1>1. DataShape /\ OnTrack(j)
  BY TypedShape DEF RecordInv
<1>2. SameHost /\ SameJournal
  BY DEF Recheck, SameHost, SameJournal
<1>3. Underway
  BY <1>1 DEF DataShape, RowFields, Recheck, Underway, Reserved, Nonterminal
<1>4. job[j].pc = "recheck" /\ op.state = "preparing"
  BY DEF Recheck, At, Fence, Typed, IndInv, OwnerInv, Early
<1>5. CASE Goto(j, "cancel")
  <2>1. Moves(j, "cancel")
    BY <1>1, <1>5, GotoMoves
  <2>2. OneWay(j)'
    BY <1>1, <1>2, <1>4, <2>1 DEF OnTrack, OneWay, Moves, SameJournal, Early
  <2>3. Forward(j)' /\ Back(j)'
    BY <2>1 DEF Forward, Back, Moves, Opening, Swapping, Playing, Closing, Stopping, Starting, Restoring
  <2>4. QED
    BY <1>2, <1>3, <2>2, <2>3, KeepsRecord DEF RecordStep, OnTrack
<1>6. CASE op' = [op EXCEPT !.state = "quiescing"] /\ Stage(j, "stop")
  <2>1. Stages(j, "stop") /\ op'.state # "preparing"
    BY <1>1, <1>6, StageStages DEF DataShape, RowFields
  <2>2. OneWay(j)'
    BY <1>1, <1>2, <1>4, <2>1 DEF OnTrack, OneWay, Stages, SameJournal
  <2>3. host.runtime = "minqlx" /\ \A i \in Instances : log[i].configure = "" /\ log[i].convert = ""
    BY <1>4 DEF RecordInv, PreInv, Unmarked
  <2>4. Forward(j)'
    BY <1>2, <2>1, <2>3 DEF Forward, Stages, SameHost, SameJournal,
       Opening, Swapping, Playing, Closing, Stopping, Starting
  <2>5. Back(j)'
    BY <2>1 DEF Back, Stages, Starting, Restoring
  <2>6. QED
    BY <1>2, <1>3, <2>2, <2>4, <2>5, KeepsRecord DEF RecordStep, OnTrack
<1>7. QED
  BY <1>5, <1>6 DEF Recheck

\* The preparation ends where it began.
LEMMA CancelTrack ==
  ASSUME Typed, RecordInv, NEW j \in Jobs, Claimed(j), Reserved, Cancel(j)
  PROVE  RecordStep(j)
<1>1. DataShape /\ OnTrack(j)
  BY TypedShape DEF RecordInv
<1>2. SameHost /\ SameJournal
  BY <1>1 DEF DataShape, Cancel, SameHost, SameJournal
<1>3. op.state = "preparing"
  BY DEF Cancel, At, Typed, IndInv, OwnerInv, Early
<1>4. ~Reserved' /\ op'.state # "preparing"
  BY <1>1 DEF DataShape, RowFields, Cancel, Reserved, Nonterminal
<1>5. host.runtime = "minqlx" /\ \A i \in Instances : inst[i].tree = "minqlx" /\ inst[i].files = "minqlx"
  BY <1>3 DEF RecordInv, PreInv, Unmarked, JournalCovers
<1>6. JournalCovers' /\ EndInv' /\ PreInv' /\ BackInv'
  BY <1>2, <1>4, <1>5 DEF JournalCovers, EndInv, PreInv, BackInv, SameHost, On
<1>7. Moves(j, "release")
  BY <1>1, GotoMoves DEF Cancel
<1>8. OnTrack(j)'
  BY <1>1, <1>2, <1>7 DEF OnTrack, OneWay, Forward, Back, Moves, SameJournal,
     Opening, Swapping, Playing, Closing, Stopping, Starting, Restoring
<1>9. QED
  BY <1>2, <1>6, <1>8 DEF RecordStep

LEMMA SucceedTrack ==
  ASSUME Typed, RecordInv, NEW j \in Jobs, Claimed(j), Reserved, Succeed(j)
  PROVE  RecordStep(j)
<1>1. DataShape /\ OnTrack(j)
  BY TypedShape DEF RecordInv
<1>2. SameHost /\ SameJournal
  BY <1>1 DEF DataShape, Succeed, SameHost, SameJournal
<1>3. job[j].pc = "succeed"
  BY DEF Succeed, At
<1>4. ~Reserved' /\ op'.state # "preparing"
  BY <1>1 DEF DataShape, RowFields, Succeed, Reserved, Nonterminal
<1>5. /\ host.runtime = "minqlxtended" /\ ~job[j].undo
      /\ \A i \in Instances : inst[i].tree = "minqlxtended" /\ inst[i].files = "minqlxtended"
  BY <1>1, <1>3 DEF OnTrack, OneWay, Forward, Closing
<1>6. JournalCovers' /\ EndInv' /\ PreInv' /\ BackInv'
  BY <1>2, <1>4, <1>5 DEF JournalCovers, EndInv, PreInv, BackInv, SameHost, On
<1>7. Moves(j, "finalize")
  BY <1>1, GotoMoves DEF Succeed
<1>8. OnTrack(j)'
  BY <1>1, <1>2, <1>4, <1>7 DEF OnTrack, OneWay, Forward, Back, Moves, SameJournal,
     Opening, Swapping, Playing, Closing, Stopping, Starting, Restoring
<1>9. QED
  BY <1>2, <1>6, <1>8 DEF RecordStep

LEMMA FinishTrack ==
  ASSUME Typed, RecordInv, NEW j \in Jobs, Claimed(j), Reserved, Finish(j)
  PROVE  RecordStep(j)
<1>1. DataShape /\ OnTrack(j)
  BY TypedShape DEF RecordInv
<1>2. SameHost /\ SameJournal
  BY <1>1 DEF DataShape, Finish, SameHost, SameJournal
<1>3. job[j].pc = "finish" /\ job[j].undo
  BY <1>1 DEF Finish, At, OnTrack, OneWay
<1>4. op'.state # "preparing"
  BY <1>1 DEF DataShape, RowFields, Finish
<1>5. PICK p \in {"finalize", "release"} : Moves(j, p)
  BY <1>1, GotoMoves DEF Finish
<1>6. OnTrack(j)'
  BY <1>1, <1>2, <1>4, <1>5 DEF OnTrack, OneWay, Forward, Back, Moves, SameJournal,
     Opening, Swapping, Playing, Closing, Stopping, Starting, Restoring
<1>7. CASE job[j].failed = {}
  <2>1. ~Reserved'
    BY <1>1, <1>7 DEF DataShape, RowFields, Finish, Reserved, Nonterminal
  <2>2. host.runtime = "minqlx" /\ \A i \in Instances : RolledBack(i)
    BY <1>1, <1>3, <1>7 DEF OnTrack, Back
  <2>3. \A i \in Instances : On(i, "minqlx")
    BY <2>2 DEF RecordInv, BackInv
  <2>4. JournalCovers' /\ EndInv' /\ PreInv' /\ BackInv'
    BY <1>2, <1>4, <2>1, <2>2, <2>3 DEF JournalCovers, EndInv, PreInv, BackInv, SameHost, On
  <2>5. QED
    BY <1>2, <1>6, <2>4 DEF RecordStep
<1>8. CASE job[j].failed # {}
  <2>1. Underway
    BY <1>1, <1>4, <1>8 DEF DataShape, RowFields, Finish, Underway, Reserved, Nonterminal
  <2>2. QED
    BY <1>2, <1>6, <2>1, KeepsRecord DEF RecordStep
<1>9. QED
  BY <1>7, <1>8

LEMMA BeginStepTrack ==
  ASSUME Typed, RecordInv, NEW j \in Jobs, Claimed(j), Reserved, BeginStep(j)
  PROVE  RecordStep(j)
<1>1. DataShape /\ OnTrack(j)
  BY TypedShape DEF RecordInv
<1>2. SameJournal /\ \A i \in Instances : inst'[i].tree = inst[i].tree /\ inst'[i].files = inst[i].files
  BY DEF BeginStep, SameJournal
<1>3. Reserved' /\ op'.state # "preparing" /\ Underway
  BY <1>1 DEF DataShape, RowFields, BeginStep, Reserved, Nonterminal, Underway
<1>4. ~job[j].undo
  BY <1>1 DEF BeginStep, At, OnTrack, OneWay
<1>5. JournalCovers' /\ EndInv' /\ PreInv' /\ BackInv'
  BY <1>2, <1>3 DEF RecordInv, JournalCovers, EndInv, PreInv, BackInv, SameJournal, RolledBack, On
<1>6. OneWay(j)'
  <2>1. job'[j].undo = job[j].undo /\ job'[j].pc \in {"installing", "swap", "configure"}
    BY <1>1, GotoMoves, StageStages DEF BeginStep, Moves, Stages
  <2>2. QED
    BY <1>1, <1>2, <1>3, <1>4, <2>1 DEF OnTrack, OneWay, SameJournal
<1>7. CASE At(j, "install") /\ Goto(j, "installing") /\ UNCHANGED host
  <2>1. SameHost /\ Moves(j, "installing") /\ job[j].pc = "install"
    BY <1>1, <1>2, <1>7, GotoMoves DEF SameHost, At
  <2>2. Forward(j)'
    BY <1>1, <1>2, <2>1, OpeningTrack DEF Moves, Opening
  <2>3. Back(j)'
    BY <1>4, <2>1 DEF Back, Moves
  <2>4. QED
    BY <1>3, <1>5, <1>6, <2>2, <2>3 DEF RecordStep, OnTrack
<1>8. CASE At(j, "convert") /\ Stage(j, "swap") /\ UNCHANGED host
  <2>1. SameHost /\ Stages(j, "swap") /\ job[j].pc = "convert"
    BY <1>1, <1>2, <1>8, StageStages DEF SameHost, At
  <2>2. host.runtime = "minqlx" /\ \A i \in Instances : log[i].configure = ""
    BY <1>1, <1>4, <2>1 DEF OnTrack, Forward, Opening
  <2>3. Forward(j)'
    BY <1>2, <2>1, <2>2 DEF Forward, Stages, SameHost, SameJournal,
       Opening, Swapping, Playing, Closing, Stopping, Starting
  <2>4. Back(j)'
    BY <1>4, <2>1 DEF Back, Stages
  <2>5. QED
    BY <1>3, <1>5, <1>6, <2>3, <2>4 DEF RecordStep, OnTrack
<1>9. CASE At(j, "runtime") /\ Stage(j, "configure") /\ host' = [host EXCEPT !.runtime = "minqlxtended"]
  <2>1. host'.runtime = "minqlxtended" /\ Stages(j, "configure") /\ job[j].pc = "runtime"
    BY <1>1, <1>9, StageStages DEF DataShape, At
  <2>2. \A i \in Instances : inst[i].tree = "minqlxtended"
    BY <1>1, <1>4, <2>1 DEF OnTrack, Forward
  <2>3. Forward(j)'
    BY <1>2, <2>1, <2>2 DEF Forward, Stages, SameJournal,
       Opening, Swapping, Playing, Closing, Stopping, Starting
  <2>4. Back(j)'
    BY <1>4, <2>1 DEF Back, Stages
  <2>5. QED
    BY <1>3, <1>5, <1>6, <2>3, <2>4 DEF RecordStep, OnTrack
<1>10. QED
  BY <1>7, <1>8, <1>9 DEF BeginStep

-----------------------------------------------------------------------------
LEMMA SwapAskTrack ==
  ASSUME Typed, RecordInv, NEW j \in Jobs, NEW i \in Instances, Claimed(j), Reserved, SwapAsk(j, i)
  PROVE  RecordStep(j)
<1>1. DataShape /\ OnTrack(j)
  BY TypedShape DEF RecordInv
<1>2. SameHost /\ Underway /\ job[j].pc = "swap" /\ Next1(i, job[j].todo)
  BY DEF SwapAsk, SameHost, Underway, Reserved, At
<1>3. /\ \A k \in Instances \ {i} : log'[k] = log[k]
      /\ log'[i].convert = "swapping" /\ log'[i].configure = log[i].configure
      /\ log'[i].rollback = log[i].rollback
  BY <1>1 DEF SwapAsk, DataShape, LogFields
<1>4. Moves(j, "swapping")
  BY <1>1, GotoMoves DEF SwapAsk
<1>5. /\ ~job[j].undo /\ op.state # "preparing" /\ \A k \in Instances : log[k].rollback = ""
      /\ host.runtime = "minqlx" /\ \A k \in Instances : log[k].configure = ""
      /\ \A k \in Instances \ job[j].todo : inst[k].tree = "minqlxtended"
  BY <1>1, <1>2 DEF OnTrack, OneWay, Forward, Swapping, Early
<1>6. JournalCovers' /\ EndInv' /\ PreInv' /\ BackInv'
  <2>1. ~RolledBack(i)'
    BY <1>3, <1>5 DEF RolledBack
  <2>2. inst'[i].files # "minqlx" => log'[i].configure # ""
    BY <1>2, <1>3 DEF RecordInv, JournalCovers, SameHost
  <2>3. QED
    BY <1>2, <1>3, <1>5, <2>1, <2>2, OneRecord DEF SameHost
<1>7. OneWay(j)'
  BY <1>2, <1>3, <1>4, <1>5 DEF OneWay, Moves, Underway
<1>8. Forward(j)'
  <2>1. \A k \in Instances : Next1(k, job'[j].todo) => log'[k].convert # ""
    <3>1. job[j].todo \in SUBSET Instances
      BY <1>1 DEF DataShape
    <3>2. \A k \in Instances : Next1(k, job[j].todo) => k = i
      BY <1>2, <3>1, FirstUnique
    <3>3. QED
      BY <1>3, <1>4, <3>2 DEF Moves
  <2>2. \A k \in Instances : log'[k].configure = ""
    BY <1>3, <1>5
  <2>3. QED
    BY <1>2, <1>4, <1>5, <2>1, <2>2 DEF Forward, Moves, SameHost,
       Opening, Swapping, Playing, Closing, Stopping, Starting
<1>9. Back(j)'
  BY <1>4, <1>5 DEF Back, Moves
<1>10. QED
  BY <1>2, <1>6, <1>7, <1>8, <1>9 DEF RecordStep, OnTrack, Underway

LEMMA SwapTrack ==
  ASSUME Typed, RecordInv, NEW j \in Jobs, NEW i \in Instances, Claimed(j), Reserved, Swap(j, i)
  PROVE  RecordStep(j)
<1>1. DataShape /\ OnTrack(j)
  BY TypedShape DEF RecordInv
<1>2. Underway /\ job[j].pc = "swapping" /\ Next1(i, job[j].todo) /\ host' = host
  BY DEF Swap, Underway, Reserved, At
<1>3. /\ ~job[j].undo /\ op.state # "preparing" /\ \A k \in Instances : log[k].rollback = ""
      /\ host.runtime = "minqlx" /\ \A k \in Instances : log[k].configure = ""
      /\ \A k \in Instances \ job[j].todo : inst[k].tree = "minqlxtended"
      /\ log[i].convert # ""
  BY <1>1, <1>2 DEF OnTrack, OneWay, Forward, Swapping, Early
<1>4. \/ inst' = [inst EXCEPT ![i].tree = "minqlxtended"]
      \/ inst' = [inst EXCEPT ![i].tree = "mixed"]
  BY DEF Swap
<1>5. log' = log \/ log' = [log EXCEPT ![i].convert = "swapped"]
  BY DEF Swap
<1>6. \A k \in Instances : /\ inst'[k].files = inst[k].files
                           /\ k # i => inst'[k].tree = inst[k].tree
  BY <1>1, <1>4 DEF DataShape, InstFields
<1>7. /\ \A k \in Instances : /\ log'[k].configure = log[k].configure
                              /\ log'[k].rollback = log[k].rollback
                              /\ k # i => log'[k].convert = log[k].convert
      /\ log'[i].convert # ""
  <2>1. CASE log' = log
    BY <1>3, <2>1
  <2>2. CASE log' = [log EXCEPT ![i].convert = "swapped"]
    BY <1>1, <2>2 DEF DataShape, LogFields
  <2>3. QED
    BY <1>5, <2>1, <2>2
<1>8. JournalCovers' /\ EndInv' /\ PreInv' /\ BackInv'
  <2>1. ~RolledBack(i)'
    BY <1>3, <1>7 DEF RolledBack
  <2>2. inst'[i].files # "minqlx" => log'[i].configure # ""
    BY <1>6, <1>7 DEF RecordInv, JournalCovers
  <2>3. QED
    BY <1>2, <1>3, <1>6, <1>7, <2>1, <2>2, OneRecord
<1>9. job'[j].undo = job[j].undo /\ job'[j].pc \in {"swap", "runtime", "rollback", "release"}
  BY <1>1, GotoMoves, DoneMoves DEF Swap, Moves, Stages, Drops
<1>10. OneWay(j)'
  BY <1>2, <1>3, <1>7, <1>9 DEF OneWay, Underway
<1>11. Forward(j)'
  <2>1. CASE Moves(j, "rollback") \/ Moves(j, "release")
    BY <2>1 DEF Forward, Moves, Opening, Swapping, Playing, Closing, Stopping, Starting
  <2>2. CASE inst' = [inst EXCEPT ![i].tree = "minqlxtended"] /\ Done(j, i, "swap", "runtime")
    <3>1. inst'[i].tree = "minqlxtended"
      BY <1>1, <2>2 DEF DataShape, InstFields
    <3>2. \A k \in Instances : log'[k].configure = ""
      BY <1>3, <1>7
    <3>3. CASE job[j].todo = {i} /\ Stages(j, "runtime")
      <4>1. \A k \in Instances : inst'[k].tree = "minqlxtended"
        BY <1>3, <1>6, <3>1, <3>3
      <4>2. QED
        BY <1>2, <1>3, <3>2, <3>3, <4>1 DEF Forward, Stages, Opening, Swapping, Playing, Closing, Stopping, Starting
    <3>4. CASE Drops(j, i, "swap")
      <4>1. \A k \in Instances \ job'[j].todo : inst'[k].tree = "minqlxtended"
        BY <1>3, <1>6, <3>1, <3>4 DEF Drops
      <4>2. QED
        BY <1>2, <1>3, <3>2, <3>4, <4>1 DEF Forward, Drops, Opening, Swapping, Playing, Closing, Stopping, Starting
    <3>5. QED
      BY <1>1, <2>2, <3>3, <3>4, DoneMoves
  <2>3. QED
    BY <1>1, <2>1, <2>2, GotoMoves DEF Swap
<1>12. Back(j)'
  BY <1>3, <1>9 DEF Back
<1>13. QED
  BY <1>2, <1>8, <1>10, <1>11, <1>12 DEF RecordStep, OnTrack, Underway

LEMMA ConfigureAskTrack ==
  ASSUME Typed, RecordInv, NEW j \in Jobs, NEW i \in Instances, Claimed(j), Reserved, ConfigureAsk(j, i)
  PROVE  RecordStep(j)
<1>1. DataShape /\ OnTrack(j)
  BY TypedShape DEF RecordInv
<1>2. Underway /\ job[j].pc = "configure" /\ Next1(i, job[j].todo)
  BY DEF ConfigureAsk, Underway, Reserved, At
<1>3. SameHost
  BY <1>1 DEF ConfigureAsk, DataShape, InstFields, SameHost
<1>4. /\ \A k \in Instances \ {i} : log'[k] = log[k]
      /\ log'[i].configure = "requested" /\ log'[i].convert = log[i].convert
      /\ log'[i].rollback = log[i].rollback
  BY <1>1 DEF ConfigureAsk, DataShape, LogFields
<1>5. Moves(j, "play")
  BY <1>1, GotoMoves DEF ConfigureAsk
<1>6. /\ ~job[j].undo /\ op.state # "preparing" /\ \A k \in Instances : log[k].rollback = ""
      /\ host.runtime = "minqlxtended" /\ \A k \in Instances : inst[k].tree = "minqlxtended"
      /\ \A k \in Instances \ job[j].todo : inst[k].files = "minqlxtended"
  BY <1>1, <1>2 DEF OnTrack, OneWay, Forward, Playing, Early
<1>7. JournalCovers' /\ EndInv' /\ PreInv' /\ BackInv'
  <2>1. ~RolledBack(i)'
    BY <1>4, <1>6 DEF RolledBack
  <2>2. inst'[i].tree # "minqlx" => log'[i].convert # ""
    BY <1>3, <1>4 DEF RecordInv, JournalCovers, SameHost
  <2>3. QED
    BY <1>2, <1>3, <1>4, <1>6, <2>1, <2>2, OneRecord DEF SameHost
<1>8. OneWay(j)'
  BY <1>2, <1>4, <1>5, <1>6 DEF OneWay, Moves, Underway
<1>9. Forward(j)'
  <2>1. \A k \in Instances : Next1(k, job'[j].todo) => log'[k].configure # ""
    <3>1. job[j].todo \in SUBSET Instances
      BY <1>1 DEF DataShape
    <3>2. \A k \in Instances : Next1(k, job[j].todo) => k = i
      BY <1>2, <3>1, FirstUnique
    <3>3. QED
      BY <1>4, <1>5, <3>2 DEF Moves
  <2>2. QED
    BY <1>3, <1>5, <1>6, <2>1 DEF Forward, Moves, SameHost,
       Opening, Swapping, Playing, Closing, Stopping, Starting
<1>10. Back(j)'
  BY <1>5, <1>6 DEF Back, Moves
<1>11. QED
  BY <1>2, <1>7, <1>8, <1>9, <1>10 DEF RecordStep, OnTrack, Underway

LEMMA ConfigureTrack ==
  ASSUME Typed, RecordInv, NEW j \in Jobs, NEW i \in Instances, Claimed(j), Reserved, Configure(j, i)
  PROVE  RecordStep(j)
<1>1. DataShape /\ OnTrack(j)
  BY TypedShape DEF RecordInv
<1>2. Underway /\ job[j].pc = "playing" /\ Next1(i, job[j].todo) /\ host' = host
  BY DEF Configure, Underway, Reserved, At
<1>3. /\ ~job[j].undo /\ op.state # "preparing" /\ \A k \in Instances : log[k].rollback = ""
      /\ host.runtime = "minqlxtended" /\ \A k \in Instances : inst[k].tree = "minqlxtended"
      /\ \A k \in Instances \ job[j].todo : inst[k].files = "minqlxtended"
      /\ log[i].configure # ""
  BY <1>1, <1>2 DEF OnTrack, OneWay, Forward, Playing, Early
<1>4. inst' = inst \/ \E files : inst' = [inst EXCEPT ![i].files = files]
  BY DEF Configure
<1>5. log' = log \/ \E outcome \in {"ok", "failed"} : log' = [log EXCEPT ![i].configure = outcome]
  BY DEF Configure
<1>6. \A k \in Instances : /\ inst'[k].tree = inst[k].tree
                           /\ k # i => inst'[k].files = inst[k].files
  BY <1>1, <1>4 DEF DataShape, InstFields
<1>7. /\ \A k \in Instances : /\ log'[k].convert = log[k].convert
                              /\ log'[k].rollback = log[k].rollback
                              /\ k # i => log'[k].configure = log[k].configure
      /\ log'[i].configure # ""
  <2>1. CASE log' = log
    BY <1>3, <2>1
  <2>2. CASE \E outcome \in {"ok", "failed"} : log' = [log EXCEPT ![i].configure = outcome]
    <3>1. PICK outcome \in {"ok", "failed"} : log' = [log EXCEPT ![i].configure = outcome]
      BY <2>2
    <3>2. /\ \A k \in Instances \ {i} : log'[k] = log[k]
          /\ log'[i] = [log[i] EXCEPT !.configure = outcome]
      BY <1>1, <3>1 DEF DataShape
    <3>3. /\ log'[i].configure = outcome
          /\ log'[i].convert = log[i].convert /\ log'[i].rollback = log[i].rollback
      BY <1>1, <3>2 DEF DataShape, LogFields
    <3>4. QED
      BY <3>2, <3>3
  <2>3. QED
    BY <1>5, <2>1, <2>2
<1>8. JournalCovers' /\ EndInv' /\ PreInv' /\ BackInv'
  <2>1. ~RolledBack(i)'
    BY <1>3, <1>7 DEF RolledBack
  <2>2. inst'[i].tree # "minqlx" => log'[i].convert # ""
    BY <1>6, <1>7 DEF RecordInv, JournalCovers
  <2>3. QED
    BY <1>2, <1>3, <1>6, <1>7, <2>1, <2>2, OneRecord
<1>9. \/ Moves(j, "rollback") \/ Moves(j, "release")
      \/ inst' = [inst EXCEPT ![i].files = "minqlxtended"] /\ Done(j, i, "configure", "start")
  BY <1>1, GotoMoves DEF Configure
<1>10. job'[j].undo = job[j].undo /\ job'[j].pc \in {"configure", "start", "rollback", "release"}
  BY <1>1, <1>9, DoneMoves DEF Moves, Stages, Drops
<1>11. OneWay(j)'
  BY <1>2, <1>3, <1>7, <1>10 DEF OneWay, Underway
<1>12. Forward(j)'
  <2>1. CASE Moves(j, "rollback") \/ Moves(j, "release")
    BY <2>1 DEF Forward, Moves, Opening, Swapping, Playing, Closing, Stopping, Starting
  <2>2. CASE inst' = [inst EXCEPT ![i].files = "minqlxtended"] /\ Done(j, i, "configure", "start")
    <3>1. inst'[i].files = "minqlxtended"
      BY <1>1, <2>2 DEF DataShape, InstFields
    <3>2. \A k \in Instances : inst'[k].tree = "minqlxtended"
      BY <1>3, <1>6
    <3>3. CASE job[j].todo = {i} /\ Stages(j, "start")
      <4>1. \A k \in Instances : inst'[k].files = "minqlxtended"
        BY <1>3, <1>6, <3>1, <3>3
      <4>2. QED
        BY <1>2, <1>3, <3>2, <3>3, <4>1 DEF Forward, Stages, Opening, Swapping, Playing, Closing, Stopping, Starting
    <3>4. CASE Drops(j, i, "configure")
      <4>1. \A k \in Instances \ job'[j].todo : inst'[k].files = "minqlxtended"
        BY <1>3, <1>6, <3>1, <3>4 DEF Drops
      <4>2. QED
        BY <1>2, <1>3, <3>2, <3>4, <4>1 DEF Forward, Drops, Opening, Swapping, Playing, Closing, Stopping, Starting
    <3>5. QED
      BY <1>1, <2>2, <3>3, <3>4, DoneMoves
  <2>3. QED
    BY <1>9, <2>1, <2>2
<1>13. Back(j)'
  BY <1>3, <1>10 DEF Back
<1>14. QED
  BY <1>2, <1>8, <1>11, <1>12, <1>13 DEF RecordStep, OnTrack, Underway

LEMMA RollbackTrack ==
  ASSUME Typed, RecordInv, NEW j \in Jobs, Claimed(j), Reserved, Rollback(j)
  PROVE  RecordStep(j)
<1>1. DataShape /\ OnTrack(j)
  BY TypedShape DEF RecordInv
<1>2. SameHost /\ SameJournal
  BY DEF Rollback, SameHost, SameJournal
<1>3. op'.state # "preparing" /\ Underway
  BY <1>1 DEF DataShape, RowFields, Rollback, Reserved, Nonterminal, Underway
<1>4. job'[j].undo /\ job'[j].pc \in {"release", "back", "quiesce"}
  BY <1>1 DEF DataShape, JobFields, Rollback
<1>5. OnTrack(j)'
  BY <1>3, <1>4 DEF OnTrack, OneWay, Forward, Back, Restoring, Starting
<1>6. QED
  BY <1>2, <1>3, <1>5, KeepsRecord DEF RecordStep, Underway

LEMMA RestoreRuntimeTrack ==
  ASSUME Typed, RecordInv, NEW j \in Jobs, Claimed(j), Reserved, RestoreRuntime(j)
  PROVE  RecordStep(j)
<1>1. DataShape /\ OnTrack(j)
  BY TypedShape DEF RecordInv
<1>2. log' = log /\ inst' = inst
  BY DEF RestoreRuntime
<1>3. op'.state # "preparing" /\ Reserved' /\ host'.runtime = "minqlx"
  BY <1>1 DEF DataShape, RowFields, RestoreRuntime, Reserved, Nonterminal
<1>4. JournalCovers' /\ EndInv' /\ PreInv' /\ BackInv'
  BY <1>2, <1>3 DEF RecordInv, JournalCovers, EndInv, PreInv, BackInv, RolledBack, On
<1>5. job[j].undo
  BY <1>1 DEF RestoreRuntime, At, OnTrack, OneWay
<1>6. /\ job'[j].undo = job[j].undo /\ job'[j].failed = job[j].failed
      /\ job'[j].todo = Instances \ job[j].failed
      /\ job'[j].pc = IF Instances \ job[j].failed = {} THEN "finish" ELSE "tree"
  BY <1>1 DEF DataShape, JobFields, RestoreRuntime
<1>7. OnTrack(j)'
  BY <1>3, <1>5, <1>6 DEF OnTrack, OneWay, Forward, Back, Restoring, Starting
<1>8. QED
  BY <1>3, <1>4, <1>7 DEF RecordStep

LEMMA QuiesceTrack ==
  ASSUME Typed, RecordInv, NEW j \in Jobs, NEW i \in Instances, Claimed(j), Reserved,
         Quiesce(j, i) \/ Quiesced(j, i)
  PROVE  RecordStep(j)
<1>1. DataShape /\ OnTrack(j)
  BY TypedShape DEF RecordInv
<1>2. Underway /\ host' = host
  BY DEF Quiesce, Quiesced, Underway, Reserved
<1>3. job[j].undo /\ job[j].pc \in {"quiesce", "stopped"}
  BY <1>1 DEF Quiesce, Quiesced, At, OnTrack, OneWay
<1>4. op.state # "preparing"
  BY <1>1, <1>3 DEF OnTrack, OneWay, Early
<1>5. \/ log' = log /\ inst' = inst
      \/ log' = [log EXCEPT ![i].rollback = "failed"] /\ inst' = inst
      \/ FailInstance(j, i, inst[i], "quiesce", "back")
  BY DEF Quiesce, Quiesced
<1>6. job'[j].undo = job[j].undo /\ job'[j].pc \in {"stopcall", "quiesce", "back"}
  BY <1>1, GotoMoves, PassedMoves DEF Quiesce, Quiesced, Moves, FailInstance
<1>7. /\ \A k \in Instances \ {i} : inst'[k] = inst[k] /\ log'[k] = log[k]
      /\ inst'[i].tree = inst[i].tree /\ inst'[i].files = inst[i].files
      /\ log'[i].convert = log[i].convert /\ log'[i].configure = log[i].configure
      /\ log'[i].rollback \in {log[i].rollback, "failed"}
  <2>1. CASE log' = log /\ inst' = inst
    BY <2>1
  <2>2. CASE log' = [log EXCEPT ![i].rollback = "failed"] /\ inst' = inst
    BY <1>1, <2>2 DEF DataShape, LogFields
  <2>3. CASE FailInstance(j, i, inst[i], "quiesce", "back")
    <3>1. DOMAIN inst[i] = InstFields
      BY <1>1 DEF DataShape
    <3>2. QED
      BY <1>1, <2>3, <3>1, FailFacts DEF Fails
  <2>4. QED
    BY <1>5, <2>1, <2>2, <2>3
<1>8. RolledBack(i)' => RolledBack(i)
  BY <1>7 DEF RolledBack
<1>9. JournalCovers' /\ EndInv' /\ PreInv' /\ BackInv'
  <2>1. /\ inst'[i].tree # "minqlx" => log'[i].convert # ""
        /\ inst'[i].files # "minqlx" => log'[i].configure # ""
    BY <1>7 DEF RecordInv, JournalCovers
  <2>2. RolledBack(i)' => On(i, "minqlx")'
    BY <1>7, <1>8 DEF RecordInv, BackInv, On
  <2>3. QED
    BY <1>2, <1>4, <1>7, <2>1, <2>2, OneRecord
<1>10. OnTrack(j)'
  BY <1>2, <1>3, <1>4, <1>6 DEF OnTrack, OneWay, Forward, Back, Underway, Early, Restoring, Starting
<1>11. QED
  BY <1>2, <1>9, <1>10 DEF RecordStep, Underway

LEMMA ReverifyTrack ==
  ASSUME Typed, RecordInv, NEW j \in Jobs, NEW i \in Instances, Claimed(j), Reserved, Reverify(j, i)
  PROVE  RecordStep(j)
<1>1. DataShape /\ OnTrack(j)
  BY TypedShape DEF RecordInv
<1>2. SameHost /\ SameJournal /\ Underway
  BY DEF Reverify, SameHost, SameJournal, Underway, Reserved
<1>3. job[j].undo /\ job[j].pc = "tree" /\ op.state # "preparing"
  BY <1>1 DEF Reverify, At, OnTrack, OneWay, Early
<1>4. RolledBack(i)'
  BY DEF Reverify, RolledBack
<1>5. OnTrack(j)'
  BY <1>1, <1>2, <1>3, <1>4, PassedMoves, PassTrack DEF Reverify, SameHost, SameJournal, Underway
<1>6. QED
  BY <1>2, <1>5, KeepsRecord DEF RecordStep, Underway

Restores(j) ==
    \/ job[j].pc \in {"tree", "files", "replay", "restoring", "state"}
    \/ job[j].pc \in Starting /\ job[j].undo

\* What execution j knows of instance i while it restores it.
LEMMA RestoringFacts ==
  ASSUME RecordInv, Reserved, NEW j \in Jobs, NEW i \in Instances, OnTrack(j), Next1(i, job[j].todo),
         Restores(j)
  PROVE  /\ job[j].undo /\ op.state # "preparing" /\ host.runtime = "minqlx"
         /\ job[j].pc # "tree" => ~RolledBack(i) /\ inst[i].tree = "minqlx"
         /\ job[j].pc \in {"replay", "restoring"} => log[i].configure # ""
         /\ job[j].pc \in {"state"} \cup Starting => inst[i].files = "minqlx"
         /\ job[j].pc \in Restoring \cup {"tree"}
<1>1. job[j].undo /\ op.state # "preparing"
  BY DEF Restores, OnTrack, OneWay, Early, Starting
<1>2. job[j].pc \in Restoring \cup {"tree"} /\ (job[j].pc # "tree" => job[j].pc \in Restoring)
  BY DEF Restores, Restoring
<1>3. QED
  BY <1>1, <1>2 DEF OnTrack, Back

\* Of the next instance alone is anything known.
LEMMA OnlyNext ==
  ASSUME DataShape, NEW j \in Jobs, NEW i \in Instances, Next1(i, job[j].todo)
  PROVE  \A k \in Instances : Next1(k, job[j].todo) => k = i
<1>1. job[j].todo \in SUBSET Instances
  BY DEF DataShape
<1>2. QED
  BY <1>1, FirstUnique

LEMMA FailTrack ==
  ASSUME Typed, RecordInv, NEW j \in Jobs, NEW i \in Instances, Reserved, OnTrack(j),
         Next1(i, job[j].todo), Underway, host' = host,
         Restores(j),
         NEW now, DOMAIN now = InstFields, FailInstance(j, i, now, "tree", "finish"),
         now.tree # "minqlx" => log[i].convert # "",
         now.files # "minqlx" => log[i].configure # ""
  PROVE  RecordStep(j)
<1>1. DataShape
  BY TypedShape
<1>2. /\ \A k \in Instances \ {i} : inst'[k] = inst[k] /\ log'[k] = log[k]
      /\ inst'[i].tree = now.tree /\ inst'[i].files = now.files
      /\ log'[i].convert = log[i].convert /\ log'[i].configure = log[i].configure
      /\ log'[i].rollback = "failed"
      /\ job'[j].todo = job[j].todo \ {i} /\ job'[j].failed = job[j].failed \cup {i}
      /\ job'[j].undo = job[j].undo
      /\ job'[j].pc = IF job[j].todo = {i} THEN "finish" ELSE "tree"
  <2>1. Fails(j, i, now, "tree", "finish")
    BY <1>1, FailFacts
  <2>2. QED
    BY <2>1 DEF Fails
<1>3. job[j].undo /\ op.state # "preparing" /\ job[j].pc \in Restoring \cup {"tree"}
  BY RestoringFacts
<1>4. JournalCovers' /\ EndInv' /\ PreInv' /\ BackInv'
  <2>1. ~RolledBack(i)'
    BY <1>2 DEF RolledBack
  <2>2. /\ inst'[i].tree # "minqlx" => log'[i].convert # ""
        /\ inst'[i].files # "minqlx" => log'[i].configure # ""
    BY <1>2
  <2>3. QED
    BY <1>2, <1>3, <2>1, <2>2, OneRecord
<1>5. OnTrack(j)'
  BY <1>2, <1>3, PassTrack DEF Underway
<1>6. QED
  BY <1>4, <1>5 DEF RecordStep, Underway

LEMMA RestoreTreeTrack ==
  ASSUME Typed, RecordInv, NEW j \in Jobs, NEW i \in Instances, Claimed(j), Reserved, RestoreTree(j, i)
  PROVE  RecordStep(j)
<1>1. DataShape /\ OnTrack(j)
  BY TypedShape DEF RecordInv
<1>2. /\ Underway /\ host' = host /\ job[j].pc = "tree" /\ Next1(i, job[j].todo) /\ ~RolledBack(i)
      /\ JournalCovers /\ Restores(j)
  BY DEF RestoreTree, Underway, Reserved, At, RecordInv, Restores
<1>3. job[j].undo /\ op.state # "preparing" /\ host.runtime = "minqlx"
  BY <1>1, <1>2, RestoringFacts
<1>4. CASE /\ Goto(j, "files") /\ log' = log
           /\ \/ log[i].convert # "" /\ inst' = [inst EXCEPT ![i].tree = "minqlx"]
              \/ log[i].convert = "" /\ inst' = inst
  <2>1. /\ \A k \in Instances \ {i} : inst'[k] = inst[k]
        /\ inst'[i].tree = "minqlx" /\ inst'[i].files = inst[i].files
    <3>1. CASE inst' = [inst EXCEPT ![i].tree = "minqlx"]
      BY <1>1, <3>1 DEF DataShape, InstFields
    <3>2. CASE log[i].convert = "" /\ inst' = inst
      BY <1>2, <3>2 DEF JournalCovers
    <3>3. QED
      BY <1>4, <3>1, <3>2
  <2>2. JournalCovers' /\ EndInv' /\ PreInv' /\ BackInv'
    <3>1. ~RolledBack(i)' /\ (inst'[i].files # "minqlx" => log'[i].configure # "")
      BY <1>2, <1>4, <2>1 DEF RolledBack, JournalCovers
    <3>2. QED
      BY <1>2, <1>3, <1>4, <2>1, <3>1, OneRecord
  <2>3. Moves(j, "files")
    BY <1>1, <1>4, GotoMoves
  <2>4. OneWay(j)' /\ Forward(j)'
    BY <1>2, <1>3, <2>3 DEF OneWay, Forward, Moves, Underway
  <2>5. \A k \in Instances : RolledBack(k)' = RolledBack(k)
    BY <1>4 DEF RolledBack
  <2>6. Back(j)'
    <3>1. \A k \in Instances : Next1(k, job'[j].todo) => k = i
      BY <1>1, <1>2, <2>3, OnlyNext DEF Moves
    <3>2. \A k \in Instances \ (job[j].todo \cup job[j].failed) : RolledBack(k)
      BY <1>1, <1>2, <1>3 DEF OnTrack, Back
    <3>3. QED
      BY <1>2, <1>3, <2>1, <2>3, <2>5, <3>1, <3>2 DEF Back, Moves, Starting
  <2>7. QED
    BY <1>2, <2>2, <2>4, <2>6 DEF RecordStep, OnTrack, Underway
<1>5. CASE /\ log[i].convert # ""
           /\ \E tree \in {inst[i].tree, "mixed"} :
                 FailInstance(j, i, [inst[i] EXCEPT !.tree = tree], "tree", "finish")
  <2>1. PICK tree \in {inst[i].tree, "mixed"} :
                 FailInstance(j, i, [inst[i] EXCEPT !.tree = tree], "tree", "finish")
    BY <1>5
  <2> DEFINE now == [inst[i] EXCEPT !.tree = tree]
  <2>2. DOMAIN now = InstFields /\ now.files = inst[i].files
    BY <1>1 DEF DataShape, InstFields
  <2>3. now.files # "minqlx" => log[i].configure # ""
    BY <1>2, <2>2 DEF JournalCovers
  <2>4. FailInstance(j, i, now, "tree", "finish")
    BY <2>1
  <2> HIDE DEF now
  <2>5. QED
    BY <1>1, <1>2, <1>5, <2>2, <2>3, <2>4, FailTrack
<1>6. QED
  BY <1>4, <1>5 DEF RestoreTree

LEMMA FilesAskTrack ==
  ASSUME Typed, RecordInv, NEW j \in Jobs, NEW i \in Instances, Claimed(j), Reserved, FilesAsk(j, i)
  PROVE  RecordStep(j)
<1>1. DataShape /\ OnTrack(j)
  BY TypedShape DEF RecordInv
<1>2. SameHost /\ SameJournal /\ Underway /\ job[j].pc = "files" /\ Next1(i, job[j].todo)
      /\ JournalCovers /\ Restores(j)
  BY DEF FilesAsk, SameHost, SameJournal, Underway, Reserved, At, RecordInv, Restores
<1>3. /\ job[j].undo /\ op.state # "preparing" /\ host.runtime = "minqlx"
      /\ ~RolledBack(i) /\ inst[i].tree = "minqlx"
  BY <1>1, <1>2, RestoringFacts
<1>4. PICK p \in {"state", "replay"} :
          Goto(j, p) /\ (p = "state" => log[i].configure = "") /\ (p = "replay" => log[i].configure # "")
  BY DEF FilesAsk
<1>5. Moves(j, p)
  BY <1>1, <1>4, GotoMoves
<1>6. OneWay(j)' /\ Forward(j)'
  BY <1>2, <1>3, <1>4, <1>5 DEF OneWay, Forward, Moves, Underway
<1>7. \A k \in Instances : RolledBack(k)' = RolledBack(k)
  BY <1>2 DEF RolledBack, SameJournal
<1>8. p = "state" => inst[i].files = "minqlx"
  BY <1>2, <1>4 DEF JournalCovers
<1>9. Back(j)'
  <2>1. \A k \in Instances : Next1(k, job'[j].todo) => k = i
    BY <1>1, <1>2, <1>5, OnlyNext DEF Moves
  <2>2. \A k \in Instances \ (job[j].todo \cup job[j].failed) : RolledBack(k)
    BY <1>1, <1>2, <1>3 DEF OnTrack, Back, Restoring
  <2>3. /\ log'[i].configure = log[i].configure /\ ~RolledBack(i)'
        /\ host'.runtime = "minqlx" /\ inst'[i].tree = "minqlx" /\ inst'[i].files = inst[i].files
    BY <1>2, <1>3, <1>7 DEF SameHost, SameJournal
  <2>4. /\ job'[j].pc = p /\ job'[j].todo = job[j].todo /\ job'[j].failed = job[j].failed
    BY <1>5 DEF Moves
  <2>5. \A k \in Instances \ (job'[j].todo \cup job'[j].failed) : RolledBack(k)'
    BY <1>7, <2>2, <2>4
  <2>6. CASE p = "state"
    BY <1>8, <2>1, <2>3, <2>4, <2>5, <2>6 DEF Back
  <2>7. CASE p = "replay"
    BY <1>4, <2>1, <2>3, <2>4, <2>5, <2>7 DEF Back, Starting
  <2>8. QED
    BY <2>6, <2>7
<1>10. QED
  BY <1>2, <1>6, <1>9, KeepsRecord DEF RecordStep, OnTrack, Underway

\* The host is on the runtime that the play is for.
LEMMA PlayBeginsTrack ==
  ASSUME Typed, RecordInv, NEW j \in Jobs, NEW i \in Instances, Claimed(j), Reserved, PlayBegins(j, i)
  PROVE  RecordStep(j)
<1>1. DataShape /\ OnTrack(j)
  BY TypedShape DEF RecordInv
<1>2. Underway /\ Next1(i, job[j].todo)
  BY DEF PlayBegins, Underway, Reserved
<1>3. CASE At(j, "play")
  <2>1. ~job[j].undo /\ job[j].pc = "play" /\ host.runtime = "minqlxtended" /\ op.state # "preparing"
    BY <1>1, <1>3 DEF OnTrack, OneWay, Forward, At, Playing, Early
  <2>2. log' = log /\ inst' = inst /\ host' = host
        /\ job' = [job EXCEPT ![j].known = Ended, ![j].pc = "playing"]
    BY <1>3, <2>1 DEF PlayBegins
  <2>3. SameHost /\ SameJournal
    BY <2>2 DEF SameHost, SameJournal
  <2>4. Moves(j, "playing")
    BY <1>1, <2>2 DEF DataShape, JobFields, Moves
  <2>5. OneWay(j)'
    BY <1>1, <1>2, <2>1, <2>2, <2>4 DEF OnTrack, OneWay, Moves, Underway
  <2>6. Forward(j)'
    BY <1>1, <2>1, <2>2, <2>4 DEF OnTrack, Forward, Moves, Opening, Swapping, Playing, Closing, Stopping, Starting
  <2>7. Back(j)'
    BY <2>1, <2>4 DEF Back, Moves
  <2>8. QED
    BY <1>2, <2>3, <2>5, <2>6, <2>7, KeepsRecord DEF RecordStep, OnTrack, Underway
<1>4. CASE ~At(j, "play")
  <2>1. job[j].pc = "replay" /\ Restores(j)
    BY <1>4 DEF PlayBegins, At, Restores
  <2>2. /\ job[j].undo /\ op.state # "preparing" /\ host.runtime = "minqlx"
        /\ ~RolledBack(i) /\ inst[i].tree = "minqlx" /\ log[i].configure # ""
    BY <1>1, <1>2, <2>1, RestoringFacts
  <2>3. log' = log /\ inst' = inst /\ host' = host
        /\ job' = [job EXCEPT ![j].known = Ended, ![j].pc = "restoring"]
    BY <1>4, <2>2 DEF PlayBegins
  <2>4. SameHost /\ SameJournal
    BY <2>3 DEF SameHost, SameJournal
  <2>5. Moves(j, "restoring")
    BY <1>1, <2>3 DEF DataShape, JobFields, Moves
  <2>6. OneWay(j)' /\ Forward(j)'
    BY <1>2, <2>2, <2>5 DEF OneWay, Forward, Moves, Underway
  <2>7. Back(j)'
    <3>1. \A k \in Instances : RolledBack(k)' = RolledBack(k)
      BY <2>3 DEF RolledBack
    <3>2. \A k \in Instances : Next1(k, job'[j].todo) => k = i
      BY <1>1, <1>2, <2>5, OnlyNext DEF Moves
    <3>3. \A k \in Instances \ (job[j].todo \cup job[j].failed) : RolledBack(k)
      BY <1>1, <2>1, <2>2 DEF OnTrack, Back, Restoring
    <3>4. QED
      BY <2>2, <2>3, <2>5, <3>1, <3>2, <3>3 DEF Back, Moves, Starting
  <2>8. QED
    BY <1>2, <2>4, <2>6, <2>7, KeepsRecord DEF RecordStep, OnTrack, Underway
<1>5. QED
  BY <1>3, <1>4

LEMMA RestoreFilesTrack ==
  ASSUME Typed, RecordInv, NEW j \in Jobs, NEW i \in Instances, Claimed(j), Reserved, RestoreFiles(j, i)
  PROVE  RecordStep(j)
<1>1. DataShape /\ OnTrack(j)
  BY TypedShape DEF RecordInv
<1>2. Underway /\ host' = host /\ job[j].pc = "restoring" /\ Next1(i, job[j].todo) /\ Restores(j)
  BY DEF RestoreFiles, Underway, Reserved, At, Restores
<1>3. /\ job[j].undo /\ op.state # "preparing" /\ host.runtime = "minqlx"
      /\ ~RolledBack(i) /\ inst[i].tree = "minqlx" /\ log[i].configure # ""
  BY <1>1, <1>2, RestoringFacts
<1>4. CASE \E files : FailInstance(j, i, [inst[i] EXCEPT !.files = files], "tree", "finish")
  <2>1. PICK files : FailInstance(j, i, [inst[i] EXCEPT !.files = files], "tree", "finish")
    BY <1>4
  <2> DEFINE now == [inst[i] EXCEPT !.files = files]
  <2>2. DOMAIN now = InstFields /\ now.tree = inst[i].tree
    BY <1>1 DEF DataShape, InstFields
  <2>3. FailInstance(j, i, now, "tree", "finish")
    BY <2>1
  <2> HIDE DEF now
  <2>4. QED
    BY <1>1, <1>2, <1>3, <2>2, <2>3, FailTrack
<1>5. CASE /\ log' = log /\ \E files : inst' = [inst EXCEPT ![i] = [inst[i] EXCEPT !.files = files]]
           /\ \/ Goto(j, "release")
              \/ Goto(j, "state") /\ inst' = [inst EXCEPT ![i] = [inst[i] EXCEPT !.files = "minqlx"]]
  <2>1. /\ \A k \in Instances \ {i} : inst'[k] = inst[k]
        /\ inst'[i].tree = inst[i].tree
    <3>1. PICK files : inst' = [inst EXCEPT ![i] = [inst[i] EXCEPT !.files = files]]
      BY <1>5
    <3>2. QED
      BY <1>1, <3>1 DEF DataShape, InstFields
  <2>2. JournalCovers' /\ EndInv' /\ PreInv' /\ BackInv'
    <3>1. ~RolledBack(i)'
      BY <1>3, <1>5 DEF RolledBack
    <3>2. QED
      BY <1>2, <1>3, <1>5, <2>1, <3>1, OneRecord
  <2>3. PICK p \in {"release", "state"} :
            /\ Goto(j, p)
            /\ p = "state" => inst' = [inst EXCEPT ![i] = [inst[i] EXCEPT !.files = "minqlx"]]
    BY <1>5
  <2>4. Moves(j, p)
    BY <1>1, <2>3, GotoMoves
  <2>5. OneWay(j)' /\ Forward(j)'
    BY <1>2, <1>3, <2>4 DEF OneWay, Forward, Moves, Underway
  <2>6. p = "state" => inst'[i].files = "minqlx"
    BY <1>1, <2>3 DEF DataShape, InstFields
  <2>7. Back(j)'
    <3>1. \A k \in Instances : RolledBack(k)' = RolledBack(k)
      BY <1>5 DEF RolledBack
    <3>2. \A k \in Instances : Next1(k, job'[j].todo) => k = i
      BY <1>1, <1>2, <2>4, OnlyNext DEF Moves
    <3>3. \A k \in Instances \ (job[j].todo \cup job[j].failed) : RolledBack(k)
      BY <1>1, <1>2, <1>3 DEF OnTrack, Back, Restoring
    <3>4. QED
      BY <1>2, <1>3, <2>1, <2>4, <2>6, <3>1, <3>2, <3>3 DEF Back, Moves, Starting, Restoring
  <2>8. QED
    BY <1>2, <2>2, <2>5, <2>7 DEF RecordStep, OnTrack, Underway
<1>6. QED
  <2>1. \/ \E files : FailInstance(j, i, [inst[i] EXCEPT !.files = files], "tree", "finish")
        \/ /\ log' = log /\ Goto(j, "release")
           /\ \E files : inst' = [inst EXCEPT ![i] = [inst[i] EXCEPT !.files = files]]
        \/ /\ log' = log /\ (Goto(j, "state") \/ Goto(j, "release"))
           /\ inst' = [inst EXCEPT ![i] = [inst[i] EXCEPT !.files = "minqlx"]]
    BY DEF RestoreFiles
  <2>2. QED
    BY <1>4, <1>5, <2>1

\* An instance counts as restored when nothing of it is left to restore.
LEMMA RestoredTrack ==
  ASSUME Typed, RecordInv, NEW j \in Jobs, NEW i \in Instances, Reserved, OnTrack(j),
         Next1(i, job[j].todo), Underway, host' = host, NEW r \in {"ok", "untouched"},
         Restores(j), job[j].pc \in {"state"} \cup Starting,
         log' = [log EXCEPT ![i].rollback = r],
         SameHost, Passed(j, i, job[j].failed, "tree", "finish")
  PROVE  RecordStep(j)
<1>1. DataShape
  BY TypedShape
<1>2. /\ job[j].undo /\ op.state # "preparing" /\ inst[i].tree = "minqlx" /\ inst[i].files = "minqlx"
      /\ job[j].pc \in Restoring \cup {"tree"}
  BY RestoringFacts DEF Starting
<1>3. /\ \A k \in Instances \ {i} : log'[k] = log[k]
      /\ log'[i].convert = log[i].convert /\ log'[i].configure = log[i].configure
      /\ log'[i].rollback = r
  BY <1>1 DEF DataShape, LogFields
<1>4. JournalCovers' /\ EndInv' /\ PreInv' /\ BackInv'
  <2>1. On(i, "minqlx")'
    BY <1>2 DEF On, SameHost
  <2>2. inst'[i].tree = "minqlx" /\ inst'[i].files = "minqlx"
    BY <2>1 DEF On
  <2>3. QED
    BY <1>2, <1>3, <2>1, <2>2, OneRecord DEF SameHost
<1>5. OnTrack(j)'
  <2>1. RolledBack(i)'
    BY <1>3 DEF RolledBack
  <2>2. QED
    BY <1>1, <1>2, <1>3, <2>1, PassedMoves, PassTrack DEF Underway
<1>6. QED
  BY <1>4, <1>5 DEF RecordStep, Underway

LEMMA RestoreStateTrack ==
  ASSUME Typed, RecordInv, NEW j \in Jobs, NEW i \in Instances, Claimed(j), Reserved, RestoreState(j, i)
  PROVE  RecordStep(j)
<1>1. DataShape /\ OnTrack(j)
  BY TypedShape DEF RecordInv
<1>2. Underway /\ host' = host /\ job[j].pc = "state" /\ Next1(i, job[j].todo) /\ Restores(j)
  BY DEF RestoreState, Underway, Reserved, At, Restores
<1>3. /\ job[j].undo /\ op.state # "preparing" /\ host.runtime = "minqlx"
      /\ ~RolledBack(i) /\ inst[i].tree = "minqlx" /\ inst[i].files = "minqlx"
  BY <1>1, <1>2, RestoringFacts
<1>4. CASE FailInstance(j, i, inst[i], "tree", "finish")
  <2>1. DOMAIN inst[i] = InstFields
    BY <1>1 DEF DataShape
  <2>2. QED
    BY <1>1, <1>2, <1>3, <1>4, <2>1, FailTrack
<1>5. CASE /\ inst' = inst \/ inst' = [inst EXCEPT ![i].status = "stopped"]
           /\ \E r \in {"ok", "untouched"} : log' = [log EXCEPT ![i].rollback = r]
           /\ Passed(j, i, job[j].failed, "tree", "finish")
  <2>1. SameHost
    BY <1>1, <1>2, <1>5 DEF SameHost, DataShape, InstFields
  <2>2. QED
    BY <1>1, <1>2, <1>5, <2>1, RestoredTrack
<1>6. CASE /\ log' = log /\ inst' = inst
           /\ Goto(j, "startcall") \/ job' = [job EXCEPT ![j].ok = TRUE, ![j].pc = "started"]
  <2>1. SameHost /\ SameJournal
    BY <1>2, <1>6 DEF SameHost, SameJournal
  <2>2. PICK p \in {"startcall", "started"} : Moves(j, p)
    BY <1>1, <1>6, GotoMoves DEF DataShape, JobFields, Moves
  <2>3. OneWay(j)' /\ Forward(j)'
    BY <1>2, <1>3, <2>2 DEF OneWay, Forward, Moves, Underway
  <2>4. Back(j)'
    <3>1. \A k \in Instances : RolledBack(k)' = RolledBack(k)
      BY <1>6 DEF RolledBack
    <3>2. \A k \in Instances : Next1(k, job'[j].todo) => k = i
      BY <1>1, <1>2, <2>2, OnlyNext DEF Moves
    <3>3. \A k \in Instances \ (job[j].todo \cup job[j].failed) : RolledBack(k)
      BY <1>1, <1>2, <1>3 DEF OnTrack, Back, Restoring
    <3>4. QED
      BY <1>2, <1>3, <1>6, <2>2, <3>1, <3>2, <3>3 DEF Back, Moves, Starting, Restoring
  <2>5. QED
    BY <1>2, <2>1, <2>3, <2>4, KeepsRecord DEF RecordStep, OnTrack, Underway
<1>7. QED
  BY <1>4, <1>5, <1>6 DEF RestoreState, LeaveUntouched

LEMMA RestartedTrack ==
  ASSUME Typed, RecordInv, NEW j \in Jobs, NEW i \in Instances, Claimed(j), Reserved, Restarted(j, i)
  PROVE  RecordStep(j)
<1>1. DataShape /\ OnTrack(j)
  BY TypedShape DEF RecordInv
<1>2. /\ Underway /\ host' = host /\ Next1(i, job[j].todo) /\ job[j].undo /\ job[j].pc \in Starting
      /\ JournalCovers /\ Restores(j)
  BY DEF Restarted, Underway, Reserved, At, Starting, RecordInv, Restores
<1>3. CASE FailInstance(j, i, inst[i], "tree", "finish")
  <2>1. DOMAIN inst[i] = InstFields
    BY <1>1 DEF DataShape
  <2>2. QED
    BY <1>1, <1>2, <1>3, <2>1, FailTrack DEF JournalCovers
<1>4. CASE /\ inst' = [inst EXCEPT ![i].status = "running"]
           /\ log' = [log EXCEPT ![i].rollback = "ok"]
           /\ Passed(j, i, job[j].failed, "tree", "finish")
  <2>1. SameHost
    BY <1>1, <1>2, <1>4 DEF SameHost, DataShape, InstFields
  <2>2. QED
    BY <1>1, <1>2, <1>4, <2>1, RestoredTrack
<1>5. QED
  BY <1>3, <1>4 DEF Restarted

-----------------------------------------------------------------------------
\* What is half done is in the journal.
LEMMA CrashTrack ==
  ASSUME Typed, RecordInv, NEW j \in Jobs, Claimed(j), Reserved, Crash(j)
  PROVE  RecordStep(j)
<1>1. DataShape /\ OnTrack(j)
  BY TypedShape DEF RecordInv
<1>2. log' = log /\ host' = host /\ op' = op /\ \A i \in Instances : inst'[i] \in CutShort(j, i)
  BY DEF Crash
<1>3. job'[j].pc = ""
  <2>1. job' = [job EXCEPT ![j] = NoExecution]
    BY DEF Crash
  <2>2. QED
    BY <1>1, <2>1, NoExecutionFields DEF DataShape
<1>4. ASSUME NEW i \in Instances
      PROVE  /\ \/ inst'[i].tree = inst[i].tree
                \/ log[i].convert # "" /\ ~RolledBack(i)
             /\ \/ inst'[i].files = inst[i].files
                \/ log[i].configure # "" /\ ~RolledBack(i)
  <2>1. DOMAIN inst[i] = InstFields
    BY <1>1 DEF DataShape
  <2>2. CASE inst'[i] = inst[i]
    BY <2>2
  <2>3. CASE \E s : inst'[i] = [inst[i] EXCEPT !.svc = s]
    BY <2>1, <2>3 DEF InstFields
  <2>4. CASE /\ log[i].convert # "" /\ ~RolledBack(i)
             /\ \E t : inst'[i] = [inst[i] EXCEPT !.tree = t]
    BY <2>1, <2>4 DEF InstFields
  <2>5. CASE /\ Next1(i, job[j].todo) /\ job[j].pc \in {"playing", "restoring"}
             /\ \E f : inst'[i] = [inst[i] EXCEPT !.files = f]
    <3>1. inst'[i].tree = inst[i].tree
      BY <2>1, <2>5 DEF InstFields
    <3>2. CASE job[j].pc = "playing"
      BY <1>1, <2>5, <3>1, <3>2 DEF OnTrack, OneWay, Forward, RolledBack
    <3>3. CASE job[j].pc = "restoring"
      <4>1. Restores(j)
        BY <3>3 DEF Restores
      <4>2. log[i].configure # "" /\ ~RolledBack(i)
        BY <1>1, <2>5, <3>3, <4>1, RestoringFacts
      <4>3. QED
        BY <3>1, <4>2
    <3>4. QED
      BY <2>5, <3>2, <3>3
  <2>6. QED
    <3>1. inst'[i] \in CutShort(j, i)
      BY <1>2
    <3>2. QED
      BY <2>2, <2>3, <2>4, <2>5, <3>1 DEF CutShort
<1>5. JournalCovers' /\ BackInv'
  <2>1. Reserved' /\ \A i \in Instances : RolledBack(i)' = RolledBack(i)
    BY <1>2 DEF Reserved, RolledBack
  <2>2. JournalCovers'
    BY <1>2, <1>4 DEF RecordInv, JournalCovers
  <2>3. BackInv'
    BY <1>4, <2>1 DEF RecordInv, BackInv, On
  <2>4. QED
    BY <2>2, <2>3
<1>6. EndInv' /\ PreInv' /\ Reserved'
  BY <1>2 DEF RecordInv, EndInv, PreInv, Unmarked, Reserved
<1>7. QED
  BY <1>3, <1>5, <1>6 DEF RecordStep

LEMMA ClaimedTrack ==
  ASSUME Typed, SoleInv, NoStall, RecordInv, NEW j \in Jobs, Claimed(j), Reserved, WorkAction(j)
  PROVE  RecordStep(j)
<1>1. CASE Push(j) \/ Begin(j)
  <2>1. job[j].pc = ""
    BY <1>1 DEF Push, Begin, Typed, IndInv, JobInv
  <2>2. QED
    BY <2>1 DEF Claimed, Unclaimed
<1>2. CASE TakeLocks(j) \/ LocksRefused(j) \/ Superseded(j)
  BY <1>2, TakeLocksTrack, LocksRefusedTrack, SupersededTrack
<1>3. CASE ForwardStep(j)
  <2>1. CASE \/ Validate(j) \/ Snapshot(j) \/ Recheck(j) \/ Cancel(j)
             \/ BeginStep(j) \/ Install(j) \/ Succeed(j)
    BY <2>1, ValidateTrack, SnapshotTrack, RecheckTrack, CancelTrack, BeginStepTrack, InstallTrack,
       SucceedTrack
  <2>2. CASE \E i \in Instances : StopAsk(j, i) \/ Stopped(j, i) \/ StopVerify(j, i)
    BY <2>2, StopAskTrack, StoppedTrack, StopVerifyTrack
  <2>3. CASE \E i \in Instances : SwapAsk(j, i) \/ Swap(j, i) \/ ConfigureAsk(j, i)
    BY <2>3, SwapAskTrack, SwapTrack, ConfigureAskTrack
  <2>4. CASE \E i \in Instances : PlayBegins(j, i) \/ Configure(j, i) \/ StartAsk(j, i)
    BY <2>4, PlayBeginsTrack, ConfigureTrack, StartAskTrack
  <2>5. CASE \E i \in Instances : Started(j, i) \/ StartVerify(j, i)
    BY <2>5, StartedTrack, StartVerifyTrack
  <2>6. QED
    BY <1>3, <2>1, <2>2, <2>3, <2>4, <2>5 DEF ForwardStep
<1>4. CASE ServiceStep(j)
  BY <1>4, ServiceBeginsTrack, ServiceRunsTrack DEF ServiceStep
<1>5. CASE RollbackStep(j)
  <2>1. CASE Rollback(j) \/ RestoreRuntime(j) \/ Finish(j) \/ Finalize(j)
    BY <2>1, RollbackTrack, RestoreRuntimeTrack, FinishTrack, FinalizeTrack
  <2>2. CASE \E i \in Instances : Quiesce(j, i) \/ Quiesced(j, i) \/ Reverify(j, i) \/ RestoreTree(j, i)
    BY <2>2, QuiesceTrack, ReverifyTrack, RestoreTreeTrack
  <2>3. CASE \E i \in Instances : FilesAsk(j, i) \/ RestoreFiles(j, i)
    BY <2>3, FilesAskTrack, RestoreFilesTrack
  <2>4. CASE \E i \in Instances : RestoreState(j, i) \/ Restarted(j, i)
    BY <2>4, RestoreStateTrack, RestartedTrack
  <2>5. QED
    BY <1>5, <2>1, <2>2, <2>3, <2>4 DEF RollbackStep
<1>6. CASE Release(j)
  <2>1. DataShape
    BY TypedShape
  <2>2. job'[j].pc = ""
    BY <1>6, <2>1, NoExecutionFields DEF Release, DataShape
  <2>3. SameHost /\ SameJournal /\ Underway
    BY <1>6 DEF Release, SameHost, SameJournal, Underway, Reserved
  <2>4. QED
    BY <2>2, <2>3, KeepsRecord DEF RecordStep, Underway
<1>7. CASE WorkerFault(j)
  <2>1. ~Stall(j)
    BY DEF Stall, Spend, NoStall
  <2>2. QED
    BY <1>7, <2>1, StepFailsTrack, InterruptedTrack, CrashTrack DEF WorkerFault
<1>8. QED
  BY <1>1, <1>2, <1>3, <1>4, <1>5, <1>6, <1>7 DEF WorkAction

\* Who is not at work on the operation changes nothing.
LEMMA IdleTrack ==
  ASSUME Typed, SoleInv, NoStall, NEW j \in Jobs, ~(Claimed(j) /\ Reserved), WorkAction(j)
  PROVE  UNCHANGED <<log, inst, host>> /\ op'.state = op.state
<1> IndInv /\ DataShape
  BY TypedShape DEF Typed
<1>1. QuietAction(j)
  <2>1. ~Busy(j)
    BY DEF Busy, SoleInv, Harmless, Claimed
  <2>2. QED
    BY <2>1, WorkerSole
<1>2. DOMAIN op = RowFields
  BY DEF IndInv, Shape
<1>3. CASE Push(j) \/ Begin(j) \/ TakeLocks(j) \/ LocksRefused(j)
  BY <1>3 DEF Push, Begin, TakeLocks, LocksRefused
<1>4. CASE Cancel(j) \/ Rollback(j)
  <2>1. Owns(j) /\ job[j].pc \notin Unclaimed
    BY <1>4 DEF Cancel, Rollback, Fence, At, Unclaimed
  <2>2. Claimed(j)
    BY <2>1, Worker
  <2>3. CASE Cancel(j)
    BY <2>1, <2>2, <2>3 DEF Cancel, At, IndInv, OwnerInv, Early, Reserved, Nonterminal
  <2>4. CASE Rollback(j)
    BY <2>2, <2>4 DEF Rollback, Fence
  <2>5. QED
    BY <1>4, <2>3, <2>4
<1>5. CASE Finalize(j) \/ Superseded(j) \/ Release(j)
  BY <1>5 DEF Finalize, Superseded, Release
<1>6. CASE Interrupted(j)
  BY <1>2, <1>6 DEF Interrupted, RowFields
<1>7. CASE Crash(j)
  <2>1. job[j].pc \in Unclaimed \cup Quiet
    BY DEF SoleInv, Harmless, Claimed
  <2>2. \A i \in Instances : CutShort(j, i) = {inst[i]}
    BY <2>1 DEF CutShort, Unclaimed, Quiet
  <2>3. inst' = [i \in Instances |-> inst'[i]] /\ \A i \in Instances : inst'[i] \in CutShort(j, i)
    BY <1>7 DEF Crash
  <2>4. inst = [i \in Instances |-> inst[i]]
    BY DEF Typed, TypeInv, TypeOK
  <2>5. \A i \in Instances : inst'[i] = inst[i]
    BY <2>2, <2>3
  <2>6. inst' = inst
    BY <2>3, <2>4, <2>5
  <2>7. QED
    BY <1>7, <2>6 DEF Crash
<1>8. QED
  BY <1>1, <1>3, <1>4, <1>5, <1>6, <1>7 DEF QuietAction

\* What cleans up a preparation has nothing to do with the host.
LEMMA TidyTrack ==
  ASSUME NEW j \in Jobs, job[j].undo, job[j].pc \in {"lock", "cancel", "release"}
  PROVE  OnTrack(j)
BY DEF OnTrack, OneWay, Forward, Back, Early, Restoring, Starting

LEMMA WorkRecord ==
  ASSUME Typed, SoleInv, NoStall, RecordInv, NEW j \in Jobs, WorkAction(j)
  PROVE  RecordInv' /\ (Reserved' \/ SameHost) /\ (Reserved' => Reserved)
<1>1. WorkStep(j) /\ IndInv
  BY WorkerWorks DEF WorkAction, Typed
<1>2. \A k \in Jobs \ {j} : job'[k] = job[k]
  BY <1>1 DEF WorkStep, JobStep
<1>3. Reserved' => Reserved
  BY <1>1 DEF WorkStep, RowStep
<1>4. \A k \in Jobs : Claimed(k)' /\ Reserved' => Claimed(k) /\ Reserved
  BY <1>1, <1>3, WorkStepJobs
<1>5. CASE Claimed(j) /\ Reserved
  <2>1. RecordStep(j)
    BY <1>5, ClaimedTrack
  <2>2. ASSUME NEW k \in Jobs, Claimed(k)', Reserved'
        PROVE  OnTrack(k)'
    <3>1. CASE k = j
      BY <2>1, <2>2, <3>1 DEF RecordStep, Claimed, Unclaimed
    <3>2. CASE k # j
      <4>1. Claimed(k) /\ Reserved /\ ~Alone(k)
        BY <1>4, <1>5, <2>2, <3>2 DEF Alone
      <4>2. Tidying(k)
        BY <4>1 DEF SoleInv
      <4>3. job'[k].undo /\ job'[k].pc \in {"lock", "cancel", "release"}
        BY <1>2, <3>2, <4>2 DEF Tidying
      <4>4. QED
        BY <4>3 DEF OnTrack, OneWay, Forward, Back, Early, Restoring, Starting
    <3>3. QED
      BY <3>1, <3>2
  <2>3. QED
    BY <1>3, <2>1, <2>2 DEF RecordInv, RecordStep
<1>6. CASE ~(Claimed(j) /\ Reserved)
  <2>1. UNCHANGED <<log, inst, host>> /\ op'.state = op.state
    BY <1>6, IdleTrack
  <2>2. ASSUME NEW k \in Jobs, Claimed(k)', Reserved'
        PROVE  OnTrack(k)'
    <3>1. k # j /\ Claimed(k) /\ Reserved
      BY <1>4, <1>6, <2>2
    <3>2. OnTrack(k) /\ job'[k] = job[k]
      BY <1>2, <3>1 DEF RecordInv
    <3>3. OneWay(k)'
      BY <2>1, <3>2 DEF OnTrack, OneWay
    <3>4. Forward(k)'
      BY <2>1, <3>2 DEF OnTrack, Forward
    <3>5. Back(k)'
      BY <2>1, <3>2 DEF OnTrack, Back, RolledBack
    <3>6. QED
      BY <3>3, <3>4, <3>5 DEF OnTrack
  <2>3. JournalCovers' /\ EndInv' /\ PreInv' /\ BackInv' /\ SameHost
    BY <2>1 DEF RecordInv, JournalCovers, EndInv, PreInv, Unmarked, BackInv, RolledBack, On, Reserved, SameHost
  <2>4. QED
    BY <1>3, <2>2, <2>3 DEF RecordInv
<1>7. QED
  BY <1>5, <1>6

-----------------------------------------------------------------------------
(* The others.                                                             *)

LEMMA SameRecord ==
  ASSUME RecordInv, SameHost, log' = log, op'.state = op.state,
         \A k \in Jobs : Claimed(k)' => /\ Claimed(k)
                                        /\ job'[k] = job[k]
  PROVE  RecordInv'
<1>1. Reserved' = Reserved
  BY DEF Reserved
<1>2. JournalCovers' /\ EndInv' /\ PreInv' /\ BackInv'
  BY <1>1 DEF RecordInv, SameHost, JournalCovers, EndInv, PreInv, Unmarked, BackInv, RolledBack, On
<1>3. ASSUME NEW k \in Jobs, Claimed(k)', Reserved'
      PROVE  OnTrack(k)'
  <2>1. OnTrack(k) /\ job'[k] = job[k]
    BY <1>1, <1>3 DEF RecordInv
  <2>2. OneWay(k)'
    BY <2>1 DEF OnTrack, OneWay
  <2>3. Forward(k)'
    BY <2>1 DEF OnTrack, Forward, SameHost
  <2>4. Back(k)'
    BY <2>1 DEF OnTrack, Back, RolledBack, SameHost
  <2>5. QED
    BY <2>2, <2>3, <2>4 DEF OnTrack
<1>4. QED
  BY <1>2, <1>3 DEF RecordInv

LEMMA ReserveRecord ==
  ASSUME Typed, RecordInv, Reserve
  PROVE  RecordInv' /\ SameHost /\ Reserved' /\ ~Reserved /\ host.runtime = "minqlx"
<1>1. DataShape /\ ~Reserved /\ host.runtime = "minqlx"
  BY TypedShape DEF Reserve, Eligible
<1>2. SameHost
  BY <1>1 DEF Reserve, SameHost, DataShape
<1>3. op'.state = "preparing" /\ Reserved'
  BY DEF Reserve, Reserved, Nonterminal
<1>4. \A i \in Instances : Unmarked(i)'
  BY DEF Reserve, NoOutcome, Unmarked
<1>5. \A i \in Instances : inst'[i].tree = "minqlx" /\ inst'[i].files = "minqlx"
  BY <1>1, <1>2 DEF RecordInv, EndInv, On, SameHost
<1>6. \A j \in Jobs : ~Claimed(j)'
  <2>1. op.id \in Nat /\ op'.id = op.id + 1 /\ job' = job
        /\ \A j \in Jobs : job[j].of \in Nat /\ job[j].of <= op.id
    BY DEF Reserve, Typed, IndInv, Shape, JobInv
  <2>2. QED
    BY <2>1 DEF Claimed, Live
<1>7. JournalCovers' /\ EndInv' /\ PreInv' /\ BackInv'
  BY <1>1, <1>2, <1>3, <1>4, <1>5 DEF JournalCovers, EndInv, PreInv, BackInv, RolledBack, Unmarked, SameHost
<1>8. QED
  BY <1>1, <1>2, <1>3, <1>6, <1>7 DEF RecordInv

LEMMA ClaimRecord ==
  ASSUME Typed, RecordInv, NEW j \in Jobs, Claim(j)
  PROVE  RecordInv'
<1>1. DataShape /\ job[j].pc = "claim"
  BY TypedShape DEF Claim, At
<1>2. log' = log /\ inst' = inst /\ host' = host /\ op'.state = op.state /\ op'.id = op.id
  BY <1>1 DEF Claim, DataShape, RowFields
<1>3. \A k \in Jobs \ {j} : job'[k] = job[k]
  BY <1>1 DEF Claim, DataShape
<1>4. JournalCovers' /\ EndInv' /\ PreInv' /\ BackInv' /\ Reserved' = Reserved
  BY <1>2 DEF RecordInv, JournalCovers, EndInv, PreInv, Unmarked, BackInv, RolledBack, On, Reserved
<1>5. ASSUME NEW k \in Jobs, Claimed(k)', Reserved'
      PROVE  OnTrack(k)'
  <2>1. CASE k # j
    <3>1. job'[k] = job[k] /\ OnTrack(k)
      BY <1>2, <1>3, <1>4, <1>5, <2>1 DEF RecordInv, Claimed, Live
    <3>2. OneWay(k)'
      BY <1>2, <3>1 DEF OnTrack, OneWay
    <3>3. Forward(k)'
      BY <1>2, <3>1 DEF OnTrack, Forward
    <3>4. Back(k)'
      BY <1>2, <3>1 DEF OnTrack, Back, RolledBack
    <3>5. QED
      BY <3>2, <3>3, <3>4 DEF OnTrack
  <2>2. CASE k = j
    <3>1. Owns(j)
      <4>1. SUFFICES ASSUME ~Owns(j) PROVE ~Claimed(j)'
        BY <1>5, <2>2
      <4>2. job'[j] = NoExecution
        BY <1>1, <4>1 DEF Claim, DataShape
      <4>3. QED
        BY <4>2, NoExecutionFields DEF Claimed, Live
    <3>2. job'[j].pc = "lock" /\ job'[j].undo = job[j].undo
      BY <1>1, <3>1 DEF Claim, DataShape, JobFields
    <3>3. ~job[j].undo => op.state = "preparing"
      BY <1>1, <3>1 DEF Typed, IndInv, OwnerInv
    <3>4. ~job[j].undo => \A i \in Instances : log[i].rollback = ""
      BY <3>3 DEF RecordInv, PreInv, Unmarked
    <3>5. QED
      BY <1>2, <2>2, <3>2, <3>4 DEF OnTrack, OneWay, Forward, Back,
         Opening, Swapping, Playing, Closing, Stopping, Starting, Restoring
  <2>3. QED
    BY <2>1, <2>2
<1>6. QED
  BY <1>4, <1>5 DEF RecordInv

\* A job that is made has not begun.
LEMMA NewExecution ==
  ASSUME Typed, NEW j \in Jobs, RouteAssigns(j) \/ HandOver(j)
  PROVE  job'[j].pc = ""
<1>1. DOMAIN job = Jobs
  BY TypedShape DEF DataShape
<1>2. CASE RouteAssigns(j)
  <2>1. job' = [job EXCEPT ![j] = [NoExecution EXCEPT !.rq = "assigned", !.of = op.id]]
    BY <1>2 DEF RouteAssigns
  <2>2. [NoExecution EXCEPT !.rq = "assigned", !.of = op.id].pc = ""
    BY DEF NoExecution
  <2>3. QED
    BY <1>1, <2>1, <2>2
<1>3. CASE HandOver(j)
  <2>1. job' = [job EXCEPT ![j] = [NoExecution EXCEPT !.rq = "assigned", !.of = op.id,
                                                     !.task = "recover"]]
    BY <1>3 DEF HandOver
  <2>2. [NoExecution EXCEPT !.rq = "assigned", !.of = op.id, !.task = "recover"].pc = ""
    BY DEF NoExecution
  <2>3. QED
    BY <1>1, <2>1, <2>2
<1>4. QED
  BY <1>2, <1>3

LEMMA NewRecord ==
  ASSUME Typed, RecordInv, NEW j \in Jobs, RouteAssigns(j) \/ HandOver(j) \/ Enter(j)
  PROVE  RecordInv' /\ SameHost /\ Reserved' = Reserved
<1>1. DataShape
  BY TypedShape
<1>2. log' = log /\ SameHost /\ op'.state = op.state /\ op'.id = op.id /\ Reserved' = Reserved
  BY <1>1 DEF RouteAssigns, HandOver, Enter, SameHost, DataShape, RowFields, Reserved
<1>3. \A k \in Jobs \ {j} : job'[k] = job[k]
  BY <1>1 DEF RouteAssigns, HandOver, Enter, DataShape
<1>4. job'[j].pc \in Unclaimed
  <2>1. CASE RouteAssigns(j) \/ HandOver(j)
    BY <2>1, NewExecution DEF Unclaimed
  <2>2. CASE Enter(j)
    <3>1. CASE job' = [job EXCEPT ![j] = NoExecution]
      BY <1>1, <3>1, NoExecutionFields DEF DataShape, Unclaimed
    <3>2. CASE job' # [job EXCEPT ![j] = NoExecution]
      <4>1. PICK b : job' = [job EXCEPT ![j].pc = "claim", ![j].token = op.token, ![j].undo = b]
        BY <2>2, <3>2 DEF Enter
      <4>2. job'[j].pc = "claim"
        BY <1>1, <4>1 DEF DataShape, JobFields
      <4>3. QED
        BY <4>2 DEF Unclaimed
    <3>3. QED
      BY <3>1, <3>2
  <2>3. QED
    BY <2>1, <2>2
<1>5. \A k \in Jobs : Claimed(k)' => Claimed(k) /\ job'[k] = job[k]
  BY <1>2, <1>3, <1>4 DEF Claimed, Live
<1>6. QED
  BY <1>2, <1>5, SameRecord

LEMMA OthersRecord ==
  ASSUME Typed, RecordInv, SameHost, UNCHANGED <<log, op, job>>
  PROVE  RecordInv' /\ SameHost /\ Reserved' = Reserved
<1>1. \A k \in Jobs : Claimed(k)' => Claimed(k) /\ job'[k] = job[k]
  BY DEF Claimed, Live
<1>2. QED
  BY <1>1, SameRecord DEF Reserved

\* What a user changes are services and statuses.
LEMMA UsersSameHost ==
  ASSUME Typed, NEW u \in Users, UserStep(u)
  PROVE  SameHost /\ UNCHANGED <<log, op, job>>
<1>1. DataShape
  BY TypedShape
<1>2. CASE Works(u)
  BY <1>1, <1>2 DEF Works, SameHost, DataShape, InstFields
<1>3. CASE WorkEnds(u)
  BY <1>1, <1>3 DEF WorkEnds, SameHost, DataShape, InstFields
<1>4. CASE Refused(u)
  BY <1>4 DEF Refused, SameHost
<1>5. QED
  BY <1>2, <1>3, <1>4 DEF UserStep

LEMMA RecordInit == Init => RecordInv
<1> SUFFICES ASSUME Init PROVE RecordInv
  OBVIOUS
<1>1. ~Reserved /\ op.state = "none" /\ host.runtime = "minqlx"
  BY DEF Init, Reserved, Nonterminal
<1>2. \A i \in Instances : inst[i].tree = "minqlx" /\ inst[i].files = "minqlx"
  BY DEF Init
<1>3. QED
  BY <1>1, <1>2 DEF RecordInv, JournalCovers, EndInv, PreInv, BackInv, On

LEMMA RecordNext ==
  ASSUME Typed, SoleInv, NoStall, RecordInv, [Next]_vars
  PROVE  RecordInv'
<1>1. CASE Reserve \/ \E j \in Jobs : RouteAssigns(j) \/ HandOver(j) \/ Enter(j) \/ Claim(j)
  BY <1>1, ReserveRecord, NewRecord, ClaimRecord
<1>2. CASE \E j \in Jobs : WorkAction(j)
  BY <1>2, WorkRecord
<1>3. CASE RouteLocks \/ RouteUnlocks \/ RouteGivesUp \/ \E e \in Entities : LocksExpire(e)
  BY <1>3, OthersRecord DEF RouteLocks, RouteUnlocks, RouteGivesUp, LocksExpire, SameHost
<1>4. CASE \E u \in Users : UserStep(u) \/ \E i \in Instances : Guard(u, i)
  <2>1. CASE \E u \in Users : UserStep(u)
    BY <2>1, UsersSameHost, OthersRecord
  <2>2. CASE \E u \in Users, i \in Instances : Guard(u, i)
    BY <2>2, OthersRecord DEF Guard, SameHost
  <2>3. QED
    BY <1>4, <2>1, <2>2
<1>5. CASE BackupLocks \/ BackupStep
  BY <1>5, OthersRecord DEF BackupLocks, BackupStep, RestoreBackup, BackupEnds, SameHost
<1>6. CASE UNCHANGED vars
  BY <1>6, OthersRecord DEF vars, SameHost
<1>7. QED
  BY <1>1, <1>2, <1>3, <1>4, <1>5, <1>6 DEF Next, RouteStep, WorkerStep, WorkAction

\* Beside the sole execution, journal and host agree at each point of its way
\* forward (_run, host_runtime_upgrade.py:345) or back (host_runtime_upgrade_rollback.py).
THEOREM UpgradeInvariant ==
  ASSUME NoStall
  PROVE  Spec => [](SoleInv /\ LocksHeld /\ RecordInv)
<1>1. IndInv /\ TypeInv /\ SoleInv /\ RecordInv /\ [Next]_vars => RecordInv'
  BY RecordNext DEF Typed
<1>2. IndInv /\ TypeInv /\ [Next]_vars => TypeInv'
  BY TypeNext DEF Typed
<1>3. QED
  BY RecordInit, TypeInit, SoleWorker, Invariance, <1>1, <1>2, PTL DEF Spec

\* The journal never understates what was done to the host
\* (host_runtime_upgrade.py records each intent before its side effect).
THEOREM JournalSuffices ==
  ASSUME NoStall
  PROVE  Spec => []JournalCovers
<1>1. RecordInv => JournalCovers
  BY DEF RecordInv
<1>2. QED
  BY <1>1, UpgradeInvariant, PTL

-----------------------------------------------------------------------------
(* The refinement of AtomicUpgrade.                                        *)

\* Its variable runtime, as the instance maps it.
Runtimes ==
    [i \in Instances |->
        IF inst[i].tree = host.runtime /\ inst[i].files = host.runtime
        THEN host.runtime ELSE "between"]

AtomicStep == [Atomic!Next]_Atomic!atomicVars

\* The ways to take a step that AtomicUpgrade knows.
UpgradeStep ==
    \/ (Reserved' <=> Reserved) /\ SameHost
    \/ Reserved /\ Reserved'
    \/ ~Reserved /\ Reserved' /\ SameHost /\ host.runtime = "minqlx"
    \/ Reserved /\ ~Reserved' /\ SameHost

LEMMA NextUpgradeStep ==
  ASSUME Typed, SoleInv, NoStall, RecordInv, [Next]_vars
  PROVE  UpgradeStep
<1>1. CASE Reserve \/ \E j \in Jobs : RouteAssigns(j) \/ HandOver(j) \/ Enter(j)
  BY <1>1, ReserveRecord, NewRecord DEF UpgradeStep
<1>2. CASE \E j \in Jobs : Claim(j)
  <2>1. PICK j \in Jobs : Claim(j)
    BY <1>2
  <2>2. op'.state = op.state /\ inst' = inst /\ host' = host
    BY <2>1, TypedShape DEF Claim, DataShape, RowFields
  <2>3. QED
    BY <2>2 DEF UpgradeStep, Reserved, SameHost
<1>3. CASE \E j \in Jobs : WorkAction(j)
  <2>1. PICK j \in Jobs : WorkAction(j)
    BY <1>3
  <2>2. (Reserved' \/ SameHost) /\ (Reserved' => Reserved)
    BY <2>1, WorkRecord
  <2>3. QED
    BY <2>2 DEF UpgradeStep
<1>4. CASE RouteLocks \/ RouteUnlocks \/ RouteGivesUp \/ \E e \in Entities : LocksExpire(e)
  BY <1>4 DEF RouteLocks, RouteUnlocks, RouteGivesUp, LocksExpire, SameHost, UpgradeStep, Reserved
<1>5. CASE \E u \in Users : UserStep(u) \/ \E i \in Instances : Guard(u, i)
  <2>1. CASE \E u \in Users : UserStep(u)
    BY <2>1, UsersSameHost DEF UpgradeStep, Reserved
  <2>2. CASE \E u \in Users, i \in Instances : Guard(u, i)
    BY <2>2 DEF Guard, SameHost, UpgradeStep, Reserved
  <2>3. QED
    BY <1>5, <2>1, <2>2
<1>6. CASE BackupLocks \/ BackupStep
  BY <1>6 DEF BackupLocks, BackupStep, RestoreBackup, BackupEnds, SameHost, UpgradeStep, Reserved
<1>7. CASE UNCHANGED vars
  BY <1>7 DEF vars, SameHost, UpgradeStep, Reserved
<1>8. QED
  BY <1>1, <1>2, <1>3, <1>4, <1>5, <1>6, <1>7 DEF Next, RouteStep, WorkerStep, WorkAction

LEMMA UpgradeIsAtomic ==
  ASSUME Typed, TypeInv', RecordInv, RecordInv', UpgradeStep
  PROVE  AtomicStep
<1>1. host.runtime \in {"minqlx", "minqlxtended"} /\ host'.runtime \in {"minqlx", "minqlxtended"}
  BY DEF Typed, TypeInv, TypeOK
<1>2. SameHost => Runtimes' = Runtimes
  BY DEF SameHost, Runtimes
<1>3. CASE (Reserved' <=> Reserved) /\ SameHost
  <2>1. Reserved' = Reserved
    BY <1>3 DEF Reserved
  <2>2. UNCHANGED Atomic!atomicVars
    BY <1>2, <1>3, <2>1 DEF Atomic!atomicVars, Runtimes
  <2>3. QED
    BY <2>2 DEF AtomicStep
<1>4. CASE Reserved /\ Reserved'
  <2>1. Runtimes' \in [Instances -> Atomic!Runtime]
    BY <1>1 DEF Runtimes, Atomic!Runtime
  <2>2. Reserved' = Reserved
    BY <1>4 DEF Reserved
  <2>3. Atomic!Work
    BY <1>4, <2>1, <2>2 DEF Atomic!Work, Runtimes
  <2>4. QED
    BY <2>3 DEF AtomicStep, Atomic!Next
<1>5. CASE ~Reserved /\ Reserved' /\ SameHost /\ host.runtime = "minqlx"
  <2>1. Runtimes = Atomic!All("minqlx")
    BY <1>5 DEF RecordInv, EndInv, On, Runtimes, Atomic!All
  <2>2. Reserved' = TRUE
    BY <1>5 DEF Reserved
  <2>3. Atomic!Reserve
    BY <1>2, <1>5, <2>1, <2>2 DEF Atomic!Reserve, Runtimes
  <2>4. QED
    BY <2>3 DEF AtomicStep, Atomic!Next
<1>6. CASE Reserved /\ ~Reserved' /\ SameHost
  <2>1. Runtimes' = Atomic!All(host'.runtime)
    BY <1>6 DEF RecordInv, EndInv, On, Runtimes, Atomic!All
  <2>2. Runtimes = Atomic!All(host.runtime)
    BY <1>2, <1>6, <2>1 DEF SameHost, Atomic!All
  <2>3. Reserved' = FALSE
    BY <1>6 DEF Reserved
  <2>4. Atomic!Finish
    BY <1>1, <1>2, <1>6, <2>2, <2>3 DEF Atomic!Finish, Runtimes
  <2>5. QED
    BY <2>4 DEF AtomicStep, Atomic!Next
<1>7. QED
  BY <1>3, <1>4, <1>5, <1>6 DEF UpgradeStep

\* An upgrade is atomic to whoever looks at the host between upgrades: all of it
\* moves to the new runtime or all of it stays on the old one
\* (host_runtime_upgrade.py:1-26).
THEOREM UpgradeAtomic ==
  ASSUME NoStall
  PROVE  Spec => AtomicSpec
<1>1. Init => Atomic!Init
  <2> SUFFICES ASSUME Init PROVE Atomic!Init
    OBVIOUS
  <2>1. Reserved = FALSE /\ host.runtime = "minqlx"
    BY DEF Init, Reserved, Nonterminal
  <2>2. \A i \in Instances : inst[i].tree = "minqlx" /\ inst[i].files = "minqlx"
    BY DEF Init
  <2>3. Runtimes = Atomic!All("minqlx")
    BY <2>1, <2>2 DEF Runtimes, Atomic!All
  <2>4. QED
    BY <2>1, <2>3 DEF Atomic!Init, Runtimes
<1>2. IndInv /\ TypeInv /\ SoleInv /\ RecordInv /\ RecordInv' /\ TypeInv' /\ [Next]_vars => AtomicStep
  BY NextUpgradeStep, UpgradeIsAtomic DEF Typed
<1>3. IndInv /\ TypeInv /\ [Next]_vars => TypeInv'
  BY TypeNext DEF Typed
<1>4. QED
  BY TypeInit, Invariance, UpgradeInvariant, <1>1, <1>2, <1>3, PTL
     DEF Spec, AtomicSpec, Atomic!Spec, AtomicStep

-----------------------------------------------------------------------------
(* Which services run while files are changed.                             *)

SameServing ==
    /\ meddled' = meddled
    /\ \A i \in Instances : /\ inst'[i].svc = inst[i].svc
                            /\ inst'[i].tree = inst[i].tree /\ inst'[i].files = inst[i].files

OthersServe(i) ==
    /\ meddled' = meddled
    /\ \A k \in Instances \ {i} : inst'[k] = inst[k] /\ log'[k] = log[k]

StillStep(j) == RunsOneRuntime' /\ (job'[j].pc = "" \/ StillTrack(j)')

\* An execution at work, and what is known of it.
Ready(j) ==
    /\ DataShape /\ RecordInv /\ RunsOneRuntime /\ Reserved
    /\ OnTrack(j) /\ StillTrack(j)

LEMMA IsReady ==
  ASSUME Typed, RecordInv, StillInv, NEW j \in Jobs, Claimed(j), Reserved
  PROVE  Ready(j)
BY TypedShape DEF RecordInv, StillInv, Ready

LEMMA SameServed ==
  ASSUME RunsOneRuntime, SameServing
  PROVE  RunsOneRuntime'
BY DEF RunsOneRuntime, SameServing

LEMMA OneServed ==
  ASSUME RunsOneRuntime, NEW i \in Instances, OthersServe(i),
         i \notin meddled /\ inst'[i].svc = "active" => Clean(i)'
  PROVE  RunsOneRuntime'
BY DEF RunsOneRuntime, OthersServe, Clean

\* Where nothing is said of the services.
Neutral == {"release", "rollback", "cancel", "validate", "snapshot", "recheck", "finalize", "finish",
            "start", "succeed"}

LEMMA NeutralTrack ==
  ASSUME NEW j \in Jobs, job'[j].pc \in Neutral \/ (~job'[j].undo /\ job'[j].pc \in Starting)
  PROVE  StillTrack(j)'
BY DEF StillTrack, ForwardStill, BackStill, Neutral, Emptying, Emptied, Returning, Stopping, Starting,
       Swapping, Playing

LEMMA NeutralStill ==
  ASSUME NEW j \in Jobs, Ready(j),
         \/ LocksRefused(j) \/ TakeLocks(j) \/ Validate(j) \/ Snapshot(j) \/ Cancel(j) \/ Succeed(j)
         \/ Finish(j) \/ Finalize(j) \/ Superseded(j) \/ Interrupted(j) \/ StepFails(j)
  PROVE  StillStep(j)
<1>1. inst' = inst /\ meddled' = meddled
  BY DEF LocksRefused, TakeLocks, Validate, Snapshot, Cancel, Succeed, Finish, Finalize, Superseded,
         Interrupted, StepFails, clients
<1>2. \E p \in Neutral : Goto(j, p)
  <2>1. CASE LocksRefused(j) \/ TakeLocks(j) \/ Validate(j) \/ Snapshot(j) \/ Cancel(j)
    BY <2>1 DEF LocksRefused, TakeLocks, Validate, Snapshot, Cancel, Neutral
  <2>2. CASE Succeed(j) \/ Finish(j) \/ Finalize(j) \/ Superseded(j) \/ Interrupted(j) \/ StepFails(j)
    BY <2>2 DEF Succeed, Finish, Finalize, Superseded, Interrupted, StepFails, Neutral
  <2>3. QED
    BY <2>1, <2>2
<1>3. job'[j].pc \in Neutral
  BY <1>2, GotoMoves DEF Ready, Moves
<1>4. QED
  BY <1>1, <1>3, NeutralTrack, SameServed DEF StillStep, SameServing, Ready

\* The starts of an upgrade.
LEMMA StartsStill ==
  ASSUME NEW j \in Jobs, Ready(j), NEW i \in Instances,
         StartAsk(j, i) \/ Started(j, i) \/ StartVerify(j, i)
  PROVE  StillStep(j)
<1>1. DataShape /\ ~job[j].undo
  BY DEF Ready, StartAsk, Started, StartVerify, At, OnTrack, OneWay
<1>2. SameServing
  BY <1>1 DEF StartAsk, Started, StartVerify, SameServing, DataShape, InstFields, clients
<1>3. job'[j].undo = job[j].undo /\ job'[j].pc \in Neutral \cup Starting
  BY <1>1, GotoMoves, DoneMoves DEF StartAsk, Started, StartVerify, Moves, Stages, Drops, Neutral, Starting
<1>4. QED
  BY <1>1, <1>2, <1>3, NeutralTrack, SameServed DEF StillStep, Ready

-----------------------------------------------------------------------------
(* Forward: the services stay down until the new runtime is complete.      *)

LEMMA EmptyingStill ==
  ASSUME NEW j \in Jobs, ~job'[j].undo, meddled' = meddled, NEW i \in Instances,
         job[j].pc \in Emptying, ForwardStill(j), ~job[j].undo,
         \A k \in Instances \ {i} : inst'[k].svc = inst[k].svc,
         \/ job'[j].pc \in Emptying /\ job'[j].todo = job[j].todo /\ i \in job[j].todo
         \/ /\ Still(i)'
            /\ \/ job'[j].pc = "stop" /\ job'[j].todo = job[j].todo \ {i}
               \/ job'[j].pc = "install" /\ job[j].todo = {i}
  PROVE  StillTrack(j)'
<1>1. BackStill(j)'
  BY DEF BackStill
<1>2. \A k \in Instances \ (job[j].todo \cup {i}) : Still(k)'
  BY DEF ForwardStill, Still
<1>3. CASE job'[j].pc \in Emptying /\ job'[j].todo = job[j].todo /\ i \in job[j].todo
  <2>1. job'[j].pc \notin Emptied
    BY <1>3 DEF Emptying, Emptied, Stopping, Swapping, Playing
  <2>2. QED
    BY <1>1, <1>2, <1>3, <2>1 DEF StillTrack, ForwardStill
<1>4. CASE Still(i)' /\ job'[j].pc = "stop" /\ job'[j].todo = job[j].todo \ {i}
  BY <1>1, <1>2, <1>4 DEF StillTrack, ForwardStill, Emptied, Swapping, Playing
<1>5. CASE Still(i)' /\ job'[j].pc = "install" /\ job[j].todo = {i}
  BY <1>1, <1>2, <1>5 DEF StillTrack, ForwardStill, Emptying, Stopping
<1>6. QED
  BY <1>3, <1>4, <1>5

LEMMA EmptiedStill ==
  ASSUME NEW j \in Jobs, ~job'[j].undo, meddled' = meddled, ForwardStill(j), ~job[j].undo,
         job[j].pc \in Emptied,
         \A k \in Instances : inst'[k].svc = inst[k].svc,
         job'[j].pc \in Emptied \cup Neutral
  PROVE  StillTrack(j)'
<1>1. BackStill(j)'
  BY DEF BackStill
<1>2. \A k \in Instances : Still(k)'
  BY DEF ForwardStill, Still
<1>3. QED
  BY <1>1, <1>2 DEF StillTrack, ForwardStill

LEMMA RecheckStill ==
  ASSUME NEW j \in Jobs, Ready(j), Recheck(j)
  PROVE  StillStep(j)
<1>1. SameServing /\ DataShape
  BY DEF Recheck, SameServing, Ready, clients
<1>2. CASE Goto(j, "cancel")
  <2>1. job'[j].pc \in Neutral
    BY <1>1, <1>2, GotoMoves DEF Moves, Neutral
  <2>2. QED
    BY <1>1, <2>1, NeutralTrack, SameServed DEF StillStep, Ready
<1>3. CASE Stage(j, "stop")
  <2>1. job[j].pc = "recheck" /\ ~job[j].undo
    BY DEF Recheck, At, Ready, OnTrack, OneWay
  <2>2. job'[j].pc = "stop" /\ ~job'[j].undo /\ job'[j].todo = Instances
    BY <1>1, <1>3, <2>1, StageStages DEF Stages
  <2>3. StillTrack(j)'
    BY <2>2 DEF StillTrack, ForwardStill, BackStill, Emptied, Swapping, Playing
  <2>4. QED
    BY <1>1, <2>3, SameServed DEF StillStep, Ready
<1>4. QED
  BY <1>2, <1>3 DEF Recheck

LEMMA StopAskStill ==
  ASSUME NEW j \in Jobs, Ready(j), NEW i \in Instances, StopAsk(j, i)
  PROVE  StillStep(j)
<1>1. SameServing /\ DataShape /\ job[j].pc = "stop" /\ ~job[j].undo /\ i \in job[j].todo
  BY DEF StopAsk, SameServing, Ready, clients, At, OnTrack, OneWay, Next1
<1>2. job'[j].pc = "stopcall" /\ ~job'[j].undo /\ job'[j].todo = job[j].todo
  BY <1>1, GotoMoves DEF StopAsk, Moves
<1>3. StillTrack(j)'
  BY <1>1, <1>2, EmptyingStill DEF SameServing, Ready, StillTrack, Emptying, Stopping
<1>4. QED
  BY <1>1, <1>3, SameServed DEF StillStep, Ready

\* A service counts as stopped when it was seen to be.
LEMMA StoppedStill ==
  ASSUME NEW j \in Jobs, Ready(j), NEW i \in Instances, Stopped(j, i) \/ StopVerify(j, i)
  PROVE  StillStep(j)
<1>1. DataShape /\ job[j].pc \in Emptying /\ ~job[j].undo
  BY DEF Stopped, StopVerify, Ready, At, OnTrack, OneWay, Emptying, Stopping
<1>2. SameServing
  BY <1>1 DEF Stopped, StopVerify, SameServing, clients, DataShape, InstFields
<1>3. CASE Goto(j, "rollback")
  <2>1. job'[j].pc \in Neutral
    BY <1>1, <1>3, GotoMoves DEF Moves, Neutral
  <2>2. QED
    BY <1>2, <2>1, NeutralTrack, SameServed DEF StillStep, Ready
<1>4. CASE inst[i].svc = "inactive" /\ Done(j, i, "stop", "install")
  <2>1. Still(i)'
    BY <1>2, <1>4 DEF Still, SameServing
  <2>2. \/ job[j].todo = {i} /\ Stages(j, "install")
        \/ job[j].todo # {i} /\ Drops(j, i, "stop")
    BY <1>1, <1>4, DoneMoves
  <2>3. StillTrack(j)'
    BY <1>1, <1>2, <2>1, <2>2, EmptyingStill DEF SameServing, Ready, StillTrack, Stages, Drops
  <2>4. QED
    BY <1>2, <2>3, SameServed DEF StillStep, Ready
<1>5. QED
  BY <1>3, <1>4 DEF Stopped, StopVerify

\* The steps under stopped services that leave files alone.
LEMMA EmptiedSteps ==
  ASSUME NEW j \in Jobs, Ready(j),
         \/ BeginStep(j) \/ Install(j)
         \/ \E i \in Instances : SwapAsk(j, i) \/ ConfigureAsk(j, i)
  PROVE  StillStep(j)
<1>1. DataShape
  BY DEF Ready
<1>2. SameServing
  BY <1>1 DEF BeginStep, Install, SwapAsk, ConfigureAsk, SameServing, clients, DataShape, InstFields
<1>3. job[j].pc \in Emptied /\ ~job[j].undo
  BY DEF BeginStep, Install, SwapAsk, ConfigureAsk, At, Ready, OnTrack, OneWay, Emptied, Swapping, Playing
<1>4. \E p \in Emptied \cup {"rollback"} : Goto(j, p) \/ Stage(j, p)
  BY DEF BeginStep, Install, SwapAsk, ConfigureAsk, Emptied, Swapping, Playing
<1>5. job'[j].undo = job[j].undo /\ job'[j].pc \in Emptied \cup Neutral
  BY <1>1, <1>4, GotoMoves, StageStages DEF Moves, Stages, Neutral
<1>6. StillTrack(j)'
  BY <1>2, <1>3, <1>5, EmptiedStill DEF SameServing, Ready, StillTrack
<1>7. QED
  BY <1>2, <1>6, SameServed DEF StillStep, Ready

\* Trees are exchanged under stopped services, ...
LEMMA SwapStill ==
  ASSUME NEW j \in Jobs, Ready(j), NEW i \in Instances, Swap(j, i)
  PROVE  StillStep(j)
<1>1. DataShape /\ job[j].pc = "swapping" /\ ~job[j].undo /\ meddled' = meddled
  BY DEF Swap, Ready, At, OnTrack, OneWay, clients
<1>2. job[j].pc \in Emptied
  BY <1>1 DEF Emptied, Swapping
<1>3. PICK tree : inst' = [inst EXCEPT ![i].tree = tree]
  BY DEF Swap
<1>4. (\A k \in Instances : inst'[k].svc = inst[k].svc) /\ \A k \in Instances \ {i} : inst'[k] = inst[k]
  BY <1>1, <1>3 DEF DataShape, InstFields
<1>5. Still(i)
  BY <1>1, <1>2 DEF Ready, StillTrack, ForwardStill
<1>6. RunsOneRuntime'
  BY <1>1, <1>4, <1>5 DEF Ready, RunsOneRuntime, Still
<1>7. job'[j].undo = job[j].undo /\ job'[j].pc \in Emptied \cup Neutral
  BY <1>1, GotoMoves, DoneMoves DEF Swap, Moves, Stages, Drops, Emptied, Swapping, Neutral
<1>8. QED
  BY <1>1, <1>2, <1>4, <1>6, <1>7, EmptiedStill DEF StillStep, Ready, StillTrack

\* ... and the host's files are written under a service that was looked at.
LEMMA ConfigureStill ==
  ASSUME NEW j \in Jobs, Ready(j), NEW i \in Instances, Configure(j, i)
  PROVE  StillStep(j)
<1>1. DataShape /\ job[j].pc = "playing" /\ ~job[j].undo /\ meddled' = meddled
  BY DEF Configure, Ready, At, OnTrack, OneWay, clients
<1>2. job[j].pc \in Emptied
  BY <1>1 DEF Emptied, Playing
<1>3. \/ inst' = inst
      \/ inst[i].svc = "inactive" /\ \E files : inst' = [inst EXCEPT ![i].files = files]
  BY DEF Configure
<1>4. /\ \A k \in Instances : inst'[k].svc = inst[k].svc
      /\ \A k \in Instances \ {i} : inst'[k] = inst[k]
      /\ inst[i].svc = "inactive" \/ inst'[i] = inst[i]
  BY <1>1, <1>3 DEF DataShape, InstFields
<1>5. RunsOneRuntime'
  BY <1>1, <1>4 DEF Ready, RunsOneRuntime
<1>6. job'[j].undo = job[j].undo /\ job'[j].pc \in Emptied \cup Neutral
  BY <1>1, GotoMoves, DoneMoves DEF Configure, Moves, Stages, Drops, Emptied, Playing, Neutral
<1>7. QED
  BY <1>1, <1>2, <1>4, <1>5, <1>6, EmptiedStill DEF StillStep, Ready, StillTrack

-----------------------------------------------------------------------------
(* The services.                                                           *)

\* A service that is stopped or started has complete files of one runtime.
LEMMA ServedClean ==
  ASSUME NEW j \in Jobs, Ready(j), NEW i \in Instances \ meddled, Next1(i, job[j].todo),
         job[j].pc \in Stopping \cup Starting
  PROVE  Clean(i)
<1>1. CASE ~job[j].undo /\ job[j].pc \in Stopping
  <2>1. log[i].convert = "" /\ log[i].configure = ""
    BY <1>1 DEF Ready, OnTrack, Forward, Opening
  <2>2. QED
    BY <2>1 DEF Ready, RecordInv, JournalCovers, Clean
<1>2. CASE ~job[j].undo /\ job[j].pc \in Starting
  BY <1>2 DEF Ready, OnTrack, Forward, Closing, Clean
<1>3. CASE job[j].undo /\ job[j].pc \in Stopping
  BY <1>3 DEF Ready, StillTrack, BackStill
<1>4. CASE job[j].undo /\ job[j].pc \in Starting
  <2>1. Restores(j) /\ job[j].pc # "tree"
    BY <1>4 DEF Restores, Starting
  <2>2. inst[i].tree = "minqlx" /\ inst[i].files = "minqlx"
    BY <1>4, <2>1, RestoringFacts DEF Ready
  <2>3. QED
    BY <2>2 DEF Clean
<1>5. QED
  BY <1>1, <1>2, <1>3, <1>4

\* While the next instance is stopped or started, nothing else is known to change.
LEMMA ServiceStays ==
  ASSUME NEW j \in Jobs, Ready(j), NEW i \in Instances, Next1(i, job[j].todo),
         OthersServe(i), log'[i] = log[i], Clean(i) => Clean(i)', NEW p, Moves(j, p),
         \/ job[j].pc \in Stopping /\ p \in Stopping
         \/ job[j].pc \in {"state"} \cup Starting /\ p \in Starting
  PROVE  StillTrack(j)'
<1>1. i \in job[j].todo /\ \A k \in Instances : Next1(k, job'[j].todo) => k = i
  BY OnlyNext DEF Moves, Next1, Ready
<1>2. \A k \in Instances \ {i} : Still(k) => Still(k)'
  BY DEF OthersServe, Still
<1>3. \A k \in Instances : Pending(k)' => Pending(k)
  <2>1. \A k \in Instances : log'[k] = log[k]
    BY DEF OthersServe
  <2>2. QED
    BY <2>1 DEF Pending, Touched, RolledBack
<1>4. CASE job[j].undo /\ p \in Stopping
  <2>1. job[j].pc \in Stopping /\ job'[j].undo /\ job'[j].pc = p
    BY <1>4 DEF Moves, Stopping, Starting
  <2>2. \A k \in Instances \ (job'[j].todo \cup job'[j].failed) :
            Pending(k)' => Still(k)'
    BY <1>1, <1>2, <1>3, <1>4, <2>1 DEF Ready, StillTrack, BackStill, Moves
  <2>3. \A k \in Instances \ meddled' : Next1(k, job'[j].todo) => Clean(k)'
    BY <1>1, <1>4, <2>1 DEF Ready, StillTrack, BackStill, Moves, OthersServe
  <2>4. job'[j].pc \notin {"back", "state"} \cup Returning \cup Starting
    BY <1>4, <2>1 DEF Stopping, Starting, Returning
  <2>5. BackStill(j)'
    BY <2>2, <2>3, <2>4 DEF BackStill
  <2>6. QED
    BY <2>1, <2>5 DEF StillTrack, ForwardStill
<1>5. CASE job[j].undo /\ p \in Starting
  <2>1. job[j].pc \in {"state"} \cup Starting /\ job'[j].undo /\ job'[j].pc = p
    BY <1>5 DEF Moves, Stopping, Starting
  <2>2. \A k \in job'[j].todo : Pending(k)' => Next1(k, job'[j].todo) \/ Still(k)'
    <3>1. job[j].todo \subseteq Instances /\ job'[j].todo = job[j].todo
      BY DEF Ready, DataShape, Moves
    <3>2. QED
      BY <1>2, <1>3, <1>5, <2>1, <3>1 DEF Ready, StillTrack, BackStill
  <2>3. job'[j].pc \notin {"back", "quiesce"} \cup Returning \cup Stopping
    BY <1>5, <2>1 DEF Stopping, Starting, Returning
  <2>4. BackStill(j)'
    BY <2>2, <2>3 DEF BackStill
  <2>5. QED
    BY <2>1, <2>4 DEF StillTrack, ForwardStill
<1>6. CASE ~job[j].undo /\ p \in Stopping
  <2>1. job[j].pc \in Emptying /\ ~job'[j].undo /\ job'[j].pc \in Emptying
        /\ job'[j].todo = job[j].todo
    BY <1>6 DEF Moves, Stopping, Starting, Emptying
  <2>2. QED
    BY <1>1, <1>6, <2>1, EmptyingStill DEF OthersServe, Ready, StillTrack
<1>7. CASE ~job[j].undo /\ p \in Starting
  BY <1>7, NeutralTrack DEF Moves
<1>8. QED
  BY <1>4, <1>5, <1>6, <1>7

LEMMA ServiceBeginsStill ==
  ASSUME NEW j \in Jobs, Ready(j), NEW i \in Instances, ServiceBegins(j, i)
  PROVE  StillStep(j)
<1>1. DataShape /\ Next1(i, job[j].todo) /\ log' = log /\ meddled' = meddled
  BY DEF Ready, ServiceBegins, clients
<1>2. PICK p \in {"stopplay", "startplay"} :
          /\ Goto(j, p)
          /\ job[j].pc = IF p = "stopplay" THEN "stopcall" ELSE "startcall"
          /\ \E s : inst' = [inst EXCEPT ![i].status = s]
  BY DEF ServiceBegins, At
<1>3. Moves(j, p)
  BY <1>1, <1>2, GotoMoves
<1>4. SameServing /\ \A k \in Instances \ {i} : inst'[k] = inst[k]
  BY <1>1, <1>2 DEF SameServing, DataShape, InstFields
<1>5. OthersServe(i) /\ (Clean(i) => Clean(i)')
  BY <1>1, <1>4 DEF OthersServe, SameServing, Clean
<1>6. \/ job[j].pc \in Stopping /\ p \in Stopping
      \/ job[j].pc \in {"state"} \cup Starting /\ p \in Starting
  BY <1>2 DEF Stopping, Starting
<1>7. StillTrack(j)'
  BY <1>1, <1>3, <1>5, <1>6, ServiceStays
<1>8. QED
  BY <1>4, <1>7, SameServed DEF StillStep, Ready

LEMMA ServiceRunsStill ==
  ASSUME NEW j \in Jobs, Ready(j), NEW i \in Instances, ServiceRuns(j, i)
  PROVE  StillStep(j)
<1>1. /\ DataShape /\ Next1(i, job[j].todo) /\ log' = log /\ meddled' = meddled
      /\ job[j].pc \in {"stopplay", "startplay"}
  BY DEF Ready, ServiceRuns, clients, At
<1>2. \E svc, status : inst' = [inst EXCEPT ![i].svc = svc, ![i].status = status]
  BY DEF ServiceRuns
<1>3. \E ok : job' = [job EXCEPT ![j].ok = ok,
                                 ![j].pc = IF @ = "stopplay" THEN "stopped" ELSE "started"]
  BY DEF ServiceRuns
<1>4. PICK p \in {"stopped", "started"} :
          Moves(j, p) /\ job[j].pc = IF p = "stopped" THEN "stopplay" ELSE "startplay"
  BY <1>1, <1>3 DEF DataShape, JobFields, Moves
<1>5. /\ \A k \in Instances \ {i} : inst'[k] = inst[k]
      /\ inst'[i].tree = inst[i].tree /\ inst'[i].files = inst[i].files
  BY <1>1, <1>2 DEF DataShape, InstFields
<1>6. OthersServe(i) /\ (Clean(i) => Clean(i)')
  BY <1>1, <1>5 DEF OthersServe, Clean
<1>7. \/ job[j].pc \in Stopping /\ p \in Stopping
      \/ job[j].pc \in {"state"} \cup Starting /\ p \in Starting
  BY <1>4 DEF Stopping, Starting
<1>8. StillTrack(j)'
  BY <1>1, <1>4, <1>6, <1>7, ServiceStays
<1>9. job[j].pc \in Stopping \cup Starting
  BY <1>1 DEF Stopping, Starting
<1>10. RunsOneRuntime'
  BY <1>1, <1>6, <1>9, ServedClean, OneServed DEF Ready
<1>11. QED
  BY <1>8, <1>10 DEF StillStep

-----------------------------------------------------------------------------
(* Back: what was touched is stopped, ...                                  *)

LEMMA QuiescesOne ==
  ASSUME NEW j \in Jobs, Ready(j), NEW i \in Instances, job[j].undo,
         job[j].pc \in {"quiesce"} \cup Stopping, OthersServe(i),
         job'[j].undo, job'[j].todo = job[j].todo \ {i}, job[j].failed \subseteq job'[j].failed,
         job'[j].pc = IF job[j].todo = {i} THEN "back" ELSE "quiesce",
         i \in job'[j].failed \/ Still(i)'
  PROVE  StillTrack(j)'
<1>1. \A k \in Instances \ {i} : Still(k) => Still(k)'
  BY DEF OthersServe, Still
<1>2. \A k \in Instances \ {i} : Pending(k)' => Pending(k)
  BY DEF OthersServe, Pending, Touched, RolledBack
<1>3. \A k \in Instances \ (job'[j].todo \cup job'[j].failed) :
          Pending(k)' => Still(k)'
  BY <1>1, <1>2 DEF Ready, StillTrack, BackStill
<1>4. job'[j].pc = "back" => job'[j].todo = {}
  OBVIOUS
<1>5. BackStill(j)'
  BY <1>3, <1>4 DEF BackStill, Stopping, Starting, Returning
<1>6. QED
  BY <1>5 DEF StillTrack, ForwardStill

LEMMA RollbackStill ==
  ASSUME NEW j \in Jobs, Ready(j), Rollback(j)
  PROVE  StillStep(j)
<1>1. DataShape /\ log' = log /\ SameServing
  BY DEF Ready, Rollback, SameServing, clients
<1>2. /\ job'[j].undo /\ job'[j].failed = {}
      /\ job'[j].todo = {k \in Instances : Touched(k) /\ ~RolledBack(k)}
      /\ job'[j].pc \in {"release", "back", "quiesce"}
      /\ job'[j].pc = "back" => job'[j].todo = {}
  BY <1>1 DEF Rollback, DataShape, JobFields
<1>3. \A k \in Instances : Pending(k)' => k \in job'[j].todo
  BY <1>1, <1>2 DEF Pending, Touched, RolledBack
<1>4. BackStill(j)'
  BY <1>2, <1>3 DEF BackStill, Stopping, Starting, Returning
<1>5. QED
  BY <1>1, <1>2, <1>4, SameServed DEF StillStep, Ready, StillTrack, ForwardStill

\* An action of a rollback that fails for an instance or passes over it.
LEMMA FailServes ==
  ASSUME NEW j \in Jobs, NEW i \in Instances, NEW now, NEW p, NEW q, Fails(j, i, now, p, q),
         meddled' = meddled
  PROVE  OthersServe(i)
BY DEF Fails, OthersServe

LEMMA QuiesceStill ==
  ASSUME NEW j \in Jobs, Ready(j), NEW i \in Instances, Quiesce(j, i) \/ Quiesced(j, i)
  PROVE  StillStep(j)
<1>1. DataShape /\ meddled' = meddled /\ Next1(i, job[j].todo) /\ i \in job[j].todo
  BY DEF Ready, Quiesce, Quiesced, clients, Next1
<1>2. job[j].undo /\ job[j].pc \in {"quiesce"} \cup Stopping
  BY DEF Quiesce, Quiesced, At, Ready, OnTrack, OneWay, Stopping
<1>3. CASE FailInstance(j, i, inst[i], "quiesce", "back")
  <2>1. DOMAIN inst[i] = InstFields
    BY <1>1 DEF DataShape
  <2>2. Fails(j, i, inst[i], "quiesce", "back")
    BY <1>1, <1>3, <2>1, FailFacts
  <2>3. OthersServe(i) /\ i \in job'[j].failed
    BY <1>1, <2>2, FailServes DEF Fails
  <2>4. StillTrack(j)'
    BY <1>2, <2>2, <2>3, QuiescesOne DEF Fails
  <2>5. SameServing
    BY <1>1, <2>2 DEF Fails, SameServing
  <2>6. QED
    BY <2>4, <2>5, SameServed DEF StillStep, Ready
<1>4. CASE /\ inst[i].svc = "inactive" /\ log' = log /\ inst' = inst
           /\ Passed(j, i, job[j].failed, "quiesce", "back")
  <2>1. OthersServe(i) /\ Still(i)'
    BY <1>1, <1>4 DEF OthersServe, Still
  <2>2. StillTrack(j)'
    BY <1>1, <1>2, <1>4, <2>1, PassedMoves, QuiescesOne
  <2>3. QED
    BY <1>1, <1>4, <2>2, SameServed DEF StillStep, Ready, SameServing
<1>5. CASE /\ job[j].pc = "quiesce" /\ inst[i].svc = "active" /\ inst' = inst
           /\ log' = [log EXCEPT ![i].rollback = "failed"] /\ Goto(j, "stopcall")
  <2>1. Moves(j, "stopcall")
    BY <1>1, <1>5, GotoMoves
  <2>2. OthersServe(i)
    BY <1>1, <1>5 DEF OthersServe, DataShape
  <2>3. i \notin meddled => Clean(i)'
    BY <1>5 DEF Ready, RunsOneRuntime, Clean
  <2>4. \A k \in Instances \ meddled' : Next1(k, job'[j].todo) => Clean(k)'
    BY <1>1, <2>1, <2>3, OnlyNext DEF Moves
  <2>5. \A k \in Instances \ (job'[j].todo \cup job'[j].failed) :
            Pending(k)' => Still(k)'
    BY <1>1, <1>2, <2>1, <2>2 DEF Ready, StillTrack, BackStill, Moves, OthersServe, Pending, Touched, RolledBack, Still
  <2>6. StillTrack(j)'
    BY <1>2, <2>1, <2>4, <2>5 DEF StillTrack, ForwardStill, BackStill, Moves, Starting, Returning
  <2>7. QED
    BY <1>1, <1>5, <2>6, SameServed DEF StillStep, Ready, SameServing
<1>6. QED
  BY <1>3, <1>4, <1>5 DEF Quiesce, Quiesced, At

LEMMA RestoreRuntimeStill ==
  ASSUME NEW j \in Jobs, Ready(j), RestoreRuntime(j)
  PROVE  StillStep(j)
<1>1. DataShape /\ log' = log /\ SameServing /\ job[j].pc = "back"
  BY DEF Ready, RestoreRuntime, SameServing, clients, At
<1>2. job[j].undo
  BY <1>1 DEF Ready, OnTrack, OneWay
<1>3. /\ job'[j].undo /\ job'[j].todo = Instances \ job[j].failed
      /\ job'[j].pc \in {"finish", "tree"}
  BY <1>1, <1>2 DEF RestoreRuntime, DataShape, JobFields
<1>4. \A k \in job'[j].todo : Pending(k)' => Still(k)'
  BY <1>1, <1>2, <1>3 DEF Ready, StillTrack, BackStill, Pending, Touched, RolledBack, Still, SameServing
<1>5. StillTrack(j)'
  BY <1>3, <1>4 DEF StillTrack, ForwardStill, BackStill, Stopping, Starting
<1>6. QED
  BY <1>1, <1>5, SameServed DEF StillStep, Ready

-----------------------------------------------------------------------------
(* ... and stays stopped until it is restored.                             *)

LEMMA ReturnsOne ==
  ASSUME NEW j \in Jobs, Ready(j), NEW i \in Instances, job[j].undo,
         job[j].pc \in {"state"} \cup Starting \cup Returning, OthersServe(i),
         Next1(i, job[j].todo),
         job'[j].undo, job'[j].todo = job[j].todo \ {i}, job'[j].pc \in {"tree", "finish"}
  PROVE  StillTrack(j)'
<1>1. \A k \in Instances \ {i} : Still(k) => Still(k)'
  BY DEF OthersServe, Still
<1>2. \A k \in Instances \ {i} : Pending(k)' => Pending(k)
  BY DEF OthersServe, Pending, Touched, RolledBack
<1>3. job[j].todo \subseteq Instances /\ \A k \in Instances \ {i} : ~Next1(k, job[j].todo)
  BY OnlyNext DEF Ready, DataShape
<1>4. \A k \in job'[j].todo : Pending(k) => Still(k)
  <2>1. CASE job[j].pc \in Returning
    BY <2>1 DEF Ready, StillTrack, BackStill
  <2>2. CASE job[j].pc \in {"state"} \cup Starting
    BY <1>3, <2>2 DEF Ready, StillTrack, BackStill
  <2>3. QED
    BY <2>1, <2>2
<1>5. \A k \in job'[j].todo : Pending(k)' => Still(k)'
  BY <1>1, <1>2, <1>3, <1>4
<1>6. BackStill(j)'
  BY <1>5 DEF BackStill, Stopping, Starting
<1>7. QED
  BY <1>6 DEF StillTrack, ForwardStill

LEMMA ReturnGoes ==
  ASSUME NEW j \in Jobs, Ready(j), job[j].undo, job[j].pc \in Returning,
         meddled' = meddled, log' = log, \A k \in Instances : inst'[k].svc = inst[k].svc,
         NEW p \in Returning \cup {"state", "release"}, Moves(j, p)
  PROVE  StillTrack(j)'
<1>1. \A k \in Instances : Still(k) => Still(k)'
  BY DEF Still
<1>2. \A k \in Instances : Pending(k)' => Pending(k)
  BY DEF Pending, Touched, RolledBack
<1>3. job'[j].undo /\ job'[j].pc = p /\ job'[j].todo = job[j].todo /\ job[j].todo \subseteq Instances
  BY DEF Moves, Ready, DataShape
<1>4. \A k \in job'[j].todo : Pending(k)' => Still(k)'
  BY <1>1, <1>2, <1>3 DEF Ready, StillTrack, BackStill
<1>5. BackStill(j)'
  BY <1>3, <1>4 DEF BackStill, Stopping, Starting, Returning
<1>6. QED
  BY <1>3, <1>5 DEF StillTrack, ForwardStill

LEMMA ReturnFails ==
  ASSUME NEW j \in Jobs, Ready(j), NEW i \in Instances, Restores(j),
         job[j].pc \in {"state"} \cup Starting \cup Returning, Next1(i, job[j].todo),
         meddled' = meddled, NEW now, DOMAIN now = InstFields, now.svc = inst[i].svc,
         FailInstance(j, i, now, "tree", "finish"),
         i \notin meddled /\ now.svc = "active" => now.tree = now.files /\ now.tree # "mixed"
  PROVE  StillStep(j)
<1>1. Fails(j, i, now, "tree", "finish")
  BY FailFacts DEF Ready
<1>2. OthersServe(i)
  BY <1>1, FailServes
<1>3. job[j].undo
  BY RestoringFacts DEF Ready
<1>4. StillTrack(j)'
  BY <1>1, <1>2, <1>3, ReturnsOne DEF Fails
<1>5. RunsOneRuntime'
  BY <1>1, <1>2, OneServed DEF Fails, Clean, Ready
<1>6. QED
  BY <1>4, <1>5 DEF StillStep

LEMMA ReverifyStill ==
  ASSUME NEW j \in Jobs, Ready(j), NEW i \in Instances, Reverify(j, i)
  PROVE  StillStep(j)
<1>1. /\ DataShape /\ SameServing /\ OthersServe(i) /\ job[j].pc = "tree" /\ Next1(i, job[j].todo)
      /\ Passed(j, i, job[j].failed, "tree", "finish")
  BY DEF Ready, Reverify, SameServing, OthersServe, clients, At
<1>2. job[j].undo /\ job[j].pc \in Returning
  BY <1>1 DEF Ready, OnTrack, OneWay, Returning
<1>3. StillTrack(j)'
  BY <1>1, <1>2, PassedMoves, ReturnsOne
<1>4. QED
  BY <1>1, <1>3, SameServed DEF StillStep, Ready

LEMMA RestoreTreeStill ==
  ASSUME NEW j \in Jobs, Ready(j), NEW i \in Instances, RestoreTree(j, i)
  PROVE  StillStep(j)
<1>1. /\ DataShape /\ meddled' = meddled /\ job[j].pc = "tree" /\ Next1(i, job[j].todo)
      /\ i \in job[j].todo /\ ~RolledBack(i)
  BY DEF Ready, RestoreTree, clients, At, Next1
<1>2. job[j].undo /\ job[j].pc \in Returning /\ Restores(j)
  BY <1>1 DEF Ready, OnTrack, OneWay, Returning, Restores
<1>3. log[i].convert # "" => Still(i)
  BY <1>1, <1>2 DEF Ready, StillTrack, BackStill, Pending, Touched
<1>4. CASE /\ Goto(j, "files") /\ log' = log
           /\ \/ log[i].convert # "" /\ inst' = [inst EXCEPT ![i].tree = "minqlx"]
              \/ inst' = inst
  <2>1. /\ \A k \in Instances \ {i} : inst'[k] = inst[k]
        /\ inst'[i].svc = inst[i].svc
        /\ log[i].convert # "" \/ inst'[i] = inst[i]
    <3>1. CASE log[i].convert # "" /\ inst' = [inst EXCEPT ![i].tree = "minqlx"]
      BY <1>1, <3>1 DEF DataShape, InstFields
    <3>2. QED
      BY <1>4, <3>1
  <2>2. OthersServe(i)
    BY <1>1, <1>4, <2>1 DEF OthersServe
  <2>3. i \notin meddled /\ inst'[i].svc = "active" => Clean(i)'
    BY <1>3, <2>1 DEF Still, Clean, Ready, RunsOneRuntime
  <2>4. RunsOneRuntime'
    BY <2>2, <2>3, OneServed DEF Ready
  <2>5. Moves(j, "files")
    BY <1>1, <1>4, GotoMoves
  <2>6. StillTrack(j)'
    BY <1>1, <1>2, <1>4, <2>1, <2>5, ReturnGoes DEF Returning
  <2>7. QED
    BY <2>4, <2>6 DEF StillStep
<1>5. CASE /\ log[i].convert # ""
           /\ \E tree \in {inst[i].tree, "mixed"} :
                 FailInstance(j, i, [inst[i] EXCEPT !.tree = tree], "tree", "finish")
  <2>1. PICK tree \in {inst[i].tree, "mixed"} :
                 FailInstance(j, i, [inst[i] EXCEPT !.tree = tree], "tree", "finish")
    BY <1>5
  <2> DEFINE now == [inst[i] EXCEPT !.tree = tree]
  <2>2. DOMAIN now = InstFields /\ now.svc = inst[i].svc
    BY <1>1 DEF DataShape, InstFields
  <2>3. FailInstance(j, i, now, "tree", "finish")
    BY <2>1
  <2> HIDE DEF now
  <2>4. i \notin meddled => now.svc # "active"
    BY <1>3, <1>5, <2>2 DEF Still
  <2>5. QED
    BY <1>1, <1>2, <2>2, <2>3, <2>4, ReturnFails
<1>6. QED
  BY <1>4, <1>5 DEF RestoreTree

LEMMA FilesAskStill ==
  ASSUME NEW j \in Jobs, Ready(j), NEW i \in Instances, FilesAsk(j, i)
  PROVE  StillStep(j)
<1>1. /\ DataShape /\ SameServing /\ log' = log /\ job[j].pc = "files"
      /\ \A k \in Instances : inst'[k].svc = inst[k].svc
  BY DEF Ready, FilesAsk, SameServing, clients, At
<1>2. job[j].undo /\ job[j].pc \in Returning
  BY <1>1 DEF Ready, OnTrack, OneWay, Returning
<1>3. Moves(j, "state") \/ Moves(j, "replay")
  BY <1>1, GotoMoves DEF FilesAsk
<1>4. StillTrack(j)'
  BY <1>1, <1>2, <1>3, ReturnGoes DEF Returning, SameServing
<1>5. QED
  BY <1>1, <1>4, SameServed DEF StillStep, Ready

LEMMA PlayBeginsStill ==
  ASSUME NEW j \in Jobs, Ready(j), NEW i \in Instances, PlayBegins(j, i)
  PROVE  StillStep(j)
<1>1. DataShape /\ meddled' = meddled /\ Next1(i, job[j].todo)
  BY DEF Ready, PlayBegins, clients
<1>2. CASE At(j, "play")
  <2>1. ~job[j].undo /\ job[j].pc \in Emptied
    BY <1>2 DEF Ready, OnTrack, OneWay, At, Emptied, Playing
  <2>2. inst' = inst
    BY <1>2 DEF PlayBegins
  <2>3. job'[j].undo = job[j].undo /\ job'[j].pc \in Emptied \cup Neutral
    <3>1. CASE job' = [job EXCEPT ![j].known = Ended, ![j].pc = "playing"]
      BY <1>1, <3>1 DEF DataShape, JobFields, Emptied, Playing
    <3>2. CASE \E p \in Neutral : Goto(j, p)
      BY <1>1, <3>2, GotoMoves DEF Moves
    <3>3. QED
      BY <1>2, <3>1, <3>2 DEF PlayBegins, Neutral
  <2>4. StillTrack(j)'
    BY <1>1, <2>1, <2>2, <2>3, EmptiedStill DEF Ready, StillTrack
  <2>5. QED
    BY <1>1, <2>2, <2>4, SameServed DEF StillStep, Ready, SameServing
<1>3. CASE ~At(j, "play")
  <2>1. job[j].pc = "replay" /\ Restores(j) /\ job[j].pc \in Returning
    BY <1>3 DEF PlayBegins, At, Restores, Returning
  <2>2. job[j].undo /\ host.runtime = "minqlx"
    BY <1>1, <2>1, RestoringFacts DEF Ready
  <2>3. log' = log /\ inst' = inst
        /\ job' = [job EXCEPT ![j].known = Ended, ![j].pc = "restoring"]
    BY <1>3, <2>2 DEF PlayBegins
  <2>4. Moves(j, "restoring")
    BY <1>1, <2>3 DEF DataShape, JobFields, Moves
  <2>5. StillTrack(j)'
    BY <1>1, <2>1, <2>2, <2>3, <2>4, ReturnGoes DEF Returning
  <2>6. QED
    BY <1>1, <2>3, <2>5, SameServed DEF StillStep, Ready, SameServing
<1>4. QED
  BY <1>2, <1>3

LEMMA RestoreFilesStill ==
  ASSUME NEW j \in Jobs, Ready(j), NEW i \in Instances, RestoreFiles(j, i)
  PROVE  StillStep(j)
<1>1. DataShape /\ meddled' = meddled /\ Next1(i, job[j].todo) /\ job[j].pc = "restoring"
  BY DEF Ready, RestoreFiles, clients, At
<1>2. Restores(j) /\ job[j].pc \in Returning
  BY <1>1 DEF Restores, Returning
<1>3. job[j].undo
  BY <1>1, <1>2, RestoringFacts DEF Ready
<1>4. PICK files : /\ files = inst[i].files \/ inst[i].svc = "inactive"
                   /\ \/ FailInstance(j, i, [inst[i] EXCEPT !.files = files], "tree", "finish")
                      \/ /\ inst' = [inst EXCEPT ![i] = [inst[i] EXCEPT !.files = files]]
                         /\ log' = log /\ (Goto(j, "state") \/ Goto(j, "release"))
  BY DEF RestoreFiles
<1> DEFINE now == [inst[i] EXCEPT !.files = files]
<1>5. /\ DOMAIN now = InstFields /\ now.svc = inst[i].svc /\ now.tree = inst[i].tree
      /\ now.files = files
  BY <1>1 DEF DataShape, InstFields
<1>6. i \notin meddled /\ now.svc = "active" => now.tree = now.files /\ now.tree # "mixed"
  BY <1>4, <1>5 DEF Ready, RunsOneRuntime
<1>7. CASE FailInstance(j, i, now, "tree", "finish")
  <2> HIDE DEF now
  <2>1. QED
    BY <1>1, <1>2, <1>5, <1>6, <1>7, ReturnFails
<1>8. CASE inst' = [inst EXCEPT ![i] = now] /\ log' = log /\ (Goto(j, "state") \/ Goto(j, "release"))
  <2> HIDE DEF now
  <2>1. inst'[i] = now /\ \A k \in Instances \ {i} : inst'[k] = inst[k]
    BY <1>1, <1>8 DEF DataShape
  <2>2. OthersServe(i) /\ RunsOneRuntime'
    BY <1>1, <1>6, <1>8, <2>1, OneServed DEF OthersServe, Clean, Ready
  <2>3. Moves(j, "state") \/ Moves(j, "release")
    BY <1>1, <1>8, GotoMoves
  <2>4. \A k \in Instances : inst'[k].svc = inst[k].svc
    BY <1>5, <2>1
  <2>5. StillTrack(j)'
    BY <1>1, <1>2, <1>3, <1>8, <2>3, <2>4, ReturnGoes
  <2>6. QED
    BY <2>2, <2>5 DEF StillStep
<1>9. QED
  BY <1>4, <1>7, <1>8

LEMMA RestoreStateStill ==
  ASSUME NEW j \in Jobs, Ready(j), NEW i \in Instances, RestoreState(j, i) \/ Restarted(j, i)
  PROVE  StillStep(j)
<1>1. /\ DataShape /\ meddled' = meddled /\ Next1(i, job[j].todo)
      /\ job[j].pc \in {"state"} \cup Starting /\ Restores(j)
  BY DEF Ready, RestoreState, Restarted, clients, At, Starting, Restores
<1>2. job[j].undo
  BY <1>1, RestoringFacts DEF Ready
<1>3. CASE FailInstance(j, i, inst[i], "tree", "finish")
  <2>1. DOMAIN inst[i] = InstFields
    BY <1>1 DEF DataShape
  <2>2. QED
    BY <1>1, <1>3, <2>1, ReturnFails DEF Ready, RunsOneRuntime
<1>4. CASE /\ inst' = inst \/ \E s : inst' = [inst EXCEPT ![i].status = s]
           /\ \E r : log' = [log EXCEPT ![i].rollback = r]
           /\ Passed(j, i, job[j].failed, "tree", "finish")
  <2>1. SameServing /\ OthersServe(i)
    BY <1>1, <1>4 DEF SameServing, OthersServe, DataShape, InstFields
  <2>2. StillTrack(j)'
    BY <1>1, <1>2, <1>4, <2>1, PassedMoves, ReturnsOne
  <2>3. QED
    BY <2>1, <2>2, SameServed DEF StillStep, Ready
<1>5. CASE /\ log' = log /\ inst' = inst
           /\ Goto(j, "startcall") \/ job' = [job EXCEPT ![j].ok = TRUE, ![j].pc = "started"]
  <2>1. SameServing /\ OthersServe(i) /\ (Clean(i) => Clean(i)')
    BY <1>1, <1>5 DEF SameServing, OthersServe, Clean
  <2>2. PICK p \in {"startcall", "started"} : Moves(j, p)
    BY <1>1, <1>5, GotoMoves DEF DataShape, JobFields, Moves
  <2>3. StillTrack(j)'
    BY <1>1, <1>5, <2>1, <2>2, ServiceStays DEF Starting
  <2>4. QED
    BY <2>1, <2>3, SameServed DEF StillStep, Ready
<1>6. QED
  BY <1>3, <1>4, <1>5 DEF RestoreState, LeaveUntouched, Restarted

-----------------------------------------------------------------------------
\* A worker that dies leaves what it was at: services of complete files, or
\* files of a stopped service.
LEMMA CrashStill ==
  ASSUME NEW j \in Jobs, Ready(j), Crash(j)
  PROVE  StillStep(j)
<1>1. DataShape /\ meddled' = meddled /\ \A i \in Instances : inst'[i] \in CutShort(j, i)
  BY DEF Ready, Crash, clients
<1>2. job'[j].pc = ""
  <2>1. job' = [job EXCEPT ![j] = NoExecution]
    BY DEF Crash
  <2>2. QED
    BY <1>1, <2>1, NoExecutionFields DEF DataShape
<1>3. ASSUME NEW i \in Instances \ meddled, inst'[i].svc = "active"
      PROVE  inst'[i].tree = inst'[i].files /\ inst'[i].tree # "mixed"
  <2>1. DOMAIN inst[i] = InstFields /\ inst'[i] \in CutShort(j, i)
    BY <1>1 DEF DataShape
  <2>2. CASE inst'[i] = inst[i]
    BY <1>3, <2>2 DEF Ready, RunsOneRuntime
  <2>3. CASE /\ Next1(i, job[j].todo) /\ job[j].pc \in {"stopplay", "startplay"}
             /\ \E s : inst'[i] = [inst[i] EXCEPT !.svc = s]
    <3>1. Clean(i)
      BY <2>3, ServedClean DEF Stopping, Starting
    <3>2. QED
      BY <2>1, <2>3, <3>1 DEF Clean, InstFields
  <2>4. CASE /\ Next1(i, job[j].todo) /\ job[j].pc \in {"swapping", "tree"}
             /\ log[i].convert # "" /\ ~RolledBack(i)
             /\ \E t : inst'[i] = [inst[i] EXCEPT !.tree = t]
    <3>1. inst'[i].svc = inst[i].svc
      BY <2>1, <2>4 DEF InstFields
    <3>2. Still(i)
      <4>1. CASE job[j].pc = "swapping"
        BY <4>1 DEF Ready, OnTrack, OneWay, StillTrack, ForwardStill, Emptied, Swapping
      <4>2. CASE job[j].pc = "tree"
        BY <2>4, <4>2 DEF Ready, OnTrack, OneWay, StillTrack, BackStill, Returning, Next1, Pending, Touched
      <4>3. QED
        BY <2>4, <4>1, <4>2
    <3>3. QED
      BY <1>3, <3>1, <3>2 DEF Still
  <2>5. CASE /\ inst[i].svc = "inactive"
             /\ \E f : inst'[i] = [inst[i] EXCEPT !.files = f]
    BY <1>3, <2>1, <2>5 DEF InstFields
  <2>6. QED
    BY <2>1, <2>2, <2>3, <2>4, <2>5 DEF CutShort
<1>4. RunsOneRuntime'
  BY <1>1, <1>3 DEF RunsOneRuntime
<1>5. QED
  BY <1>2, <1>4 DEF StillStep

LEMMA ClaimedStill ==
  ASSUME NoStall, NEW j \in Jobs, Ready(j), job[j].pc \notin Unclaimed, Typed, WorkAction(j)
  PROVE  StillStep(j)
<1>1. CASE Push(j) \/ Begin(j)
  <2>1. job[j].pc = ""
    BY <1>1 DEF Push, Begin, Typed, IndInv, JobInv
  <2>2. QED
    BY <2>1 DEF Unclaimed
<1>2. CASE TakeLocks(j) \/ LocksRefused(j) \/ Superseded(j)
  BY <1>2, NeutralStill
<1>3. CASE ForwardStep(j)
  <2>1. CASE \/ Validate(j) \/ Snapshot(j) \/ Recheck(j) \/ Cancel(j)
             \/ BeginStep(j) \/ Install(j) \/ Succeed(j)
    BY <2>1, NeutralStill, RecheckStill, EmptiedSteps
  <2>2. CASE \E i \in Instances : StopAsk(j, i) \/ Stopped(j, i) \/ StopVerify(j, i)
    BY <2>2, StopAskStill, StoppedStill
  <2>3. CASE \E i \in Instances : SwapAsk(j, i) \/ Swap(j, i) \/ ConfigureAsk(j, i)
    BY <2>3, EmptiedSteps, SwapStill
  <2>4. CASE \E i \in Instances : PlayBegins(j, i) \/ Configure(j, i)
    BY <2>4, PlayBeginsStill, ConfigureStill
  <2>5. CASE \E i \in Instances : StartAsk(j, i) \/ Started(j, i) \/ StartVerify(j, i)
    BY <2>5, StartsStill
  <2>6. QED
    BY <1>3, <2>1, <2>2, <2>3, <2>4, <2>5 DEF ForwardStep
<1>4. CASE ServiceStep(j)
  BY <1>4, ServiceBeginsStill, ServiceRunsStill DEF ServiceStep
<1>5. CASE RollbackStep(j)
  <2>1. CASE Rollback(j) \/ RestoreRuntime(j) \/ Finish(j) \/ Finalize(j)
    BY <2>1, RollbackStill, RestoreRuntimeStill, NeutralStill
  <2>2. CASE \E i \in Instances : Quiesce(j, i) \/ Quiesced(j, i) \/ Reverify(j, i) \/ RestoreTree(j, i)
    BY <2>2, QuiesceStill, ReverifyStill, RestoreTreeStill
  <2>3. CASE \E i \in Instances : FilesAsk(j, i) \/ RestoreFiles(j, i)
    BY <2>3, FilesAskStill, RestoreFilesStill
  <2>4. CASE \E i \in Instances : RestoreState(j, i) \/ Restarted(j, i)
    BY <2>4, RestoreStateStill
  <2>5. QED
    BY <1>5, <2>1, <2>2, <2>3, <2>4 DEF RollbackStep
<1>6. CASE Release(j)
  <2>1. DataShape
    BY TypedShape
  <2>2. job'[j].pc = ""
    BY <1>6, <2>1, NoExecutionFields DEF Release, DataShape
  <2>3. SameServing
    BY <1>6 DEF Release, SameServing, clients
  <2>4. QED
    BY <2>2, <2>3, SameServed DEF StillStep, Ready
<1>7. CASE WorkerFault(j)
  <2>1. ~Stall(j)
    BY DEF Stall, Spend, NoStall
  <2>2. QED
    BY <1>7, <2>1, NeutralStill, CrashStill DEF WorkerFault
<1>8. QED
  BY <1>1, <1>2, <1>3, <1>4, <1>5, <1>6, <1>7 DEF WorkAction

LEMMA WorkStill ==
  ASSUME Typed, SoleInv, NoStall, RecordInv, StillInv, NEW j \in Jobs, WorkAction(j)
  PROVE  StillInv'
<1>1. WorkStep(j) /\ IndInv
  BY WorkerWorks DEF WorkAction, Typed
<1>2. (\A k \in Jobs \ {j} : job'[k] = job[k]) /\ UNCHANGED clients
  BY <1>1 DEF WorkStep, JobStep
<1>3. Reserved' => Reserved
  BY <1>1 DEF WorkStep, RowStep
<1>4. \A k \in Jobs : Claimed(k)' /\ Reserved' => Claimed(k) /\ Reserved
  BY <1>1, <1>3, WorkStepJobs
<1>5. BusyInv'
  BY <1>2, <1>3 DEF StillInv, BusyInv, clients
<1>6. CASE Claimed(j) /\ Reserved
  <2>1. StillStep(j)
    BY <1>6, IsReady, ClaimedStill DEF Claimed
  <2>2. ASSUME NEW k \in Jobs, Claimed(k)', Reserved'
        PROVE  StillTrack(k)'
    <3>1. CASE k = j
      BY <2>1, <2>2, <3>1 DEF StillStep, Claimed, Unclaimed
    <3>2. CASE k # j
      <4>1. Claimed(k) /\ Reserved /\ ~Alone(k)
        BY <1>4, <1>6, <2>2, <3>2 DEF Alone
      <4>2. Tidying(k)
        BY <4>1 DEF SoleInv
      <4>3. job'[k].undo /\ job'[k].pc \in {"lock", "cancel", "release"}
        BY <1>2, <3>2, <4>2 DEF Tidying
      <4>4. QED
        BY <4>3 DEF StillTrack, ForwardStill, BackStill, Returning, Starting, Stopping
    <3>3. QED
      BY <3>1, <3>2
  <2>3. QED
    BY <1>5, <2>1, <2>2 DEF StillInv, StillStep
<1>7. CASE ~(Claimed(j) /\ Reserved)
  <2>1. log' = log /\ inst' = inst /\ meddled' = meddled
    BY <1>2, <1>7, IdleTrack DEF clients
  <2>2. ASSUME NEW k \in Jobs, Claimed(k)', Reserved'
        PROVE  StillTrack(k)'
    <3>1. StillTrack(k) /\ job'[k] = job[k]
      BY <1>2, <1>4, <1>7, <2>2 DEF StillInv
    <3>2. QED
      BY <2>1, <3>1 DEF StillTrack, ForwardStill, BackStill, Still, Clean, Pending, Touched, RolledBack
  <2>3. RunsOneRuntime'
    BY <2>1 DEF StillInv, RunsOneRuntime
  <2>4. QED
    BY <1>5, <2>2, <2>3 DEF StillInv
<1>8. QED
  BY <1>6, <1>7

-----------------------------------------------------------------------------
(* The others.                                                             *)

\* Nothing is done to the instances.
LEMMA SameStill ==
  ASSUME StillInv, log' = log, inst' = inst, meddled' = meddled, Reserved' => Reserved,
         \A u \in Users : user'[u].phase = "working" => user'[u] = user[u],
         \A k \in Jobs : Claimed(k)' /\ Reserved' =>
            \/ Claimed(k) /\ job'[k] = job[k]
            \/ job'[k].pc = "lock"
  PROVE  StillInv'
<1>1. BusyInv' /\ RunsOneRuntime'
  BY DEF StillInv, BusyInv, RunsOneRuntime
<1>2. ASSUME NEW k \in Jobs, Claimed(k)', Reserved'
      PROVE  StillTrack(k)'
  <2>1. CASE Claimed(k) /\ job'[k] = job[k]
    <3>1. StillTrack(k)
      BY <1>2, <2>1 DEF StillInv
    <3>2. QED
      BY <2>1, <3>1 DEF StillTrack, ForwardStill, BackStill, Still, Clean, Pending, Touched, RolledBack
  <2>2. CASE job'[k].pc = "lock"
    BY <2>2 DEF StillTrack, ForwardStill, BackStill, Emptying, Emptied, Returning, Starting, Stopping,
       Swapping, Playing
  <2>3. QED
    BY <1>2, <2>1, <2>2
<1>3. QED
  BY <1>1, <1>2 DEF StillInv

\* A reservation finds every host on one runtime, and nobody at work.
LEMMA ReserveStill ==
  ASSUME Typed, RecordInv, Reserve
  PROVE  StillInv'
<1>1. inst' = inst /\ meddled' = {} /\ user' = user
  BY DEF Reserve
<1>2. \A i \in Instances : inst[i].tree = "minqlx" /\ inst[i].files = "minqlx"
  BY ReserveRecord DEF Reserve, RecordInv, EndInv, On
<1>3. RunsOneRuntime'
  BY <1>1, <1>2 DEF RunsOneRuntime
<1>4. \A u \in Users : user[u].phase # "working"
  <2>1. \A e \in Entities : lock[e] = Route
    BY DEF Reserve, Typed, IndInv, LockInv
  <2>2. \A u \in Users : user[u].phase = "working" => user[u].inst \in Instances /\ lock[user[u].inst] = User
    BY DEF Typed, IndInv, LockInv
  <2>3. Route # User
    BY DEF Route, User
  <2>4. QED
    BY <2>1, <2>2, <2>3 DEF Entities
<1>5. \A j \in Jobs : ~Claimed(j)'
  <2>1. op.id \in Nat /\ op'.id = op.id + 1 /\ job' = job
        /\ \A j \in Jobs : job[j].of \in Nat /\ job[j].of <= op.id
    BY DEF Reserve, Typed, IndInv, Shape, JobInv
  <2>2. QED
    BY <2>1 DEF Claimed, Live
<1>6. QED
  BY <1>1, <1>3, <1>4, <1>5 DEF StillInv, BusyInv

\* A user's operation counts as meddling when the host was reserved before it began.
LEMMA UsersStill ==
  ASSUME Typed, RecordInv, StillInv, NEW u \in Users, UserStep(u)
  PROVE  StillInv'
<1>1. DataShape /\ DOMAIN user = Users /\ \A v \in Users : DOMAIN user[v] = {"phase", "inst"}
  BY TypedShape DEF Typed, TypeInv, TypeOK
<1>2. log' = log /\ job' = job /\ op' = op /\ Reserved' = Reserved
  BY DEF UserStep, Works, Refused, WorkEnds, Reserved
<1>3. CASE Refused(u)
  <2>1. \A v \in Users : user'[v].phase = "working" => user'[v] = user[v]
    BY <1>1, <1>3 DEF Refused
  <2>2. QED
    BY <1>2, <1>3, <2>1, SameStill DEF Refused, Claimed, Live
<1>4. CASE Works(u) \/ WorkEnds(u)
  <2>1. ASSUME NEW k \in Instances \ meddled'
        PROVE  /\ k \notin meddled /\ inst'[k].tree = inst[k].tree /\ inst'[k].files = inst[k].files
               /\ Reserved => inst'[k].svc = inst[k].svc
    <3>1. k \notin meddled
      BY <1>4, <2>1 DEF Works, WorkEnds
    <3>2. inst'[k].tree = inst[k].tree /\ inst'[k].files = inst[k].files
      BY <1>1, <1>4 DEF Works, WorkEnds, DataShape, InstFields
    <3>3. CASE Works(u)
      BY <1>1, <3>1, <3>2, <3>3 DEF Works, DataShape, InstFields
    <3>4. CASE WorkEnds(u)
      <4>1. Reserved => user[u].inst # k
        BY <3>1, <3>4 DEF WorkEnds, StillInv, BusyInv
      <4>2. QED
        BY <1>1, <3>1, <3>2, <3>4, <4>1 DEF WorkEnds, DataShape
    <3>5. QED
      BY <1>4, <3>3, <3>4
  <2>2. BusyInv'
    <3>1. CASE Works(u)
      BY <1>1, <1>2, <3>1 DEF Works, StillInv, BusyInv
    <3>2. CASE WorkEnds(u)
      BY <1>1, <1>2, <3>2 DEF WorkEnds, StillInv, BusyInv
    <3>3. QED
      BY <1>4, <3>1, <3>2
  <2>3. RunsOneRuntime'
    <3>1. CASE Reserved
      BY <2>1, <3>1 DEF StillInv, RunsOneRuntime
    <3>2. CASE ~Reserved
      <4>1. host.runtime # "mixed"
        BY DEF Typed, TypeInv, TypeOK
      <4>2. \A i \in Instances : inst[i].tree = inst[i].files /\ inst[i].tree # "mixed"
        BY <3>2, <4>1 DEF RecordInv, EndInv, On
      <4>3. QED
        BY <2>1, <4>2 DEF RunsOneRuntime
    <3>3. QED
      BY <3>1, <3>2
  <2>4. ASSUME NEW k \in Jobs, Claimed(k)', Reserved'
        PROVE  StillTrack(k)'
    <3>1. StillTrack(k) /\ Reserved /\ job'[k] = job[k]
      BY <1>2, <2>4 DEF StillInv, Claimed, Live
    <3>2. \A i \in Instances : /\ Still(i) => Still(i)'
                               /\ Pending(i)' => Pending(i)
      BY <1>2, <2>1, <3>1 DEF Still, Pending, Touched, RolledBack
    <3>3. \A i \in Instances \ meddled' : i \notin meddled /\ (Clean(i) => Clean(i)')
      BY <2>1 DEF Clean
    <3>4. job[k].todo \subseteq Instances
      BY <1>1 DEF DataShape
    <3>5. ForwardStill(k)'
      BY <3>1, <3>2 DEF StillTrack, ForwardStill
    <3>6. BackStill(k)'
      BY <3>1, <3>2, <3>3, <3>4 DEF StillTrack, BackStill
    <3>7. QED
      BY <3>5, <3>6 DEF StillTrack
  <2>5. QED
    BY <2>2, <2>3, <2>4 DEF StillInv
<1>5. QED
  BY <1>3, <1>4 DEF UserStep

\* Jobs come, and one takes the operation over.
LEMMA NewJobTracks ==
  ASSUME Typed, NEW j \in Jobs, RouteAssigns(j) \/ HandOver(j) \/ Enter(j) \/ Claim(j)
  PROVE  /\ Reserved' => Reserved
         /\ \A k \in Jobs : Claimed(k)' => \/ Claimed(k) /\ job'[k] = job[k]
                                           \/ job'[k].pc = "lock"
<1>1. DataShape
  BY TypedShape
<1>2. op'.state = op.state /\ op'.id = op.id
  BY <1>1 DEF RouteAssigns, HandOver, Enter, Claim, DataShape, RowFields
<1>3. \A k \in Jobs \ {j} : job'[k] = job[k]
  BY <1>1 DEF RouteAssigns, HandOver, Enter, Claim, DataShape
<1>4. job'[j].pc \in Unclaimed \cup {"lock"}
  <2>1. CASE RouteAssigns(j) \/ HandOver(j)
    BY <2>1, NewExecution DEF Unclaimed
  <2>2. CASE job' = [job EXCEPT ![j] = NoExecution]
    BY <1>1, <2>2, NoExecutionFields DEF DataShape, Unclaimed
  <2>3. CASE Enter(j) /\ job' # [job EXCEPT ![j] = NoExecution]
    <3>1. PICK b : job' = [job EXCEPT ![j].pc = "claim", ![j].token = op.token, ![j].undo = b]
      BY <2>3 DEF Enter
    <3>2. job'[j].pc = "claim"
      BY <1>1, <3>1 DEF DataShape, JobFields
    <3>3. QED
      BY <3>2 DEF Unclaimed
  <2>4. CASE Claim(j) /\ job' # [job EXCEPT ![j] = NoExecution]
    <3>1. job'[j].pc = "lock"
      BY <1>1, <2>4 DEF Claim, DataShape, JobFields
    <3>2. QED
      BY <3>1
  <2>5. QED
    BY <2>1, <2>2, <2>3, <2>4
<1>5. QED
  BY <1>2, <1>3, <1>4 DEF Claimed, Live, Reserved

LEMMA StillInit == Init => StillInv
<1> SUFFICES ASSUME Init PROVE StillInv
  OBVIOUS
<1>1. ~Reserved
  BY DEF Init, Reserved, Nonterminal
<1>2. \A i \in Instances : inst[i].tree = "minqlx" /\ inst[i].files = "minqlx"
  BY DEF Init
<1>3. QED
  BY <1>1, <1>2 DEF StillInv, BusyInv, RunsOneRuntime

LEMMA StillNext ==
  ASSUME Typed, SoleInv, NoStall, RecordInv, StillInv, [Next]_vars
  PROVE  StillInv'
<1>1. CASE Reserve
  BY <1>1, ReserveStill
<1>2. CASE \E j \in Jobs : RouteAssigns(j) \/ HandOver(j) \/ Enter(j) \/ Claim(j)
  <2>1. PICK j \in Jobs : RouteAssigns(j) \/ HandOver(j) \/ Enter(j) \/ Claim(j)
    BY <1>2
  <2>2. log' = log /\ inst' = inst /\ meddled' = meddled /\ user' = user
    BY <2>1 DEF RouteAssigns, HandOver, Enter, Claim, clients
  <2>3. (Reserved' => Reserved)
        /\ \A k \in Jobs : Claimed(k)' => (Claimed(k) /\ job'[k] = job[k]) \/ job'[k].pc = "lock"
    BY <2>1, NewJobTracks
  <2>4. QED
    BY <2>2, <2>3, SameStill
<1>3. CASE \E j \in Jobs : WorkAction(j)
  BY <1>3, WorkStill
<1>4. CASE \E u \in Users : UserStep(u)
  BY <1>4, UsersStill
<1>5. CASE \/ RouteLocks \/ RouteUnlocks \/ RouteGivesUp \/ \E e \in Entities : LocksExpire(e)
           \/ \E u \in Users, i \in Instances : Guard(u, i)
           \/ BackupLocks \/ BackupStep \/ UNCHANGED vars
  <2>1. log' = log /\ inst' = inst /\ meddled' = meddled /\ op' = op /\ job' = job
    BY <1>5 DEF RouteLocks, RouteUnlocks, RouteGivesUp, LocksExpire, Guard, BackupLocks, BackupStep,
       RestoreBackup, BackupEnds, vars, clients
  <2>2. \A v \in Users : user'[v].phase = "working" => user'[v] = user[v]
    <3>1. CASE \E u \in Users, i \in Instances : Guard(u, i)
      <4>1. DOMAIN user = Users
        BY DEF Typed, TypeInv, TypeOK
      <4>2. QED
        BY <3>1, <4>1 DEF Guard
    <3>2. CASE user' = user
      BY <3>2
    <3>3. QED
      BY <1>5, <3>1, <3>2 DEF RouteLocks, RouteUnlocks, RouteGivesUp, LocksExpire, BackupLocks, BackupStep,
         RestoreBackup, BackupEnds, vars, clients
  <2>3. QED
    BY <2>1, <2>2, SameStill DEF Reserved, Claimed, Live
<1>6. QED
  BY <1>1, <1>2, <1>3, <1>4, <1>5 DEF Next, RouteStep, WorkerStep, WorkAction

\* A server never runs with the files of two runtimes: files are changed
\* under stopped services, and services are started on complete files
\* (configure_existing_instance demands an inactive service, and the rollback
\* stops what was touched before it restores it).
THEOREM OneRuntime ==
  ASSUME NoStall
  PROVE  Spec => []RunsOneRuntime
<1>1. IndInv /\ TypeInv /\ SoleInv /\ RecordInv /\ StillInv /\ [Next]_vars => StillInv'
  BY StillNext DEF Typed
<1>2. IndInv /\ TypeInv /\ [Next]_vars => TypeInv'
  BY TypeNext DEF Typed
<1>3. StillInv => RunsOneRuntime
  BY DEF StillInv
<1>4. QED
  BY StillInit, TypeInit, UpgradeInvariant, Invariance, <1>1, <1>2, <1>3, PTL DEF Spec

-----------------------------------------------------------------------------
(* What the end of the reservation will find.                              *)

\* An instance that was stopped or touched, and is rolled back, is as before;
\* one that was left alone has its status still.
Restored(i) == RolledBack(i) /\ "ok" \in {log[i].stop, log[i].rollback} => AsBefore(i)
Spared(i) ==
    (~Touched(i) \/ RolledBack(i)) /\ log[i].stop \in {"", "verified_inactive"}
        => inst[i].status = log[i].original
Fine(i) == i \notin meddled => Restored(i) /\ Spared(i)
FineInv == Reserved => \A i \in Instances : Fine(i)

\* Of an instance that is to be restored nothing is asked.
Loose(i) == ~RolledBack(i) /\ (Touched(i) \/ log[i].stop \notin {"", "verified_inactive"})

Untried ==
    op.state = "preparing" =>
        host.status = "configuring" /\ \A i \in Instances : log[i].stop = ""

\* Forward: which stops are recorded, and which instances are up again.
ForwardFine(j) ==
    ~job[j].undo =>
        /\ job[j].pc = "stop" => \A i \in job[j].todo : log[i].stop = ""
        /\ job[j].pc \in Stopping =>
              \A i \in job[j].todo : log[i].stop = IF Next1(i, job[j].todo) THEN "requested" ELSE ""
        /\ job[j].pc \in {"start"} \cup Starting =>
              \A i \in Instances \ job[j].todo : AsBefore(i)
        /\ job[j].pc \in Starting =>
              \A i \in Instances : Next1(i, job[j].todo) => log[i].original = "running"
        /\ job[j].pc = "succeed" => \A i \in Instances : AsBefore(i)

\* Back: services are stopped and started of what is to be restored.
BackFine(j) ==
    job[j].undo =>
        /\ job[j].pc \in {"quiesce"} \cup Stopping => \A i \in job[j].todo : Pending(i)
        /\ job[j].pc \in Starting =>
              \A i \in Instances : Next1(i, job[j].todo) =>
                  /\ log[i].original = "running"
                  /\ Touched(i) \/ log[i].stop \in {"ok", "requested"}

FineTrack(j) == ForwardFine(j) /\ BackFine(j)

OutcomeInv ==
    /\ FineInv /\ Untried
    /\ \A j \in Jobs : Claimed(j) /\ Reserved => FineTrack(j)

Fit(j) == Ready(j) /\ Untried /\ (\A i \in Instances : Fine(i)) /\ FineTrack(j)

FineStep(j) == (\A i \in Instances : Fine(i)') /\ (job'[j].pc = "" \/ FineTrack(j)')

\* Instance i looks the same to whom it may concern.
Looks(i) == log'[i] = log[i] /\ inst'[i].svc = inst[i].svc /\ inst'[i].status = inst[i].status

LEMMA SameFine ==
  ASSUME NEW i \in Instances, Fine(i), meddled' = meddled, Looks(i)
  PROVE  Fine(i)'
BY DEF Fine, Restored, Spared, RolledBack, Touched, AsBefore, Looks

LEMMA LooseNext ==
  ASSUME NEW i \in Instances, Loose(i)'
  PROVE  Fine(i)'
BY DEF Fine, Restored, Spared, Loose, RolledBack, Touched, AsBefore

LEMMA OneFine ==
  ASSUME \A k \in Instances : Fine(k), NEW i \in Instances, OthersServe(i), Fine(i)'
  PROVE  \A k \in Instances : Fine(k)'
<1>1. ASSUME NEW k \in Instances \ {i}
      PROVE  Fine(k)'
  <2>1. Looks(k) /\ meddled' = meddled
    BY DEF OthersServe, Looks
  <2>2. QED
    BY <2>1, SameFine
<1>2. QED
  BY <1>1

\* Where nothing is said of stops and starts.
Aimed == {"stop", "start", "succeed", "quiesce"} \cup Stopping \cup Starting

LEMMA PlainTrack ==
  ASSUME NEW j \in Jobs, job'[j].pc \notin Aimed
  PROVE  FineTrack(j)'
BY DEF FineTrack, ForwardFine, BackFine, Aimed

LEMMA PlainStep ==
  ASSUME NEW j \in Jobs, Fit(j), meddled' = meddled, \A i \in Instances : Looks(i),
         job'[j].pc \notin Aimed
  PROVE  FineStep(j)
<1>1. \A i \in Instances : Fine(i)'
  BY SameFine DEF Fit
<1>2. QED
  BY <1>1, PlainTrack DEF FineStep

LEMMA PlainGoto ==
  ASSUME NEW j \in Jobs, Fit(j), meddled' = meddled, log' = log, inst' = inst,
         NEW p, Goto(j, p) \/ Stage(j, p), p \notin Aimed
  PROVE  FineStep(j)
<1>1. job'[j].pc = p
  BY GotoMoves, StageStages DEF Fit, Ready, Moves, Stages
<1>2. \A i \in Instances : Looks(i)
  BY DEF Looks
<1>3. QED
  BY <1>1, <1>2, PlainStep

LEMMA PlainActions ==
  ASSUME NEW j \in Jobs, Fit(j),
         \/ LocksRefused(j) \/ TakeLocks(j) \/ Validate(j) \/ Snapshot(j) \/ Cancel(j) \/ Finish(j)
         \/ Succeed(j) \/ Finalize(j) \/ Superseded(j) \/ Interrupted(j) \/ StepFails(j)
         \/ Install(j) \/ \E i \in Instances : FilesAsk(j, i)
  PROVE  FineStep(j)
<1> DEFINE plain == {"release", "cancel", "validate", "snapshot", "recheck", "rollback", "finalize",
                     "convert", "state", "replay"}
<1>1. meddled' = meddled /\ log' = log /\ inst' = inst
  BY DEF LocksRefused, TakeLocks, Validate, Snapshot, Cancel, Finish, Succeed, Finalize, Superseded,
     Interrupted, StepFails, Install, FilesAsk, clients
<1>2. \E p \in plain : Goto(j, p)
  <2>1. CASE LocksRefused(j) \/ TakeLocks(j) \/ Validate(j) \/ Snapshot(j) \/ Cancel(j)
    BY <2>1 DEF LocksRefused, TakeLocks, Validate, Snapshot, Cancel
  <2>2. CASE Finish(j) \/ Succeed(j) \/ Finalize(j) \/ Superseded(j) \/ Interrupted(j)
    BY <2>2 DEF Finish, Succeed, Finalize, Superseded, Interrupted
  <2>3. CASE StepFails(j) \/ Install(j) \/ \E i \in Instances : FilesAsk(j, i)
    BY <2>3 DEF StepFails, Install, FilesAsk
  <2>4. QED
    BY <2>1, <2>2, <2>3
<1>3. plain \cap Aimed = {}
  BY DEF Aimed, Stopping, Starting
<1>4. QED
  BY <1>1, <1>2, <1>3, PlainGoto

LEMMA BeginStepFine ==
  ASSUME NEW j \in Jobs, Fit(j), BeginStep(j)
  PROVE  FineStep(j)
<1>1. meddled' = meddled /\ log' = log /\ inst' = inst
  BY DEF BeginStep, clients
<1>2. \E p \in {"installing", "swap", "configure"} : Goto(j, p) \/ Stage(j, p)
  BY DEF BeginStep
<1>3. {"installing", "swap", "configure"} \cap Aimed = {}
  BY DEF Aimed, Stopping, Starting
<1>4. QED
  BY <1>1, <1>2, <1>3, PlainGoto

LEMMA RestoreRuntimeFine ==
  ASSUME NEW j \in Jobs, Fit(j), RestoreRuntime(j)
  PROVE  FineStep(j)
<1>1. DataShape /\ meddled' = meddled /\ log' = log /\ inst' = inst
  BY DEF RestoreRuntime, clients, Fit, Ready
<1>2. job'[j].pc \in {"finish", "tree"}
  BY <1>1 DEF RestoreRuntime, DataShape, JobFields
<1>3. job'[j].pc \notin Aimed
  BY <1>2 DEF Aimed, Stopping, Starting
<1>4. QED
  BY <1>1, <1>3, PlainStep DEF Looks

LEMMA ReverifyFine ==
  ASSUME NEW j \in Jobs, Fit(j), NEW i \in Instances, Reverify(j, i)
  PROVE  FineStep(j)
<1>1. DataShape /\ meddled' = meddled /\ log' = log /\ inst' = inst
  BY DEF Reverify, clients, Fit, Ready
<1>2. job'[j].pc \in {"finish", "tree"}
  BY <1>1, PassedMoves DEF Reverify
<1>3. job'[j].pc \notin Aimed
  BY <1>2 DEF Aimed, Stopping, Starting
<1>4. QED
  BY <1>1, <1>3, PlainStep DEF Looks

-----------------------------------------------------------------------------
(* Forward.                                                                *)

\* Nothing is stopped before the preparation ends.
LEMMA RecheckFine ==
  ASSUME Typed, NEW j \in Jobs, Fit(j), Recheck(j)
  PROVE  FineStep(j)
<1>1. DataShape /\ meddled' = meddled /\ log' = log /\ inst' = inst
  BY DEF Recheck, clients, Fit, Ready
<1>2. CASE Goto(j, "cancel")
  BY <1>1, <1>2, PlainGoto DEF Aimed, Stopping, Starting
<1>3. CASE Stage(j, "stop")
  <2>1. op.state = "preparing"
    BY DEF Recheck, At, Fence, Typed, IndInv, OwnerInv, Early
  <2>2. \A i \in Instances : log'[i].stop = ""
    BY <1>1, <2>1 DEF Fit, Untried
  <2>3. ~job[j].undo
    BY DEF Recheck, At, Fit, Ready, OnTrack, OneWay
  <2>4. job'[j].pc = "stop" /\ ~job'[j].undo /\ job'[j].todo = Instances
    BY <1>1, <1>3, <2>3, StageStages DEF Stages
  <2>5. FineTrack(j)'
    BY <2>2, <2>4 DEF FineTrack, ForwardFine, BackFine, Stopping, Starting
  <2>6. \A i \in Instances : Fine(i)'
    BY <1>1, SameFine DEF Fit, Looks
  <2>7. QED
    BY <2>5, <2>6 DEF FineStep
<1>4. QED
  BY <1>2, <1>3 DEF Recheck

\* The stops of an upgrade, of one instance after the other.
LEMMA ForwardOf ==
  ASSUME NEW j \in Jobs, Fit(j), ~job[j].undo, NEW i \in Instances
  PROVE  /\ ~RolledBack(i)
         /\ job[j].pc \in Opening => ~Touched(i)
         /\ job[j].pc \in Closing => Touched(i)
<1>1. log[i].rollback = ""
  BY DEF Fit, Ready, OnTrack, OneWay
<1>2. job[j].pc \in Opening => ~Touched(i)
  BY DEF Fit, Ready, OnTrack, Forward, Touched
<1>3. job[j].pc \in Closing => inst[i].files = "minqlxtended"
  BY DEF Fit, Ready, OnTrack, Forward
<1>4. job[j].pc \in Closing => Touched(i)
  BY <1>3 DEF Fit, Ready, RecordInv, JournalCovers, Touched
<1>5. QED
  BY <1>1, <1>2, <1>4 DEF RolledBack

LEMMA StopAskFine ==
  ASSUME NEW j \in Jobs, Fit(j), NEW i \in Instances, StopAsk(j, i)
  PROVE  FineStep(j)
<1>1. /\ DataShape /\ job[j].pc = "stop" /\ ~job[j].undo /\ Next1(i, job[j].todo)
      /\ OthersServe(i) /\ inst' = inst
  BY DEF StopAsk, Fit, Ready, At, OnTrack, OneWay, clients, OthersServe, DataShape
<1>2. log'[i].stop = "requested" /\ log'[i].rollback = log[i].rollback
  BY <1>1 DEF StopAsk, DataShape, LogFields
<1>3. Loose(i)'
  BY <1>1, <1>2, ForwardOf DEF Loose, RolledBack
<1>4. \A k \in Instances : Fine(k)'
  BY <1>1, <1>3, LooseNext, OneFine DEF Fit
<1>5. job'[j].pc = "stopcall" /\ ~job'[j].undo /\ job'[j].todo = job[j].todo
  BY <1>1, GotoMoves DEF StopAsk, Moves
<1>6. ASSUME NEW k \in job'[j].todo
      PROVE  log'[k].stop = IF Next1(k, job'[j].todo) THEN "requested" ELSE ""
  <2>1. k \in Instances /\ k \in job[j].todo /\ (Next1(k, job[j].todo) <=> k = i)
    BY <1>1, <1>5, OnlyNext DEF DataShape
  <2>2. log[k].stop = ""
    BY <1>1, <2>1 DEF Fit, FineTrack, ForwardFine
  <2>3. QED
    BY <1>1, <1>2, <1>5, <2>1, <2>2 DEF OthersServe
<1>7. FineTrack(j)'
  BY <1>5, <1>6 DEF FineTrack, ForwardFine, BackFine, Stopping, Starting
<1>8. QED
  BY <1>4, <1>7 DEF FineStep

\* An instance was stopped, or seen to be.
LEMMA StoppedFine ==
  ASSUME NEW j \in Jobs, Fit(j), NEW i \in Instances, Stopped(j, i) \/ StopVerify(j, i)
  PROVE  FineStep(j)
<1>1. /\ DataShape /\ job[j].pc \in Emptying /\ ~job[j].undo /\ Next1(i, job[j].todo)
      /\ job[j].pc \in Opening /\ meddled' = meddled
  BY DEF Stopped, StopVerify, Fit, Ready, At, OnTrack, OneWay, Emptying, Stopping, Opening, clients
<1>2. PICK s \in {"ok", "failed", "verified_inactive"} :
          /\ log' = [log EXCEPT ![i].stop = s]
          /\ inst' = inst \/ inst' = [inst EXCEPT ![i].status = "stopped"]
          /\ s = "verified_inactive" => inst' = inst /\ job[j].pc = "stop"
          /\ \/ Goto(j, "rollback")
             \/ s # "failed" /\ Done(j, i, "stop", "install")
  BY DEF Stopped, StopVerify, At
<1>3. /\ log'[i].stop = s /\ log'[i].rollback = log[i].rollback /\ log'[i].original = log[i].original
      /\ \A k \in Instances \ {i} : log'[k] = log[k] /\ inst'[k] = inst[k]
  BY <1>1, <1>2 DEF DataShape, LogFields
<1>4. OthersServe(i)
  BY <1>1, <1>3 DEF OthersServe
<1>5. Fine(i)'
  <2>1. CASE s # "verified_inactive"
    <3>1. Loose(i)'
      BY <1>1, <1>3, <2>1, ForwardOf DEF Loose, RolledBack
    <3>2. QED
      BY <3>1, LooseNext
  <2>2. CASE s = "verified_inactive"
    <3>1. log[i].stop = "" /\ ~Touched(i) /\ ~RolledBack(i)
      BY <1>1, <1>2, <2>2, ForwardOf DEF Fit, FineTrack, ForwardFine, Next1
    <3>2. Fine(i) /\ inst' = inst /\ ~RolledBack(i)'
      BY <1>2, <1>3, <2>2, <3>1 DEF Fit, RolledBack
    <3>3. QED
      BY <1>1, <1>3, <3>1, <3>2 DEF Fine, Restored, Spared
  <2>3. QED
    BY <2>1, <2>2
<1>6. \A k \in Instances : Fine(k)'
  BY <1>4, <1>5, OneFine DEF Fit
<1>7. FineTrack(j)'
  <2>1. CASE Goto(j, "rollback")
    <3>1. job'[j].pc \notin Aimed
      BY <1>1, <2>1, GotoMoves DEF Moves, Aimed, Stopping, Starting
    <3>2. QED
      BY <3>1, PlainTrack
  <2>2. CASE Stages(j, "install")
    <3>1. job'[j].pc \notin Aimed
      BY <2>2 DEF Stages, Aimed, Stopping, Starting
    <3>2. QED
      BY <3>1, PlainTrack
  <2>3. CASE Drops(j, i, "stop")
    <3>1. job'[j].pc = "stop" /\ ~job'[j].undo /\ job'[j].todo = job[j].todo \ {i}
      BY <1>1, <2>3 DEF Drops
    <3>2. ASSUME NEW k \in job'[j].todo
          PROVE  log'[k].stop = ""
      <4>1. k \in Instances \ {i} /\ k \in job[j].todo /\ ~Next1(k, job[j].todo)
        BY <1>1, <3>1, OnlyNext DEF DataShape
      <4>2. log[k].stop = ""
        BY <1>1, <4>1 DEF Fit, FineTrack, ForwardFine, Emptying
      <4>3. QED
        BY <1>3, <4>1, <4>2
    <3>3. QED
      BY <3>1, <3>2 DEF FineTrack, ForwardFine, BackFine, Stopping, Starting
  <2>4. QED
    BY <1>1, <1>2, <2>1, <2>2, <2>3, DoneMoves
<1>8. QED
  BY <1>6, <1>7 DEF FineStep

\* Trees and files: what was touched is owed a restore.
LEMMA TouchFine ==
  ASSUME NEW j \in Jobs, Fit(j), NEW i \in Instances, OthersServe(i), ~job[j].undo,
         Touched(i)', log'[i].rollback = log[i].rollback
  PROVE  \A k \in Instances : Fine(k)'
<1>1. Loose(i)'
  BY ForwardOf DEF Loose, RolledBack
<1>2. QED
  BY <1>1, LooseNext, OneFine DEF Fit

LEMMA AskFine ==
  ASSUME NEW j \in Jobs, Fit(j), NEW i \in Instances, SwapAsk(j, i) \/ ConfigureAsk(j, i)
  PROVE  FineStep(j)
<1>1. DataShape /\ ~job[j].undo /\ meddled' = meddled
  BY DEF SwapAsk, ConfigureAsk, Fit, Ready, At, OnTrack, OneWay, clients
<1>2. OthersServe(i)
  BY <1>1 DEF SwapAsk, ConfigureAsk, OthersServe, DataShape
<1>3. Touched(i)' /\ log'[i].rollback = log[i].rollback
  <2>1. CASE log' = [log EXCEPT ![i].convert = "swapping"]
    BY <1>1, <2>1 DEF DataShape, LogFields, Touched
  <2>2. CASE log' = [log EXCEPT ![i].configure = "requested"]
    BY <1>1, <2>2 DEF DataShape, LogFields, Touched
  <2>3. QED
    BY <2>1, <2>2 DEF SwapAsk, ConfigureAsk
<1>4. job'[j].pc \in {"swapping", "play"}
  BY <1>1, GotoMoves DEF SwapAsk, ConfigureAsk, Moves
<1>5. job'[j].pc \notin Aimed
  BY <1>4 DEF Aimed, Stopping, Starting
<1>6. QED
  BY <1>1, <1>2, <1>3, <1>5, TouchFine, PlainTrack DEF FineStep

LEMMA SwapFine ==
  ASSUME NEW j \in Jobs, Fit(j), NEW i \in Instances, Swap(j, i)
  PROVE  FineStep(j)
<1>1. DataShape /\ job[j].pc = "swapping" /\ ~job[j].undo /\ meddled' = meddled
      /\ Next1(i, job[j].todo)
  BY DEF Swap, Fit, Ready, At, OnTrack, OneWay, clients
<1>2. OthersServe(i)
  BY <1>1 DEF Swap, OthersServe, DataShape
<1>3. log[i].convert # ""
  BY <1>1 DEF Fit, Ready, OnTrack, Forward
<1>4. log'[i].convert # "" /\ log'[i].rollback = log[i].rollback
  <2>1. CASE log' = [log EXCEPT ![i].convert = "swapped"]
    BY <1>1, <2>1 DEF DataShape, LogFields
  <2>2. QED
    BY <1>3, <2>1 DEF Swap
<1>5. job'[j].pc \in {"rollback", "release", "swap", "runtime"}
  BY <1>1, GotoMoves, DoneMoves DEF Swap, Moves, Stages, Drops
<1>6. job'[j].pc \notin Aimed
  BY <1>5 DEF Aimed, Stopping, Starting
<1>7. QED
  BY <1>1, <1>2, <1>4, <1>6, TouchFine, PlainTrack DEF FineStep, Touched

LEMMA PlayBeginsFine ==
  ASSUME NEW j \in Jobs, Fit(j), NEW i \in Instances, PlayBegins(j, i)
  PROVE  FineStep(j)
<1>1. DataShape /\ meddled' = meddled /\ Next1(i, job[j].todo)
  BY DEF Fit, Ready, PlayBegins, clients
<1>2. host.runtime = IF At(j, "play") THEN "minqlxtended" ELSE "minqlx"
  <2>1. CASE At(j, "play")
    BY <2>1 DEF Fit, Ready, OnTrack, OneWay, Forward, At, Playing
  <2>2. CASE ~At(j, "play")
    <3>1. Restores(j)
      BY <2>2 DEF PlayBegins, At, Restores
    <3>2. QED
      BY <1>1, <2>2, <3>1, RestoringFacts DEF Fit, Ready
  <2>3. QED
    BY <2>1, <2>2
<1>3. log' = log /\ inst' = inst
      /\ \E p \in {"playing", "restoring"} : job' = [job EXCEPT ![j].known = Ended, ![j].pc = p]
  BY <1>2 DEF PlayBegins
<1>4. job'[j].pc \in {"playing", "restoring"}
  BY <1>1, <1>3 DEF DataShape, JobFields
<1>5. job'[j].pc \notin Aimed
  BY <1>4 DEF Aimed, Stopping, Starting
<1>6. QED
  BY <1>1, <1>3, <1>5, PlainStep DEF Looks

LEMMA ConfigureFine ==
  ASSUME NEW j \in Jobs, Fit(j), NEW i \in Instances, Configure(j, i)
  PROVE  FineStep(j)
<1>1. DataShape /\ job[j].pc = "playing" /\ ~job[j].undo /\ meddled' = meddled
      /\ Next1(i, job[j].todo)
  BY DEF Configure, Fit, Ready, At, OnTrack, OneWay, clients
<1>2. OthersServe(i)
  BY <1>1 DEF Configure, OthersServe, DataShape
<1>3. log[i].configure # ""
  BY <1>1 DEF Fit, Ready, OnTrack, Forward
<1>4. log'[i].configure # "" /\ log'[i].rollback = log[i].rollback
  <2>1. CASE log' = [log EXCEPT ![i].configure = "ok"]
    BY <1>1, <2>1 DEF DataShape, LogFields
  <2>2. CASE log' = [log EXCEPT ![i].configure = "failed"]
    BY <1>1, <2>2 DEF DataShape, LogFields
  <2>3. QED
    BY <1>3, <2>1, <2>2 DEF Configure
<1>5. \A k \in Instances : Fine(k)'
  BY <1>1, <1>2, <1>4, TouchFine DEF Touched
<1>6. FineTrack(j)'
  <2>1. CASE Done(j, i, "configure", "start")
    <3>1. \/ job[j].todo = {i} /\ Stages(j, "start")
          \/ job[j].todo # {i} /\ Drops(j, i, "configure")
      BY <1>1, <2>1, DoneMoves
    <3>2. CASE Stages(j, "start")
      <4>1. ~job'[j].undo /\ job'[j].pc = "start" /\ job'[j].todo = Instances
        BY <1>1, <3>2 DEF Stages
      <4>2. QED
        BY <4>1 DEF FineTrack, ForwardFine, BackFine, Stopping, Starting
    <3>3. CASE Drops(j, i, "configure")
      <4>1. job'[j].pc \notin Aimed
        BY <3>3 DEF Drops, Aimed, Stopping, Starting
      <4>2. QED
        BY <4>1, PlainTrack
    <3>4. QED
      BY <3>1, <3>2, <3>3
  <2>2. CASE Goto(j, "rollback") \/ Goto(j, "release")
    <3>1. job'[j].pc \notin Aimed
      BY <1>1, <2>2, GotoMoves DEF Moves, Aimed, Stopping, Starting
    <3>2. QED
      BY <3>1, PlainTrack
  <2>3. QED
    BY <2>1, <2>2 DEF Configure
<1>7. QED
  BY <1>5, <1>6 DEF FineStep

\* The starts of an upgrade.
LEMMA StartAskFine ==
  ASSUME NEW j \in Jobs, Fit(j), NEW i \in Instances, StartAsk(j, i)
  PROVE  FineStep(j)
<1>1. /\ DataShape /\ job[j].pc = "start" /\ ~job[j].undo /\ meddled' = meddled
      /\ Next1(i, job[j].todo) /\ log' = log /\ inst' = inst /\ log[i].original = "running"
  BY DEF StartAsk, Fit, Ready, At, OnTrack, OneWay, clients
<1>2. job'[j].pc = "startcall" /\ ~job'[j].undo /\ job'[j].todo = job[j].todo
  BY <1>1, GotoMoves DEF StartAsk, Moves
<1>3. \A k \in Instances : Next1(k, job'[j].todo) => log'[k].original = "running"
  BY <1>1, <1>2, OnlyNext
<1>4. \A k \in Instances \ job'[j].todo : AsBefore(k)'
  BY <1>1, <1>2 DEF Fit, FineTrack, ForwardFine, AsBefore
<1>5. FineTrack(j)'
  BY <1>2, <1>3, <1>4 DEF FineTrack, ForwardFine, BackFine, Stopping, Starting
<1>6. \A k \in Instances : Fine(k)'
  BY <1>1, SameFine DEF Fit, Looks
<1>7. QED
  BY <1>5, <1>6 DEF FineStep

LEMMA StartedFine ==
  ASSUME NEW j \in Jobs, Fit(j), NEW i \in Instances, Started(j, i) \/ StartVerify(j, i)
  PROVE  FineStep(j)
<1>1. /\ DataShape /\ job[j].pc \in {"start"} \cup Starting /\ ~job[j].undo /\ meddled' = meddled
      /\ Next1(i, job[j].todo) /\ log' = log
  BY DEF Started, StartVerify, Fit, Ready, At, OnTrack, OneWay, clients, Starting
<1>2. job[j].pc \in Closing
  BY <1>1 DEF Closing
<1>3. CASE inst' = inst /\ Goto(j, "rollback")
  BY <1>1, <1>3, PlainGoto DEF Aimed, Stopping, Starting
<1>4. CASE /\ Done(j, i, "start", "succeed")
           /\ \/ /\ Started(j, i) /\ inst[i].svc = "active"
                 /\ inst' = [inst EXCEPT ![i].status = "running"]
              \/ /\ StartVerify(j, i) /\ inst[i].svc = "inactive"
                 /\ inst' = [inst EXCEPT ![i].status = "stopped"]
  <2>1. OthersServe(i)
    BY <1>1, <1>4 DEF OthersServe, DataShape
  <2>2. AsBefore(i)'
    <3>1. CASE /\ Started(j, i) /\ inst[i].svc = "active"
               /\ inst' = [inst EXCEPT ![i].status = "running"]
      <4>1. log[i].original = "running"
        BY <1>1, <3>1 DEF Fit, FineTrack, ForwardFine, Started, At, Starting
      <4>2. QED
        BY <1>1, <3>1, <4>1 DEF AsBefore, DataShape, InstFields
    <3>2. CASE /\ StartVerify(j, i) /\ inst[i].svc = "inactive"
               /\ inst' = [inst EXCEPT ![i].status = "stopped"]
      <4>1. log[i].original = "stopped"
        BY <3>2 DEF StartVerify
      <4>2. QED
        BY <1>1, <3>2, <4>1 DEF AsBefore, DataShape, InstFields
    <3>3. QED
      BY <1>4, <3>1, <3>2
  <2>3. \A k \in Instances : Fine(k)'
    BY <1>1, <1>2, <2>1, ForwardOf, TouchFine DEF Touched
  <2>4. \A k \in Instances \ job[j].todo : AsBefore(k)
    BY <1>1 DEF Fit, FineTrack, ForwardFine
  <2>5. \A k \in Instances \ (job[j].todo \ {i}) : AsBefore(k)'
    <3>1. ASSUME NEW k \in Instances \ (job[j].todo \ {i}), k # i
          PROVE  AsBefore(k)'
      <4>1. AsBefore(k) /\ inst'[k] = inst[k]
        BY <2>1, <2>4, <3>1 DEF OthersServe
      <4>2. QED
        BY <1>1, <4>1 DEF AsBefore
    <3>2. QED
      BY <2>2, <3>1
  <2>6. \/ job[j].todo = {i} /\ Stages(j, "succeed")
        \/ job[j].todo # {i} /\ Drops(j, i, "start")
    BY <1>1, <1>4, DoneMoves
  <2>7. CASE job[j].todo = {i} /\ Stages(j, "succeed")
    <3>1. job'[j].pc = "succeed" /\ ~job'[j].undo /\ \A k \in Instances : AsBefore(k)'
      BY <1>1, <2>5, <2>7 DEF Stages
    <3>2. FineTrack(j)'
      BY <3>1 DEF FineTrack, ForwardFine, BackFine, Stopping, Starting
    <3>3. QED
      BY <2>3, <3>2 DEF FineStep
  <2>8. CASE Drops(j, i, "start")
    <3>1. job'[j].pc = "start" /\ ~job'[j].undo /\ \A k \in Instances \ job'[j].todo : AsBefore(k)'
      BY <1>1, <2>5, <2>8 DEF Drops
    <3>2. FineTrack(j)'
      BY <3>1 DEF FineTrack, ForwardFine, BackFine, Stopping, Starting
    <3>3. QED
      BY <2>3, <3>2 DEF FineStep
  <2>9. QED
    BY <2>6, <2>7, <2>8
<1>5. QED
  BY <1>3, <1>4 DEF Started, StartVerify

-----------------------------------------------------------------------------
(* The services.                                                           *)

\* Whose service is stopped or started is to be restored if the upgrade fails.
LEMMA ServedLoose ==
  ASSUME NEW j \in Jobs, Fit(j), NEW i \in Instances, Next1(i, job[j].todo),
         job[j].pc \in Stopping \cup Starting
  PROVE  Loose(i)
<1>1. CASE ~job[j].undo /\ job[j].pc \in Stopping
  <2>1. log[i].stop = "requested"
    BY <1>1 DEF Fit, FineTrack, ForwardFine, Next1
  <2>2. QED
    BY <1>1, <2>1, ForwardOf DEF Loose
<1>2. CASE ~job[j].undo /\ job[j].pc \in Starting
  BY <1>2, ForwardOf DEF Loose, Closing
<1>3. CASE job[j].undo /\ job[j].pc \in Stopping
  BY <1>3 DEF Fit, FineTrack, BackFine, Next1, Loose, Pending
<1>4. CASE job[j].undo /\ job[j].pc \in Starting
  <2>1. Restores(j) /\ job[j].pc # "tree"
    BY <1>4 DEF Restores, Starting
  <2>2. ~RolledBack(i)
    BY <2>1, RestoringFacts DEF Fit, Ready
  <2>3. Touched(i) \/ log[i].stop \in {"ok", "requested"}
    BY <1>4 DEF Fit, FineTrack, BackFine
  <2>4. QED
    BY <2>2, <2>3 DEF Loose
<1>5. QED
  BY <1>1, <1>2, <1>3, <1>4

LEMMA ServedFine ==
  ASSUME NEW j \in Jobs, Fit(j), NEW i \in Instances, Next1(i, job[j].todo),
         OthersServe(i), log' = log, NEW p, Moves(j, p),
         \/ job[j].pc \in Stopping /\ p \in Stopping
         \/ job[j].pc \in Starting /\ p \in Starting
  PROVE  FineStep(j)
<1>1. Loose(i)'
  BY ServedLoose DEF Loose, RolledBack, Touched
<1>2. \A k \in Instances : Fine(k)'
  BY <1>1, LooseNext, OneFine DEF Fit
<1>3. job'[j].pc = p /\ job'[j].undo = job[j].undo /\ job'[j].todo = job[j].todo
  BY DEF Moves
<1>4. job[j].todo \subseteq Instances /\ i \in job[j].todo
  BY DEF Next1, Fit, Ready, DataShape
<1>5. \A k \in Instances \ job[j].todo : AsBefore(k) => AsBefore(k)'
  BY <1>4 DEF AsBefore, OthersServe
<1>6. \A k \in Instances : Pending(k) => Pending(k)'
  BY DEF Pending, Touched, RolledBack
<1>7. CASE job[j].pc \in Stopping /\ p \in Stopping
  <2>1. job'[j].pc \in Stopping /\ job'[j].pc \notin {"stop", "start", "succeed"} \cup Starting
    BY <1>3, <1>7 DEF Stopping, Starting
  <2>2. ForwardFine(j)'
    BY <1>3, <1>7, <2>1 DEF ForwardFine, Fit, FineTrack
  <2>3. BackFine(j)'
    BY <1>3, <1>4, <1>6, <1>7, <2>1 DEF BackFine, Fit, FineTrack
  <2>4. QED
    BY <1>2, <2>2, <2>3 DEF FineStep, FineTrack
<1>8. CASE job[j].pc \in Starting /\ p \in Starting
  <2>1. job'[j].pc \in Starting /\ job'[j].pc \notin {"stop", "succeed", "quiesce"} \cup Stopping
    BY <1>3, <1>8 DEF Stopping, Starting
  <2>2. ForwardFine(j)'
    BY <1>3, <1>5, <1>8, <2>1 DEF ForwardFine, Fit, FineTrack
  <2>3. BackFine(j)'
    BY <1>3, <1>8, <2>1 DEF BackFine, Fit, FineTrack, Touched
  <2>4. QED
    BY <1>2, <2>2, <2>3 DEF FineStep, FineTrack
<1>9. QED
  BY <1>7, <1>8

LEMMA ServiceFine ==
  ASSUME NEW j \in Jobs, Fit(j), NEW i \in Instances, ServiceBegins(j, i) \/ ServiceRuns(j, i)
  PROVE  FineStep(j)
<1>1. DataShape /\ Next1(i, job[j].todo) /\ log' = log /\ meddled' = meddled
  BY DEF Fit, Ready, ServiceBegins, ServiceRuns, clients
<1>2. CASE ServiceBegins(j, i)
  <2>1. PICK p \in {"stopplay", "startplay"} :
            /\ Goto(j, p)
            /\ job[j].pc = IF p = "stopplay" THEN "stopcall" ELSE "startcall"
            /\ \E s : inst' = [inst EXCEPT ![i].status = s]
    BY <1>2 DEF ServiceBegins, At
  <2>2. Moves(j, p) /\ OthersServe(i)
    BY <1>1, <2>1, GotoMoves DEF OthersServe, DataShape
  <2>3. QED
    BY <1>1, <2>1, <2>2, ServedFine DEF Stopping, Starting
<1>3. CASE ServiceRuns(j, i)
  <2>1. \E svc, status : inst' = [inst EXCEPT ![i].svc = svc, ![i].status = status]
    BY <1>3 DEF ServiceRuns
  <2>2. /\ job[j].pc \in {"stopplay", "startplay"}
        /\ \E ok : job' = [job EXCEPT ![j].ok = ok,
                                      ![j].pc = IF @ = "stopplay" THEN "stopped" ELSE "started"]
    BY <1>3 DEF ServiceRuns, At
  <2>3. PICK p \in {"stopped", "started"} :
            Moves(j, p) /\ job[j].pc = IF p = "stopped" THEN "stopplay" ELSE "startplay"
    BY <1>1, <2>2 DEF DataShape, JobFields, Moves
  <2>4. OthersServe(i)
    BY <1>1, <2>1 DEF OthersServe, DataShape
  <2>5. QED
    BY <1>1, <2>3, <2>4, ServedFine DEF Stopping, Starting
<1>4. QED
  BY <1>2, <1>3

-----------------------------------------------------------------------------
(* Back.                                                                   *)

LEMMA RollbackFine ==
  ASSUME NEW j \in Jobs, Fit(j), Rollback(j)
  PROVE  FineStep(j)
<1>1. DataShape /\ log' = log /\ inst' = inst /\ meddled' = meddled
  BY DEF Fit, Ready, Rollback, clients
<1>2. /\ job'[j].undo /\ job'[j].todo = {k \in Instances : Touched(k) /\ ~RolledBack(k)}
      /\ job'[j].pc \in {"release", "back", "quiesce"}
  BY <1>1 DEF Rollback, DataShape, JobFields
<1>3. \A k \in job'[j].todo : Pending(k)'
  BY <1>1, <1>2 DEF Pending, Touched, RolledBack
<1>4. FineTrack(j)'
  BY <1>2, <1>3 DEF FineTrack, ForwardFine, BackFine, Stopping, Starting
<1>5. \A k \in Instances : Fine(k)'
  BY <1>1, SameFine DEF Fit, Looks
<1>6. QED
  BY <1>4, <1>5 DEF FineStep

\* What is stopped is pending, whatever comes of it.
LEMMA QuiescedTrack ==
  ASSUME NEW j \in Jobs, Fit(j), NEW i \in Instances, job[j].undo,
         job[j].pc \in {"quiesce"} \cup Stopping, OthersServe(i),
         job'[j].undo, job'[j].todo = job[j].todo \ {i}, job'[j].pc \in {"quiesce", "back"}
  PROVE  FineTrack(j)'
<1>1. \A k \in job'[j].todo : k \in Instances \ {i} /\ Pending(k)
  BY DEF Fit, Ready, DataShape, FineTrack, BackFine
<1>2. \A k \in job'[j].todo : Pending(k)'
  BY <1>1 DEF OthersServe, Pending, Touched, RolledBack
<1>3. QED
  BY <1>2 DEF FineTrack, ForwardFine, BackFine, Stopping, Starting

\* A failure leaves an instance owed its restore.
LEMMA FailFine ==
  ASSUME NEW j \in Jobs, Fit(j), NEW i \in Instances, meddled' = meddled,
         NEW now, NEW p, NEW q, Fails(j, i, now, p, q),
         Touched(i) \/ log[i].stop \notin {"", "verified_inactive"}
  PROVE  \A k \in Instances : Fine(k)'
<1>1. Loose(i)'
  BY DEF Fails, Loose, RolledBack, Touched
<1>2. QED
  BY <1>1, FailServes, LooseNext, OneFine DEF Fit

LEMMA QuiesceFine ==
  ASSUME NEW j \in Jobs, Fit(j), NEW i \in Instances, Quiesce(j, i) \/ Quiesced(j, i)
  PROVE  FineStep(j)
<1>1. DataShape /\ meddled' = meddled /\ Next1(i, job[j].todo) /\ i \in job[j].todo
  BY DEF Fit, Ready, Quiesce, Quiesced, clients, Next1
<1>2. job[j].undo /\ job[j].pc \in {"quiesce"} \cup Stopping
  BY DEF Quiesce, Quiesced, At, Fit, Ready, OnTrack, OneWay, Stopping
<1>3. Touched(i) /\ ~RolledBack(i)
  BY <1>1, <1>2 DEF Fit, FineTrack, BackFine, Pending
<1>4. CASE FailInstance(j, i, inst[i], "quiesce", "back")
  <2>1. DOMAIN inst[i] = InstFields
    BY <1>1 DEF DataShape
  <2>2. Fails(j, i, inst[i], "quiesce", "back")
    BY <1>1, <1>4, <2>1, FailFacts
  <2>3. OthersServe(i)
    BY <1>1, <2>2, FailServes
  <2>4. FineTrack(j)'
    BY <1>2, <2>2, <2>3, QuiescedTrack DEF Fails
  <2>5. QED
    BY <1>1, <1>3, <2>2, <2>4, FailFine DEF FineStep
<1>5. CASE /\ log' = log /\ inst' = inst /\ Passed(j, i, job[j].failed, "quiesce", "back")
  <2>1. OthersServe(i)
    BY <1>1, <1>5 DEF OthersServe
  <2>2. FineTrack(j)'
    BY <1>1, <1>2, <1>5, <2>1, PassedMoves, QuiescedTrack
  <2>3. \A k \in Instances : Fine(k)'
    BY <1>1, <1>5, SameFine DEF Fit, Looks
  <2>4. QED
    BY <2>2, <2>3 DEF FineStep
<1>6. CASE log' = [log EXCEPT ![i].rollback = "failed"] /\ inst' = inst /\ Goto(j, "stopcall")
  <2>1. OthersServe(i)
    BY <1>1, <1>6 DEF OthersServe, DataShape
  <2>2. /\ log'[i].rollback = "failed" /\ log'[i].convert = log[i].convert
        /\ log'[i].configure = log[i].configure
    BY <1>1, <1>6 DEF DataShape, LogFields
  <2>3. Loose(i)' /\ Pending(i)'
    BY <1>3, <2>2 DEF Loose, Pending, Touched, RolledBack
  <2>4. \A k \in Instances : Fine(k)'
    BY <2>1, <2>3, LooseNext, OneFine DEF Fit
  <2>5. job'[j].pc = "stopcall" /\ job'[j].undo /\ job'[j].todo = job[j].todo
    BY <1>1, <1>2, <1>6, GotoMoves DEF Moves
  <2>6. ASSUME NEW k \in job'[j].todo
        PROVE  Pending(k)'
    <3>1. k \in Instances /\ Pending(k)
      BY <1>1, <1>2, <2>5 DEF DataShape, Fit, FineTrack, BackFine
    <3>2. k # i => Pending(k)'
      BY <2>1, <3>1 DEF OthersServe, Pending, Touched, RolledBack
    <3>3. QED
      BY <2>3, <3>2
  <2>7. FineTrack(j)'
    BY <2>5, <2>6 DEF FineTrack, ForwardFine, BackFine, Stopping, Starting
  <2>8. QED
    BY <2>4, <2>7 DEF FineStep
<1>7. QED
  BY <1>4, <1>5, <1>6 DEF Quiesce, Quiesced

LEMMA ReturnFailsFine ==
  ASSUME NEW j \in Jobs, Fit(j), NEW i \in Instances, meddled' = meddled,
         NEW now, DOMAIN now = InstFields, FailInstance(j, i, now, "tree", "finish"),
         Touched(i) \/ log[i].stop \notin {"", "verified_inactive"}
  PROVE  FineStep(j)
<1>1. Fails(j, i, now, "tree", "finish")
  BY FailFacts DEF Fit, Ready
<1>2. job'[j].pc \notin Aimed
  BY <1>1 DEF Fails, Aimed, Stopping, Starting
<1>3. QED
  BY <1>1, <1>2, FailFine, PlainTrack DEF FineStep

LEMMA RestoreTreeFine ==
  ASSUME NEW j \in Jobs, Fit(j), NEW i \in Instances, RestoreTree(j, i)
  PROVE  FineStep(j)
<1>1. DataShape /\ meddled' = meddled
  BY DEF Fit, Ready, RestoreTree, clients
<1>2. CASE /\ Goto(j, "files") /\ log' = log
           /\ inst' = inst \/ inst' = [inst EXCEPT ![i].tree = "minqlx"]
  <2>1. \A k \in Instances : inst'[k].svc = inst[k].svc /\ inst'[k].status = inst[k].status
    <3>1. CASE inst' = [inst EXCEPT ![i].tree = "minqlx"]
      BY <1>1, <3>1 DEF DataShape, InstFields
    <3>2. QED
      BY <1>2, <3>1
  <2>2. job'[j].pc \notin Aimed
    BY <1>1, <1>2, GotoMoves DEF Moves, Aimed, Stopping, Starting
  <2>3. QED
    BY <1>1, <1>2, <2>1, <2>2, PlainStep DEF Looks
<1>3. CASE /\ log[i].convert # ""
           /\ \E tree \in {inst[i].tree, "mixed"} :
                 FailInstance(j, i, [inst[i] EXCEPT !.tree = tree], "tree", "finish")
  <2>1. PICK tree : FailInstance(j, i, [inst[i] EXCEPT !.tree = tree], "tree", "finish")
    BY <1>3
  <2> DEFINE now == [inst[i] EXCEPT !.tree = tree]
  <2>2. DOMAIN now = InstFields /\ FailInstance(j, i, now, "tree", "finish")
    BY <1>1, <2>1 DEF DataShape
  <2> HIDE DEF now
  <2>3. QED
    BY <1>1, <1>3, <2>2, ReturnFailsFine DEF Touched
<1>4. QED
  BY <1>2, <1>3 DEF RestoreTree

LEMMA RestoreFilesFine ==
  ASSUME NEW j \in Jobs, Fit(j), NEW i \in Instances, RestoreFiles(j, i)
  PROVE  FineStep(j)
<1>1. DataShape /\ meddled' = meddled /\ Next1(i, job[j].todo) /\ job[j].pc = "restoring"
  BY DEF Fit, Ready, RestoreFiles, clients, At
<1>2. Touched(i)
  <2>1. Restores(j)
    BY <1>1 DEF Restores
  <2>2. QED
    BY <1>1, <2>1, RestoringFacts DEF Fit, Ready, Touched
<1>3. PICK files : \/ FailInstance(j, i, [inst[i] EXCEPT !.files = files], "tree", "finish")
                   \/ /\ inst' = [inst EXCEPT ![i] = [inst[i] EXCEPT !.files = files]]
                      /\ log' = log /\ (Goto(j, "state") \/ Goto(j, "release"))
  BY DEF RestoreFiles
<1> DEFINE now == [inst[i] EXCEPT !.files = files]
<1>4. DOMAIN now = InstFields /\ now.svc = inst[i].svc /\ now.status = inst[i].status
  BY <1>1 DEF DataShape, InstFields
<1>5. CASE FailInstance(j, i, now, "tree", "finish")
  <2> HIDE DEF now
  <2>1. QED
    BY <1>1, <1>2, <1>4, <1>5, ReturnFailsFine
<1>6. CASE inst' = [inst EXCEPT ![i] = now] /\ log' = log /\ (Goto(j, "state") \/ Goto(j, "release"))
  <2> HIDE DEF now
  <2>1. \A k \in Instances : Looks(k)
    BY <1>1, <1>4, <1>6 DEF DataShape, Looks
  <2>2. job'[j].pc \notin Aimed
    BY <1>1, <1>6, GotoMoves DEF Moves, Aimed, Stopping, Starting
  <2>3. QED
    BY <1>1, <2>1, <2>2, PlainStep
<1>7. QED
  BY <1>3, <1>5, <1>6

\* What was restored is as it was before; what was left alone keeps its status.
LEMMA RestoreStateFine ==
  ASSUME NEW j \in Jobs, Fit(j), NEW i \in Instances, RestoreState(j, i)
  PROVE  FineStep(j)
<1>1. DataShape /\ meddled' = meddled /\ Next1(i, job[j].todo) /\ job[j].pc = "state"
  BY DEF Fit, Ready, RestoreState, clients, At
<1>2. job[j].undo /\ ~RolledBack(i)
  <2>1. Restores(j)
    BY <1>1 DEF Restores
  <2>2. QED
    BY <1>1, <2>1, RestoringFacts DEF Fit, Ready
<1>3. CASE /\ ~Touched(i) /\ log[i].stop # "ok" /\ LeaveUntouched(j, i)
  <2>1. inst' = inst /\ log' = [log EXCEPT ![i].rollback = "untouched"]
        /\ Passed(j, i, job[j].failed, "tree", "finish")
    BY <1>3 DEF LeaveUntouched
  <2>2. /\ log'[i].stop = log[i].stop /\ log'[i].original = log[i].original
        /\ log'[i].rollback = "untouched"
    BY <1>1, <2>1 DEF DataShape, LogFields
  <2>3. OthersServe(i)
    BY <1>1, <2>1 DEF OthersServe, DataShape
  <2>4. Fine(i)'
    BY <1>1, <1>3, <2>1, <2>2 DEF Fit, Fine, Restored, Spared
  <2>5. job'[j].pc \notin Aimed
    BY <1>1, <2>1, PassedMoves DEF Aimed, Stopping, Starting
  <2>6. QED
    BY <2>3, <2>4, <2>5, OneFine, PlainTrack DEF FineStep, Fit
<1>4. CASE /\ Touched(i) \/ log[i].stop \in {"ok", "requested"}
           /\ log[i].original = "running" /\ log' = log /\ inst' = inst
           /\ Goto(j, "startcall") \/ job' = [job EXCEPT ![j].ok = TRUE, ![j].pc = "started"]
  <2>1. PICK p \in {"startcall", "started"} : Moves(j, p)
    BY <1>1, <1>4, GotoMoves DEF DataShape, JobFields, Moves
  <2>2. job'[j].undo /\ job'[j].pc \in {"startcall", "started"} /\ job'[j].todo = job[j].todo
    BY <1>2, <2>1 DEF Moves
  <2>3. \A k \in Instances : Next1(k, job'[j].todo) =>
            log'[k].original = "running" /\ (Touched(k)' \/ log'[k].stop \in {"ok", "requested"})
    BY <1>1, <1>4, <2>2, OnlyNext DEF Touched
  <2>4. FineTrack(j)'
    BY <2>2, <2>3 DEF FineTrack, ForwardFine, BackFine, Stopping, Starting
  <2>5. \A k \in Instances : Fine(k)'
    BY <1>1, <1>4, SameFine DEF Fit, Looks
  <2>6. QED
    BY <2>4, <2>5 DEF FineStep
<1>5. CASE /\ log[i].original = "stopped" /\ inst[i].svc = "inactive"
           /\ inst' = [inst EXCEPT ![i].status = "stopped"]
           /\ log' = [log EXCEPT ![i].rollback = "ok"]
           /\ Passed(j, i, job[j].failed, "tree", "finish")
  <2>1. log'[i].original = "stopped" /\ OthersServe(i)
    BY <1>1, <1>5 DEF OthersServe, DataShape, LogFields
  <2>2. inst'[i].status = "stopped" /\ inst'[i].svc = "inactive"
    BY <1>1, <1>5 DEF DataShape, InstFields
  <2>3. Fine(i)'
    BY <2>1, <2>2 DEF Fine, Restored, Spared, AsBefore
  <2>4. job'[j].pc \notin Aimed
    BY <1>1, <1>5, PassedMoves DEF Aimed, Stopping, Starting
  <2>5. QED
    BY <2>1, <2>3, <2>4, OneFine, PlainTrack DEF FineStep, Fit
<1>6. CASE /\ Touched(i) \/ log[i].stop \notin {"", "verified_inactive"}
           /\ FailInstance(j, i, inst[i], "tree", "finish")
  <2>1. DOMAIN inst[i] = InstFields
    BY <1>1 DEF DataShape
  <2>2. QED
    BY <1>1, <1>6, <2>1, ReturnFailsFine
<1>7. QED
  BY <1>3, <1>4, <1>5, <1>6 DEF RestoreState

LEMMA RestartedFine ==
  ASSUME NEW j \in Jobs, Fit(j), NEW i \in Instances, Restarted(j, i)
  PROVE  FineStep(j)
<1>1. /\ DataShape /\ meddled' = meddled /\ Next1(i, job[j].todo)
      /\ job[j].pc \in Starting /\ job[j].undo
  BY DEF Fit, Ready, Restarted, clients, At, Starting
<1>2. log[i].original = "running" /\ (Touched(i) \/ log[i].stop \in {"ok", "requested"})
  BY <1>1 DEF Fit, FineTrack, BackFine
<1>3. CASE FailInstance(j, i, inst[i], "tree", "finish")
  <2>1. DOMAIN inst[i] = InstFields
    BY <1>1 DEF DataShape
  <2>2. QED
    BY <1>1, <1>2, <1>3, <2>1, ReturnFailsFine
<1>4. CASE /\ inst[i].svc = "active"
           /\ inst' = [inst EXCEPT ![i].status = "running"]
           /\ log' = [log EXCEPT ![i].rollback = "ok"]
           /\ Passed(j, i, job[j].failed, "tree", "finish")
  <2>1. log'[i].original = "running" /\ OthersServe(i)
    BY <1>1, <1>2, <1>4 DEF OthersServe, DataShape, LogFields
  <2>2. inst'[i].status = "running" /\ inst'[i].svc = "active"
    BY <1>1, <1>4 DEF DataShape, InstFields
  <2>3. Fine(i)'
    BY <2>1, <2>2 DEF Fine, Restored, Spared, AsBefore
  <2>4. job'[j].pc \notin Aimed
    BY <1>1, <1>4, PassedMoves DEF Aimed, Stopping, Starting
  <2>5. QED
    BY <2>1, <2>3, <2>4, OneFine, PlainTrack DEF FineStep, Fit
<1>5. QED
  BY <1>3, <1>4 DEF Restarted

-----------------------------------------------------------------------------
\* A worker that dies leaves owed what it was at.
LEMMA CrashFine ==
  ASSUME NEW j \in Jobs, Fit(j), Crash(j)
  PROVE  FineStep(j)
<1>1. DataShape /\ meddled' = meddled /\ log' = log /\ \A i \in Instances : inst'[i] \in CutShort(j, i)
  BY DEF Fit, Ready, Crash, clients
<1>2. job'[j].pc = ""
  <2>1. job' = [job EXCEPT ![j] = NoExecution]
    BY DEF Crash
  <2>2. QED
    BY <1>1, <2>1, NoExecutionFields DEF DataShape
<1>3. ASSUME NEW i \in Instances
      PROVE  Fine(i)'
  <2>1. DOMAIN inst[i] = InstFields /\ inst'[i] \in CutShort(j, i)
    BY <1>1 DEF DataShape
  <2>2. CASE Next1(i, job[j].todo) /\ job[j].pc \in {"stopplay", "startplay"}
    <3>1. Loose(i)
      BY <2>2, ServedLoose DEF Stopping, Starting
    <3>2. Loose(i)'
      BY <1>1, <3>1 DEF Loose, RolledBack, Touched
    <3>3. QED
      BY <3>2, LooseNext
  <2>3. CASE ~(Next1(i, job[j].todo) /\ job[j].pc \in {"stopplay", "startplay"})
    <3>1. \/ inst'[i] = inst[i]
          \/ \E t : inst'[i] = [inst[i] EXCEPT !.tree = t]
          \/ \E f : inst'[i] = [inst[i] EXCEPT !.files = f]
      BY <2>1, <2>3 DEF CutShort
    <3>2. inst'[i].svc = inst[i].svc /\ inst'[i].status = inst[i].status
      BY <2>1, <3>1 DEF InstFields
    <3>3. QED
      BY <1>1, <3>2, SameFine DEF Fit, Looks
  <2>4. QED
    BY <2>2, <2>3
<1>4. QED
  BY <1>2, <1>3 DEF FineStep

LEMMA ClaimedFine ==
  ASSUME NoStall, NEW j \in Jobs, Fit(j), job[j].pc \notin Unclaimed, Typed, WorkAction(j)
  PROVE  FineStep(j)
<1>1. CASE Push(j) \/ Begin(j)
  <2>1. job[j].pc = ""
    BY <1>1 DEF Push, Begin, Typed, IndInv, JobInv
  <2>2. QED
    BY <2>1 DEF Unclaimed
<1>2. CASE TakeLocks(j) \/ LocksRefused(j) \/ Superseded(j)
  BY <1>2, PlainActions
<1>3. CASE ForwardStep(j)
  <2>1. CASE \/ Validate(j) \/ Snapshot(j) \/ Recheck(j) \/ Cancel(j)
             \/ BeginStep(j) \/ Install(j) \/ Succeed(j)
    BY <2>1, PlainActions, RecheckFine, BeginStepFine
  <2>2. CASE \E i \in Instances : StopAsk(j, i) \/ Stopped(j, i) \/ StopVerify(j, i)
    BY <2>2, StopAskFine, StoppedFine
  <2>3. CASE \E i \in Instances : SwapAsk(j, i) \/ Swap(j, i) \/ ConfigureAsk(j, i)
    BY <2>3, AskFine, SwapFine
  <2>4. CASE \E i \in Instances : PlayBegins(j, i) \/ Configure(j, i)
    BY <2>4, PlayBeginsFine, ConfigureFine
  <2>5. CASE \E i \in Instances : StartAsk(j, i) \/ Started(j, i) \/ StartVerify(j, i)
    BY <2>5, StartAskFine, StartedFine
  <2>6. QED
    BY <1>3, <2>1, <2>2, <2>3, <2>4, <2>5 DEF ForwardStep
<1>4. CASE ServiceStep(j)
  BY <1>4, ServiceFine DEF ServiceStep
<1>5. CASE RollbackStep(j)
  <2>1. CASE Rollback(j) \/ RestoreRuntime(j) \/ Finish(j) \/ Finalize(j)
    BY <2>1, RollbackFine, RestoreRuntimeFine, PlainActions
  <2>2. CASE \E i \in Instances : Quiesce(j, i) \/ Quiesced(j, i) \/ Reverify(j, i) \/ RestoreTree(j, i)
    BY <2>2, QuiesceFine, ReverifyFine, RestoreTreeFine
  <2>3. CASE \E i \in Instances : FilesAsk(j, i) \/ RestoreFiles(j, i)
    BY <2>3, PlainActions, RestoreFilesFine
  <2>4. CASE \E i \in Instances : RestoreState(j, i) \/ Restarted(j, i)
    BY <2>4, RestoreStateFine, RestartedFine
  <2>5. QED
    BY <1>5, <2>1, <2>2, <2>3, <2>4 DEF RollbackStep
<1>6. CASE Release(j)
  <2>1. DataShape
    BY TypedShape
  <2>2. job'[j].pc = ""
    BY <1>6, <2>1, NoExecutionFields DEF Release, DataShape
  <2>3. \A i \in Instances : Looks(i) /\ meddled' = meddled
    BY <1>6 DEF Release, Looks, clients
  <2>4. QED
    BY <2>2, <2>3, SameFine DEF FineStep, Fit
<1>7. CASE WorkerFault(j)
  <2>1. ~Stall(j)
    BY DEF Stall, Spend, NoStall
  <2>2. QED
    BY <1>7, <2>1, PlainActions, CrashFine DEF WorkerFault
<1>8. QED
  BY <1>1, <1>2, <1>3, <1>4, <1>5, <1>6, <1>7 DEF WorkAction

-----------------------------------------------------------------------------
(* What a worker does to the state of the operation.                       *)

Ends(j) == Cancel(j) \/ Succeed(j) \/ (Finish(j) /\ job[j].failed = {})

LEMMA StateGoes ==
  ASSUME Typed, NEW j \in Jobs, WorkAction(j), op'.state # op.state
  PROVE  op'.state # "preparing" /\ (Ends(j) \/ op'.state \in Nonterminal)
<1>1. DOMAIN op = RowFields
  BY TypedShape DEF DataShape
<1>2. CASE \/ Push(j) \/ Begin(j) \/ TakeLocks(j) \/ LocksRefused(j) \/ Superseded(j) \/ Release(j)
           \/ ServiceStep(j)
  BY <1>2 DEF Push, Begin, TakeLocks, LocksRefused, Superseded, Release, ServiceStep, ServiceBegins, ServiceRuns
<1>3. CASE ForwardStep(j)
  <2>1. CASE Validate(j) \/ Install(j)
    BY <2>1 DEF Validate, Install
  <2>2. CASE Snapshot(j)
    BY <1>1, <2>2 DEF Snapshot, RowFields
  <2>3. CASE Recheck(j)
    BY <1>1, <2>3 DEF Recheck, RowFields, Nonterminal
  <2>4. CASE BeginStep(j)
    BY <1>1, <2>4 DEF BeginStep, RowFields, Nonterminal
  <2>5. CASE Cancel(j) \/ Succeed(j)
    BY <1>1, <2>5 DEF Cancel, Succeed, Ends, RowFields
  <2>6. CASE \E i \in Instances : \/ StopAsk(j, i) \/ Stopped(j, i) \/ StopVerify(j, i)
                                  \/ SwapAsk(j, i) \/ Swap(j, i) \/ ConfigureAsk(j, i)
    BY <2>6 DEF StopAsk, Stopped, StopVerify, SwapAsk, Swap, ConfigureAsk
  <2>7. CASE \E i \in Instances : \/ PlayBegins(j, i) \/ Configure(j, i) \/ StartAsk(j, i)
                                  \/ Started(j, i) \/ StartVerify(j, i)
    BY <2>7 DEF PlayBegins, Configure, StartAsk, Started, StartVerify
  <2>8. QED
    BY <1>3, <2>1, <2>2, <2>3, <2>4, <2>5, <2>6, <2>7 DEF ForwardStep
<1>4. CASE RollbackStep(j)
  <2>1. CASE Rollback(j)
    BY <1>1, <2>1 DEF Rollback, RowFields, Nonterminal
  <2>2. CASE RestoreRuntime(j)
    BY <1>1, <2>2 DEF RestoreRuntime, RowFields, Nonterminal
  <2>3. CASE Finish(j)
    BY <1>1, <2>3 DEF Finish, Ends, RowFields, Nonterminal
  <2>4. CASE Finalize(j)
    BY <2>4 DEF Finalize
  <2>5. CASE \E i \in Instances : Quiesce(j, i) \/ Quiesced(j, i) \/ Reverify(j, i) \/ RestoreTree(j, i)
    BY <2>5 DEF Quiesce, Quiesced, Reverify, RestoreTree
  <2>6. CASE \E i \in Instances : FilesAsk(j, i) \/ RestoreFiles(j, i) \/ RestoreState(j, i) \/ Restarted(j, i)
    BY <2>6 DEF FilesAsk, RestoreFiles, RestoreState, Restarted
  <2>7. QED
    BY <1>4, <2>1, <2>2, <2>3, <2>4, <2>5, <2>6 DEF RollbackStep
<1>5. CASE WorkerFault(j)
  <2>1. CASE Interrupted(j)
    BY <1>1, <2>1 DEF Interrupted, RowFields
  <2>2. CASE StepFails(j) \/ Crash(j) \/ Stall(j)
    BY <2>2 DEF StepFails, Crash, Stall
  <2>3. QED
    BY <1>5, <2>1, <2>2 DEF WorkerFault
<1>6. QED
  BY <1>2, <1>3, <1>4, <1>5 DEF WorkAction

\* Nothing is recorded and nothing changes on the host while it prepares.
LEMMA WorkUntried ==
  ASSUME Typed, NoStall, NEW j \in Jobs, Fit(j), job[j].pc \notin Unclaimed, WorkAction(j)
  PROVE  Untried'
<1> SUFFICES ASSUME op'.state = "preparing"
             PROVE  Untried'
  BY DEF Untried
<1>1. op.state = "preparing" /\ DataShape
  BY StateGoes, TypedShape
<1>2. job[j].pc \in Early \cup {"lock", "release"}
  BY <1>1 DEF Fit, Ready, OnTrack, OneWay
<1>3. log' = log /\ host' = host
  <2>1. CASE \/ Push(j) \/ Begin(j) \/ TakeLocks(j) \/ LocksRefused(j) \/ Superseded(j) \/ Release(j)
             \/ ServiceStep(j) \/ WorkerFault(j)
    BY <2>1 DEF Push, Begin, TakeLocks, LocksRefused, Superseded, Release, ServiceStep, ServiceBegins,
       ServiceRuns, WorkerFault, StepFails, Interrupted, Crash, Stall
  <2>2. CASE ForwardStep(j)
    <3>1. Validate(j) \/ Snapshot(j) \/ Recheck(j) \/ Cancel(j)
      <4>1. ~(BeginStep(j) \/ Install(j) \/ Succeed(j))
        BY <1>2 DEF Early, At, BeginStep, Install, Succeed
      <4>2. \A i \in Instances : /\ ~StopAsk(j, i) /\ ~Stopped(j, i) /\ ~StopVerify(j, i)
                                 /\ ~SwapAsk(j, i) /\ ~Swap(j, i) /\ ~ConfigureAsk(j, i)
        BY <1>2 DEF Early, At, StopAsk, Stopped, StopVerify, SwapAsk, Swap, ConfigureAsk
      <4>3. \A i \in Instances : /\ ~PlayBegins(j, i) /\ ~Configure(j, i) /\ ~StartAsk(j, i)
                                 /\ ~Started(j, i) /\ ~StartVerify(j, i)
        BY <1>2 DEF Early, At, PlayBegins, Configure, StartAsk, Started, StartVerify
      <4>4. QED
        BY <2>2, <4>1, <4>2, <4>3 DEF ForwardStep
    <3>2. ~Cancel(j)
      BY <1>1 DEF Cancel, DataShape, RowFields
    <3>3. QED
      BY <3>1, <3>2 DEF Validate, Snapshot, Recheck
  <2>3. CASE RollbackStep(j)
    <3>1. ~(Rollback(j) \/ RestoreRuntime(j) \/ Finish(j) \/ Finalize(j))
      BY <1>2 DEF Early, At, Rollback, RestoreRuntime, Finish, Finalize
    <3>2. \A i \in Instances : /\ ~Quiesce(j, i) /\ ~Quiesced(j, i) /\ ~Reverify(j, i)
                               /\ ~RestoreTree(j, i)
      BY <1>2 DEF Early, At, Quiesce, Quiesced, Reverify, RestoreTree
    <3>3. \A i \in Instances : /\ ~FilesAsk(j, i) /\ ~RestoreFiles(j, i) /\ ~RestoreState(j, i)
                               /\ ~Restarted(j, i)
      BY <1>2 DEF Early, At, FilesAsk, RestoreFiles, RestoreState, Restarted
    <3>4. QED
      BY <2>3, <3>1, <3>2, <3>3 DEF RollbackStep
  <2>4. QED
    BY <2>1, <2>2, <2>3 DEF WorkAction
<1>4. QED
  BY <1>1, <1>3 DEF Fit, Untried

\* Each end of an upgrade is what it says.
LEMMA EndFine ==
  ASSUME Typed, NEW j \in Jobs, Fit(j), Ends(j)
  PROVE  UpgradeEnd'
<1>1. /\ DataShape /\ log' = log /\ inst' = inst /\ meddled' = meddled
      /\ host \in [status : {"active", "configuring", "error"}, runtime : {"minqlx", "minqlxtended"}]
  BY DEF Fit, Ready, Ends, Cancel, Succeed, Finish, clients, Typed, TypeInv, TypeOK
<1>2. CASE Cancel(j)
  <2>1. op.state = "preparing"
    BY <1>2 DEF Cancel, At, Typed, IndInv, OwnerInv, Early
  <2>2. /\ host.runtime = "minqlx" /\ host.status = "configuring"
        /\ \A i \in Instances : Unmarked(i) /\ log[i].stop = ""
    BY <2>1 DEF Fit, Ready, RecordInv, PreInv, Untried
  <2>3. host' = [status |-> "active", runtime |-> "minqlx"]
    BY <1>1, <1>2, <2>2 DEF Cancel
  <2>4. \A i \in Instances : inst[i].tree = "minqlx" /\ inst[i].files = "minqlx"
    BY <2>2 DEF Fit, Ready, RecordInv, JournalCovers, Unmarked
  <2>5. \A i \in Instances \ meddled : inst[i].status = log[i].original
    BY <2>2 DEF Fit, Fine, Spared, Touched, Unmarked
  <2>6. op'.state = "failed_preparation"
    BY <1>1, <1>2 DEF Cancel, DataShape, RowFields
  <2>7. QED
    BY <1>1, <2>3, <2>4, <2>5, <2>6 DEF UpgradeEnd, AllOn
<1>3. CASE Succeed(j)
  <2>1. job[j].pc = "succeed" /\ ~job[j].undo
    BY <1>3 DEF Succeed, At, Fit, Ready, OnTrack, OneWay
  <2>2. /\ host.runtime = "minqlxtended"
        /\ \A i \in Instances : inst[i].tree = "minqlxtended" /\ inst[i].files = "minqlxtended"
    BY <2>1 DEF Fit, Ready, OnTrack, Forward, Closing
  <2>3. host' = [status |-> "active", runtime |-> "minqlxtended"]
    BY <1>1, <1>3, <2>2 DEF Succeed
  <2>4. \A i \in Instances : AsBefore(i)'
    BY <1>1, <2>1 DEF Fit, FineTrack, ForwardFine, AsBefore
  <2>5. op'.state = "succeeded"
    BY <1>1, <1>3 DEF Succeed, DataShape, RowFields
  <2>6. QED
    BY <1>1, <2>2, <2>3, <2>4, <2>5 DEF UpgradeEnd, AllOn
<1>4. CASE Finish(j) /\ job[j].failed = {}
  <2>1. job[j].pc = "finish" /\ job[j].undo
    BY <1>4 DEF Finish, At, Fit, Ready, OnTrack, OneWay
  <2>2. host.runtime = "minqlx" /\ \A i \in Instances : RolledBack(i)
    BY <1>4, <2>1 DEF Fit, Ready, OnTrack, Back
  <2>3. \A i \in Instances : inst[i].tree = "minqlx" /\ inst[i].files = "minqlx"
    BY <2>2 DEF Fit, Ready, RecordInv, BackInv, On
  <2>4. host' = [status |-> "active", runtime |-> "minqlx"]
    BY <1>1, <1>4, <2>2 DEF Finish
  <2>5. ASSUME NEW i \in Instances \ meddled
        PROVE  /\ "ok" \in {log[i].stop, log[i].rollback} => AsBefore(i)
               /\ log[i].stop \in {"", "verified_inactive"} => inst[i].status = log[i].original
    BY <2>2, <2>5 DEF Fit, Fine, Restored, Spared
  <2>6. op'.state = "rolled_back"
    BY <1>1, <1>4 DEF Finish, DataShape, RowFields
  <2>7. QED
    BY <1>1, <2>2, <2>3, <2>4, <2>5, <2>6 DEF UpgradeEnd, AllOn, AsBefore, RolledBack
<1>5. QED
  BY <1>2, <1>3, <1>4 DEF Ends

LEMMA IsFit ==
  ASSUME Typed, RecordInv, StillInv, OutcomeInv, NEW j \in Jobs, Claimed(j), Reserved
  PROVE  Fit(j)
BY IsReady DEF OutcomeInv, FineInv, Fit

LEMMA WorkOutcome ==
  ASSUME Typed, SoleInv, NoStall, RecordInv, StillInv, OutcomeInv, NEW j \in Jobs, WorkAction(j)
  PROVE  OutcomeInv' /\ (Reserved /\ ~Reserved' => UpgradeEnd')
<1>1. WorkStep(j) /\ IndInv
  BY WorkerWorks DEF WorkAction, Typed
<1>2. (\A k \in Jobs \ {j} : job'[k] = job[k]) /\ UNCHANGED clients
  BY <1>1 DEF WorkStep, JobStep
<1>3. Reserved' => Reserved
  BY <1>1 DEF WorkStep, RowStep
<1>4. \A k \in Jobs : Claimed(k)' /\ Reserved' => Claimed(k) /\ Reserved
  BY <1>1, <1>3, WorkStepJobs
<1>5. CASE Claimed(j) /\ Reserved
  <2>1. Fit(j) /\ job[j].pc \notin Unclaimed
    BY <1>5, IsFit DEF Claimed
  <2>2. FineStep(j) /\ Untried'
    BY <2>1, ClaimedFine, WorkUntried
  <2>3. ASSUME NEW k \in Jobs, Claimed(k)', Reserved'
        PROVE  FineTrack(k)'
    <3>1. CASE k = j
      BY <2>2, <2>3, <3>1 DEF FineStep, Claimed, Unclaimed
    <3>2. CASE k # j
      <4>1. Claimed(k) /\ Reserved /\ ~Alone(k)
        BY <1>4, <1>5, <2>3, <3>2 DEF Alone
      <4>2. Tidying(k)
        BY <4>1 DEF SoleInv
      <4>3. job'[k].pc \in {"lock", "cancel", "release"}
        BY <1>2, <3>2, <4>2 DEF Tidying
      <4>4. job'[k].pc \notin Aimed
        BY <4>3 DEF Aimed, Stopping, Starting
      <4>5. QED
        BY <4>4, PlainTrack
    <3>3. QED
      BY <3>1, <3>2
  <2>4. Reserved /\ ~Reserved' => UpgradeEnd'
    BY <2>1, StateGoes, EndFine DEF Reserved
  <2>5. QED
    BY <2>2, <2>3, <2>4 DEF OutcomeInv, FineInv, FineStep
<1>6. CASE ~(Claimed(j) /\ Reserved)
  <2>1. log' = log /\ inst' = inst /\ host' = host /\ op'.state = op.state /\ meddled' = meddled
    BY <1>2, <1>6, IdleTrack DEF clients
  <2>2. ASSUME NEW k \in Jobs, Claimed(k)', Reserved'
        PROVE  FineTrack(k)'
    <3>1. FineTrack(k) /\ job'[k] = job[k]
      BY <1>2, <1>4, <1>6, <2>2 DEF OutcomeInv
    <3>2. QED
      BY <2>1, <3>1 DEF FineTrack, ForwardFine, BackFine, AsBefore, Pending, Touched, RolledBack
  <2>3. Reserved' = Reserved
    BY <2>1 DEF Reserved
  <2>4. FineInv'
    BY <2>1, <2>3, SameFine DEF OutcomeInv, FineInv, Looks
  <2>5. Untried'
    BY <2>1 DEF OutcomeInv, Untried
  <2>6. QED
    BY <2>2, <2>3, <2>4, <2>5 DEF OutcomeInv
<1>7. QED
  BY <1>5, <1>6

-----------------------------------------------------------------------------
(* The others.                                                             *)

LEMMA SameOutcome ==
  ASSUME OutcomeInv, log' = log, inst' = inst, meddled' = meddled, host' = host,
         op'.state = op.state,
         \A k \in Jobs : Claimed(k)' =>
            \/ Claimed(k) /\ job'[k] = job[k]
            \/ job'[k].pc = "lock"
  PROVE  OutcomeInv'
<1>1. Reserved' = Reserved
  BY DEF Reserved
<1>2. FineInv' /\ Untried'
  BY <1>1, SameFine DEF OutcomeInv, FineInv, Untried, Looks
<1>3. ASSUME NEW k \in Jobs, Claimed(k)', Reserved'
      PROVE  FineTrack(k)'
  <2>1. CASE Claimed(k) /\ job'[k] = job[k]
    <3>1. FineTrack(k)
      BY <1>1, <1>3, <2>1 DEF OutcomeInv
    <3>2. QED
      BY <2>1, <3>1 DEF FineTrack, ForwardFine, BackFine, AsBefore, Pending, Touched, RolledBack
  <2>2. CASE job'[k].pc = "lock"
    <3>1. job'[k].pc \notin Aimed
      BY <2>2 DEF Aimed, Stopping, Starting
    <3>2. QED
      BY <3>1, PlainTrack
  <2>3. QED
    BY <1>3, <2>1, <2>2
<1>4. QED
  BY <1>2, <1>3 DEF OutcomeInv

\* A reservation begins with a fresh journal that has the statuses of the rows.
LEMMA ReserveOutcome ==
  ASSUME Typed, Reserve
  PROVE  OutcomeInv' /\ ~Reserved
<1>1. DataShape /\ inst' = inst /\ ~Reserved
  BY TypedShape DEF Reserve, Eligible
<1>2. op'.state = "preparing" /\ host'.status = "configuring"
  BY <1>1 DEF Reserve, DataShape
<1>3. \A i \in Instances : log'[i].stop = "" /\ log'[i].original = inst[i].status
  <2>1. log' = [i \in Instances |-> NoOutcome(inst[i].status)]
    BY DEF Reserve
  <2>2. QED
    BY <2>1 DEF NoOutcome
<1>4. \A i \in Instances : ~RolledBack(i)'
  BY DEF Reserve, NoOutcome, RolledBack
<1>5. \A i \in Instances : Fine(i)'
  BY <1>1, <1>3, <1>4 DEF Fine, Restored, Spared
<1>6. \A j \in Jobs : ~Claimed(j)'
  <2>1. op.id \in Nat /\ op'.id = op.id + 1 /\ job' = job
        /\ \A j \in Jobs : job[j].of \in Nat /\ job[j].of <= op.id
    BY DEF Reserve, Typed, IndInv, Shape, JobInv
  <2>2. QED
    BY <2>1 DEF Claimed, Live
<1>7. QED
  BY <1>1, <1>2, <1>3, <1>5, <1>6 DEF OutcomeInv, FineInv, Untried

\* A user's job works on an instance beside nobody whose way depends on it.
LEMMA UsersOutcome ==
  ASSUME Typed, LocksHeld, StillInv, OutcomeInv, NEW u \in Users, UserStep(u)
  PROVE  OutcomeInv' /\ Reserved' = Reserved
<1>1. DataShape
  BY TypedShape
<1>2. log' = log /\ job' = job /\ op' = op /\ host' = host /\ Reserved' = Reserved
  BY DEF UserStep, Works, Refused, WorkEnds, Reserved
<1>3. CASE Refused(u)
  BY <1>2, <1>3, SameOutcome DEF Refused, Claimed, Live
<1>4. CASE Works(u) \/ WorkEnds(u)
  <2>1. ASSUME Reserved, NEW k \in Instances \ meddled'
        PROVE  k \notin meddled /\ inst'[k] = inst[k]
    <3>1. CASE Works(u)
      BY <1>1, <2>1, <3>1 DEF Works, DataShape
    <3>2. CASE WorkEnds(u)
      <4>1. user[u].inst \in meddled /\ meddled' = meddled
        BY <2>1, <3>2 DEF WorkEnds, StillInv, BusyInv
      <4>2. QED
        BY <1>1, <2>1, <3>2, <4>1 DEF WorkEnds, DataShape
    <3>3. QED
      BY <1>4, <3>1, <3>2
  <2>2. ASSUME Reserved, NEW k \in Instances
        PROVE  Fine(k)'
    <3>1. CASE k \in meddled'
      BY <3>1 DEF Fine
    <3>2. CASE k \notin meddled'
      <4>1. k \notin meddled /\ inst'[k] = inst[k] /\ Fine(k)
        BY <2>1, <2>2, <3>2 DEF OutcomeInv, FineInv
      <4>2. QED
        BY <1>2, <4>1 DEF Fine, Restored, Spared, RolledBack, Touched, AsBefore
    <3>3. QED
      BY <3>1, <3>2
  <2>3. lock[user[u].inst] \in {Nobody, User} /\ user[u].inst \in Entities
    BY <1>4 DEF Works, WorkEnds, Typed, IndInv, LockInv, TypeInv, TypeOK, Entities
  <2>4. ASSUME NEW k \in Jobs, Claimed(k)', Reserved'
        PROVE  FineTrack(k)'
    <3>1. Claimed(k) /\ Reserved /\ job'[k] = job[k]
      BY <1>2, <2>4 DEF Claimed, Live
    <3>2. \A e \in Entities : lock[e] = Exec(job[k]) => lock[e] \notin {Nobody, User}
      BY DEF Exec, Nobody, User
    <3>3. job'[k].pc \in {"lock", "cancel", "release"}
      BY <2>3, <3>1, <3>2 DEF LocksHeld
    <3>4. job'[k].pc \notin Aimed
      BY <3>3 DEF Aimed, Stopping, Starting
    <3>5. QED
      BY <3>4, PlainTrack
  <2>5. Untried'
    BY <1>2 DEF OutcomeInv, Untried
  <2>6. QED
    BY <1>2, <2>2, <2>4, <2>5 DEF OutcomeInv, FineInv
<1>5. QED
  BY <1>3, <1>4 DEF UserStep

LEMMA OutcomeInit == Init => OutcomeInv
BY DEF Init, OutcomeInv, FineInv, Untried, Reserved, Nonterminal

LEMMA OutcomeNext ==
  ASSUME Typed, SoleInv, LocksHeld, NoStall, RecordInv, StillInv, OutcomeInv, [Next]_vars
  PROVE  OutcomeInv' /\ (Reserved /\ ~Reserved' => UpgradeEnd')
<1>1. CASE Reserve
  BY <1>1, ReserveOutcome
<1>2. CASE \E j \in Jobs : RouteAssigns(j) \/ HandOver(j) \/ Enter(j) \/ Claim(j)
  <2>1. PICK j \in Jobs : RouteAssigns(j) \/ HandOver(j) \/ Enter(j) \/ Claim(j)
    BY <1>2
  <2>2. log' = log /\ inst' = inst /\ meddled' = meddled /\ host' = host
    BY <2>1 DEF RouteAssigns, HandOver, Enter, Claim, clients
  <2>3. DOMAIN op = RowFields
    BY TypedShape DEF DataShape
  <2>4. op'.state = op.state
    BY <2>1, <2>3 DEF RouteAssigns, HandOver, Enter, Claim, RowFields
  <2>5. \A k \in Jobs : Claimed(k)' => (Claimed(k) /\ job'[k] = job[k]) \/ job'[k].pc = "lock"
    BY <2>1, NewJobTracks
  <2>6. QED
    BY <2>2, <2>4, <2>5, SameOutcome DEF Reserved
<1>3. CASE \E j \in Jobs : WorkAction(j)
  BY <1>3, WorkOutcome
<1>4. CASE \E u \in Users : UserStep(u)
  BY <1>4, UsersOutcome
<1>5. CASE \/ RouteLocks \/ RouteUnlocks \/ RouteGivesUp \/ \E e \in Entities : LocksExpire(e)
           \/ \E u \in Users, i \in Instances : Guard(u, i)
           \/ BackupLocks \/ BackupStep \/ UNCHANGED vars
  <2>1. log' = log /\ inst' = inst /\ meddled' = meddled /\ op' = op /\ job' = job /\ host' = host
    BY <1>5 DEF RouteLocks, RouteUnlocks, RouteGivesUp, LocksExpire, Guard, BackupLocks, BackupStep,
       RestoreBackup, BackupEnds, vars, clients
  <2>2. QED
    BY <2>1, SameOutcome DEF Reserved, Claimed, Live
<1>6. QED
  BY <1>1, <1>2, <1>3, <1>4, <1>5 DEF Next, RouteStep, WorkerStep, WorkAction

\* However an upgrade ends, it leaves behind what its end says: everything on
\* the new runtime and running as before, or everything restored, or nothing
\* done (_succeed, _finish and fail_preparation, host_runtime_upgrade.py and
\* host_runtime_upgrade_rollback.py).
THEOREM OutcomeKept ==
  ASSUME NoStall
  PROVE  Spec => UpgradeOutcome
<1>1. /\ IndInv /\ TypeInv /\ SoleInv /\ LocksHeld /\ RecordInv /\ StillInv /\ OutcomeInv /\ [Next]_vars
            => OutcomeInv'
      /\ IndInv /\ TypeInv /\ SoleInv /\ LocksHeld /\ RecordInv /\ StillInv /\ OutcomeInv /\ [Next]_vars
            => [Reserved /\ ~Reserved' => UpgradeEnd']_vars
  BY OutcomeNext DEF Typed
<1>2. IndInv /\ TypeInv /\ SoleInv /\ RecordInv /\ StillInv /\ [Next]_vars => StillInv'
  BY StillNext DEF Typed
<1>3. IndInv /\ TypeInv /\ [Next]_vars => TypeInv'
  BY TypeNext DEF Typed
<1>4. QED
  BY OutcomeInit, StillInit, TypeInit, UpgradeInvariant, SoleWorker, Invariance, <1>1, <1>2, <1>3, PTL
     DEF Spec, UpgradeOutcome
=============================================================================
