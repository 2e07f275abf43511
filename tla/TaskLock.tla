------------------------------ MODULE TaskLock ------------------------------
(***************************************************************************)
(* The callers of ui/task_lock.py: tasks that take one or several entity   *)
(* locks (acquire_locks, all or none, in sorted order), hold them for      *)
(* their work and release them, and backups that hold the maintenance      *)
(* lock. Every Redis call is a step of its own, so callers interleave      *)
(* between the calls; a caller may die at any of them, and a reply may be  *)
(* lost after its script ran.                                              *)
(***************************************************************************)
EXTENDS RedisLock, Naturals

CONSTANT Overrun    \* TRUE: a TTL may run out while the owner still works

ASSUME TaskLockAssumption ==
    /\ Entity \subseteq Nat
    /\ Overrun \in BOOLEAN

VARIABLES pc,       \* where each operation is
          todo,     \* entities it has still to lock
          held      \* entities it was told it holds

callerVars == <<pc, todo, held>>
vars == <<lock, index, maint, pc, todo, held>>

\* "failing" is "releasing" after a Redis call raised; "done" is a normal end,
\* "dead" any other.
Phase == {"new", "acquiring", "holding", "releasing", "failing", "backup",
          "done", "dead"}

TypeOK ==
    /\ RedisTypeOK
    /\ pc \in [Token -> Phase]
    /\ todo \in [Token -> SUBSET Entity]
    /\ held \in [Token -> SUBSET Entity]

Init ==
    /\ RedisInit
    /\ pc = [t \in Token |-> "new"]
    /\ todo = [t \in Token |-> {}]
    /\ held = [t \in Token |-> {}]

First(e, S) == e \in S /\ \A f \in S : e <= f

-----------------------------------------------------------------------------
(* acquire_locks, with acquire_lock as the case of one entity.             *)

BeginTask(t, S) ==
    /\ pc[t] = "new"
    /\ S # {}
    /\ pc' = [pc EXCEPT ![t] = "acquiring"]
    /\ todo' = [todo EXCEPT ![t] = S]
    /\ UNCHANGED <<lock, index, maint, held>>

AcquireNext(t, e) ==
    /\ pc[t] = "acquiring"
    /\ First(e, todo[t])
    /\ AcquireEntity(e, t)
    /\ held' = [held EXCEPT ![t] = @ \cup {e}]
    /\ todo' = [todo EXCEPT ![t] = @ \ {e}]
    /\ pc' = [pc EXCEPT ![t] = IF todo[t] = {e} THEN "holding" ELSE "acquiring"]

\* Where a caller in releasing phase p goes when S is what it still holds.
Releasing(p, S) ==
    IF S # {} THEN p ELSE IF p = "failing" THEN "dead" ELSE "done"

\* Faulty variant: a refusal returns without releasing the earlier locks.
RefusedNextKeeping(t, e) ==
    /\ pc[t] = "acquiring"
    /\ First(e, todo[t])
    /\ EntityRefused(e)
    /\ todo' = [todo EXCEPT ![t] = {}]
    /\ held' = [held EXCEPT ![t] = {}]
    /\ pc' = [pc EXCEPT ![t] = "done"]

RefusedNext(t, e) ==
    /\ pc[t] = "acquiring"
    /\ First(e, todo[t])
    /\ EntityRefused(e)
    /\ todo' = [todo EXCEPT ![t] = {}]
    /\ pc' = [pc EXCEPT ![t] = Releasing("releasing", held[t])]
    /\ UNCHANGED held

\* acquire_lock raised: the earlier locks are released and the exception
\* goes on. The script may have run before the connection failed, and the
\* lock it took is not among those released.
AcquireRaised(t, e) ==
    /\ pc[t] = "acquiring"
    /\ First(e, todo[t])
    /\ AcquireEntity(e, t) \/ UNCHANGED redisVars
    /\ todo' = [todo EXCEPT ![t] = {}]
    /\ pc' = [pc EXCEPT ![t] = Releasing("failing", held[t])]
    /\ UNCHANGED held

\* The work is over, by success or by exception: the finally blocks release.
EndTask(t) ==
    /\ pc[t] = "holding"
    /\ pc' = [pc EXCEPT ![t] = "releasing"]
    /\ UNCHANGED <<lock, index, maint, todo, held>>

ReleaseNext(t, e) ==
    /\ pc[t] \in {"releasing", "failing"}
    /\ First(e, held[t])
    /\ ReleaseEntity(e, t)
    /\ held' = [held EXCEPT ![t] = @ \ {e}]
    /\ pc' = [pc EXCEPT ![t] = Releasing(pc[t], held[t] \ {e})]
    /\ UNCHANGED todo

\* release_locks logs a call that raised and goes on to the next entity.
ReleaseRaised(t, e) ==
    /\ pc[t] \in {"releasing", "failing"}
    /\ First(e, held[t])
    /\ held' = [held EXCEPT ![t] = @ \ {e}]
    /\ pc' = [pc EXCEPT ![t] = Releasing("failing", held[t] \ {e})]
    /\ UNCHANGED <<lock, index, maint, todo>>

-----------------------------------------------------------------------------
(* backup_maintenance_lock.                                                *)

BeginBackup(t) ==
    /\ pc[t] = "new"
    /\ AcquireMaint(t)
    /\ pc' = [pc EXCEPT ![t] = "backup"]
    /\ UNCHANGED <<todo, held>>

BackupRefused(t) ==
    /\ pc[t] = "new"
    /\ MaintRefused
    /\ pc' = [pc EXCEPT ![t] = "done"]
    /\ UNCHANGED <<todo, held>>

EndBackup(t) ==
    /\ pc[t] = "backup"
    /\ \/ /\ ReleaseMaint(t)
          /\ pc' = [pc EXCEPT ![t] = "done"]
       \/ \* the release raised and was logged
          /\ pc' = [pc EXCEPT ![t] = "dead"]
          /\ UNCHANGED redisVars
    /\ UNCHANGED <<todo, held>>

-----------------------------------------------------------------------------
(* The environment: dying callers, expiry, an operator's force release.    *)

\* The process dies. Its keys stay.
Crash(t) ==
    /\ pc[t] \in {"acquiring", "holding", "releasing", "failing", "backup"}
    /\ pc' = [pc EXCEPT ![t] = "dead"]
    /\ todo' = [todo EXCEPT ![t] = {}]
    /\ held' = [held EXCEPT ![t] = {}]
    /\ UNCHANGED redisVars

\* Somebody relies on e's lock being there.
InUse(e) == Live(e) /\ e \in held[lock[e]]

\* Faulty variant: SET without EX, the key never goes away on its own.
ExpireNever(e) ==
    /\ FALSE
    /\ ExpireEntity(e)
    /\ UNCHANGED callerVars

Expire(e) ==
    /\ Overrun \/ ~InUse(e)
    /\ ExpireEntity(e)
    /\ UNCHANGED callerVars

ExpireMaintenance ==
    /\ maint # None
    /\ Overrun \/ pc[maint] # "backup"
    /\ ExpireMaint
    /\ UNCHANGED callerVars

\* force_release_lock: "Only call this when the lock is known to be stale".
ForceRelease(e) ==
    /\ Live(e)
    /\ ~InUse(e)
    /\ ForceReleaseEntity(e)
    /\ UNCHANGED callerVars

\* Tokens are never used twice: one stands for a new operation only when
\* nothing in Redis remembers it.
Recycle(t) ==
    /\ pc[t] \in {"done", "dead"}
    /\ maint # t
    /\ \A e \in Entity : lock[e] # t
    /\ pc' = [pc EXCEPT ![t] = "new"]
    /\ UNCHANGED <<lock, index, maint, todo, held>>

-----------------------------------------------------------------------------

\* A started operation goes on: it runs in a thread or under a job timeout.
Progress(t) ==
    \/ \E e \in Entity :
          AcquireNext(t, e) \/ RefusedNext(t, e) \/ ReleaseNext(t, e)
    \/ EndTask(t)
    \/ EndBackup(t)

CallerStep(t) ==
    \/ \E S \in SUBSET Entity : BeginTask(t, S)
    \/ \E e \in Entity :
          \/ AcquireNext(t, e)
          \/ RefusedNext(t, e)
          \/ AcquireRaised(t, e)
          \/ ReleaseNext(t, e)
          \/ ReleaseRaised(t, e)
    \/ EndTask(t)
    \/ BeginBackup(t)
    \/ BackupRefused(t)
    \/ EndBackup(t)
    \/ Crash(t)
    \/ Recycle(t)

KeyStep ==
    \/ \E e \in Entity : Expire(e) \/ ForceRelease(e)
    \/ ExpireMaintenance

Next == (\E t \in Token : CallerStep(t)) \/ KeyStep

\* Redis expires keys by itself; callers are not stopped for ever.
Fairness ==
    /\ \A t \in Token : WF_vars(Progress(t))
    /\ \A e \in Entity : WF_vars(Expire(e))
    /\ WF_vars(ExpireMaintenance)

Spec == Init /\ [][Next]_vars
FairSpec == Spec /\ Fairness

-----------------------------------------------------------------------------
(* Properties.                                                             *)

\* Callers and keys agree: an operation that was told it holds a lock owns
\* the key, whoever else crashed, expired or was force-released meanwhile.
HeldIsOwned ==
    /\ \A t \in Token : \A e \in held[t] : lock[e] = t
    /\ \A t \in Token : pc[t] = "backup" => maint = t

\* acquire_locks acquires the whole set or none, and the finally blocks
\* release it: an operation that ended normally, refused or not, owns no key.
\* (One that ended with an exception may: see AcquireRaised.)
NothingLeftBehind ==
    \A t \in Token : pc[t] = "done" =>
        /\ maint # t
        /\ \A e \in Entity : lock[e] # t

\* The promise of EntityExclusion, kept by the callers.
Exclusion == INSTANCE EntityExclusion
    WITH Op <- Token, working <- held,
         backups <- {t \in Token : pc[t] = "backup"}

ExclusionSpec == Exclusion!Spec

\* Nothing a dead or disconnected caller left in Redis blocks an entity for
\* ever (task_lock.py:18-20 says so of the maintenance lock).
LocksRecover ==
    /\ \A e \in Entity : Live(e) ~> ~Live(e)
    /\ maint # None ~> maint = None
=============================================================================
