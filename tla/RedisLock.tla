------------------------------ MODULE RedisLock ------------------------------
(***************************************************************************)
(* The Redis keys ui/task_lock.py keeps, and one action per Lua script.    *)
(* A script runs atomically in Redis, so each is a single step here.       *)
(*                                                                         *)
(*   task_lock:<type>:<id>    lock[e], the owner's token or None           *)
(*   task_lock:index          index, the entities whose lock was taken     *)
(*                            and not released                             *)
(*   maintenance_lock:backup  maint, the backup's token or None            *)
(*                                                                         *)
(* A key whose TTL ran out is gone, but a lock's entry in the index stays  *)
(* until a release or a maintenance acquisition removes it.                *)
(***************************************************************************)
CONSTANTS Entity,   \* hosts and instances
          Token,    \* one uuid4 per operation, never used twice
          None      \* the key does not exist

ASSUME NoneAssumption == None \notin Token

VARIABLES lock, index, maint

redisVars == <<lock, index, maint>>

RedisTypeOK ==
    /\ lock \in [Entity -> Token \cup {None}]
    /\ index \in SUBSET Entity
    /\ maint \in Token \cup {None}

RedisInit ==
    /\ lock = [e \in Entity |-> None]
    /\ index = {}
    /\ maint = None

Live(e) == lock[e] # None

-----------------------------------------------------------------------------
(* Entity locks.                                                           *)

\* Faulty variant: the acquisition forgets SADD.
AcquireEntityUnindexed(e, t) ==
    /\ maint = None
    /\ lock[e] = None
    /\ lock' = [lock EXCEPT ![e] = t]
    /\ UNCHANGED <<index, maint>>

\* Faulty variant: the acquisition does not look at the maintenance key.
AcquireEntityBlind(e, t) ==
    /\ lock[e] = None
    /\ lock' = [lock EXCEPT ![e] = t]
    /\ index' = index \cup {e}
    /\ UNCHANGED maint

\* Faulty variant: SET without looking at the key.
AcquireEntityOver(e, t) ==
    /\ maint = None
    /\ lock' = [lock EXCEPT ![e] = t]
    /\ index' = index \cup {e}
    /\ UNCHANGED maint

AcquireEntity(e, t) ==
    /\ maint = None
    /\ lock[e] = None
    /\ lock' = [lock EXCEPT ![e] = t]
    /\ index' = index \cup {e}
    /\ UNCHANGED maint

\* The script returned 0.
EntityRefused(e) ==
    /\ maint # None \/ Live(e)
    /\ UNCHANGED redisVars

\* Faulty variant: DEL without comparing the token.
ReleaseEntityAnyOwner(e, t) ==
    /\ lock' = [lock EXCEPT ![e] = None]
    /\ index' = index \ {e}
    /\ UNCHANGED maint

\* Faulty variant: the key is blanked, not deleted.
ReleaseEntityBlanking(e, t) ==
    /\ lock[e] = t
    /\ lock' = [lock EXCEPT ![e] = ""]
    /\ index' = index \ {e}
    /\ UNCHANGED maint

\* Only the owner deletes the key; for anybody else the script does nothing.
ReleaseEntity(e, t) ==
    /\ \/ /\ lock[e] = t
          /\ lock' = [lock EXCEPT ![e] = None]
          /\ index' = index \ {e}
       \/ /\ lock[e] # t
          /\ UNCHANGED <<lock, index>>
    /\ UNCHANGED maint

\* force_release_lock: whoever owns it.
ForceReleaseEntity(e) ==
    /\ lock' = [lock EXCEPT ![e] = None]
    /\ index' = index \ {e}
    /\ UNCHANGED maint

\* The key's TTL ran out. Redis does not touch the index.
ExpireEntity(e) ==
    /\ Live(e)
    /\ lock' = [lock EXCEPT ![e] = None]
    /\ UNCHANGED <<index, maint>>

\* lock_superseded: a newer operation owns the entity. A missing key is not
\* a newer owner.
Superseded(e, t) == lock[e] \notin {None, t}

-----------------------------------------------------------------------------
(* The maintenance lock.                                                   *)

\* Faulty variant: the walk looks only at the maintenance key.
AcquireMaintUnchecked(t) ==
    /\ maint = None
    /\ index' = {}
    /\ maint' = t
    /\ UNCHANGED lock

\* The walk found every indexed lock gone and dropped its entry.
AcquireMaint(t) ==
    /\ maint = None
    /\ \A e \in index : ~Live(e)
    /\ index' = {}
    /\ maint' = t
    /\ UNCHANGED lock

\* The walk stops at the first live lock, in SMEMBERS order: any of the
\* stale entries may have been dropped before it.
MaintRefused ==
    /\ \/ /\ maint # None
          /\ UNCHANGED index
       \/ /\ maint = None
          /\ \E e \in index : Live(e)
          /\ \E dropped \in SUBSET {e \in index : ~Live(e)} :
                index' = index \ dropped
    /\ UNCHANGED <<lock, maint>>

ReleaseMaint(t) ==
    /\ maint' = IF maint = t THEN None ELSE maint
    /\ UNCHANGED <<lock, index>>

ExpireMaint ==
    /\ maint # None
    /\ maint' = None
    /\ UNCHANGED <<lock, index>>

-----------------------------------------------------------------------------
(* What the scripts maintain together.                                     *)

\* The index may list a lock that is gone, never miss one that is live: the
\* maintenance walk sees every running task (task_lock.py:23-28).
IndexCoversLocks == \A e \in Entity : Live(e) => e \in index

\* "a restore can never overlap" a task, as far as the keys say
\* (task_lock.py:13-15): no entity lock is live while maintenance is held.
MaintenanceExclusive == maint # None => \A e \in Entity : ~Live(e)

RedisInv == RedisTypeOK /\ IndexCoversLocks /\ MaintenanceExclusive
=============================================================================
