--------------------------- MODULE RedisLockProofs ---------------------------
(***************************************************************************)
(* What every script of ui/task_lock.py keeps, whoever calls it: the       *)
(* lemmas the proofs about its callers rest on.                            *)
(***************************************************************************)
EXTENDS RedisLock, TLAPS

LEMMA RedisInitInv == RedisInit => RedisInv
BY NoneAssumption
   DEF RedisInit, RedisInv, RedisTypeOK, IndexCoversLocks, MaintenanceExclusive, Live

\* A step that does not touch Redis.
LEMMA RedisUnchangedInv ==
  ASSUME RedisInv, UNCHANGED redisVars
  PROVE  RedisInv'
BY DEF RedisInv, RedisTypeOK, IndexCoversLocks, MaintenanceExclusive, Live, redisVars

LEMMA AcquireEntityInv ==
  ASSUME RedisInv, NEW e \in Entity, NEW t \in Token, AcquireEntity(e, t)
  PROVE  RedisInv'
BY NoneAssumption
   DEF AcquireEntity, RedisInv, RedisTypeOK, IndexCoversLocks, MaintenanceExclusive, Live

LEMMA ReleaseEntityInv ==
  ASSUME RedisInv, NEW e \in Entity, NEW t \in Token, ReleaseEntity(e, t)
  PROVE  RedisInv'
BY NoneAssumption
   DEF ReleaseEntity, RedisInv, RedisTypeOK, IndexCoversLocks, MaintenanceExclusive, Live

LEMMA ForceReleaseEntityInv ==
  ASSUME RedisInv, NEW e \in Entity, ForceReleaseEntity(e)
  PROVE  RedisInv'
BY DEF ForceReleaseEntity, RedisInv, RedisTypeOK, IndexCoversLocks, MaintenanceExclusive, Live

LEMMA ExpireEntityInv ==
  ASSUME RedisInv, NEW e \in Entity, ExpireEntity(e)
  PROVE  RedisInv'
BY DEF ExpireEntity, RedisInv, RedisTypeOK, IndexCoversLocks, MaintenanceExclusive, Live

\* Here the index earns its keep: the walk saw no live lock in it, so there is
\* none at all.
LEMMA AcquireMaintInv ==
  ASSUME RedisInv, NEW t \in Token, AcquireMaint(t)
  PROVE  RedisInv' /\ (\A e \in Entity : ~Live(e)) /\ lock' = lock /\ maint' = t
BY NoneAssumption
   DEF AcquireMaint, RedisInv, RedisTypeOK, IndexCoversLocks, MaintenanceExclusive, Live

LEMMA MaintRefusedInv ==
  ASSUME RedisInv, MaintRefused
  PROVE  RedisInv' /\ lock' = lock /\ maint' = maint
<1>1. CASE UNCHANGED redisVars
  BY <1>1, RedisUnchangedInv DEF redisVars
<1>2. CASE \E dropped \in SUBSET {e \in index : ~Live(e)} : index' = index \ dropped
  BY <1>2 DEF MaintRefused, RedisInv, RedisTypeOK, IndexCoversLocks,
              MaintenanceExclusive, Live
<1>3. QED
  BY <1>1, <1>2 DEF MaintRefused, redisVars

LEMMA ReleaseMaintInv ==
  ASSUME RedisInv, NEW t \in Token, ReleaseMaint(t)
  PROVE  RedisInv'
BY DEF ReleaseMaint, RedisInv, RedisTypeOK, IndexCoversLocks, MaintenanceExclusive, Live

LEMMA ExpireMaintInv ==
  ASSUME RedisInv, ExpireMaint
  PROVE  RedisInv'
BY DEF ExpireMaint, RedisInv, RedisTypeOK, IndexCoversLocks, MaintenanceExclusive, Live

-----------------------------------------------------------------------------

\* A release takes nothing from anybody but the caller.
LEMMA ReleaseIsOwn ==
  ASSUME RedisTypeOK, NEW e \in Entity, NEW t \in Token, ReleaseEntity(e, t)
  PROVE  /\ maint' = maint
         /\ lock'[e] # t
         /\ \A f \in Entity : lock[f] # t => lock'[f] = lock[f]
         /\ \A f \in Entity : f # e => lock'[f] = lock[f]
BY NoneAssumption DEF ReleaseEntity, RedisTypeOK

\* An acquisition took a key nobody had, and no backup was running.
LEMMA AcquireIsFree ==
  ASSUME RedisTypeOK, NEW e \in Entity, NEW t \in Token, AcquireEntity(e, t)
  PROVE  /\ maint = None /\ maint' = None
         /\ lock[e] = None
         /\ lock'[e] = t
         /\ \A f \in Entity : f # e => lock'[f] = lock[f]
BY DEF AcquireEntity, RedisTypeOK
=============================================================================
