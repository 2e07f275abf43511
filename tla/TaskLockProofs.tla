--------------------------- MODULE TaskLockProofs ---------------------------
(***************************************************************************)
(* For any number of entities and operations: the keys stay consistent,    *)
(* callers own what they hold, finished callers own nothing, and TaskLock  *)
(* implements EntityExclusion.                                             *)
(***************************************************************************)
EXTENDS TaskLock, RedisLockProofs

LEMMA ReleasingPhase ==
  ASSUME NEW p \in {"releasing", "failing"}, NEW S
  PROVE  Releasing(p, S) \in Phase
BY DEF Releasing, Phase

-----------------------------------------------------------------------------
(* Types and keys.                                                         *)

KeyInv == TypeOK /\ RedisInv

LEMMA KeyInvInit == Init => KeyInv
<1>1. Init => RedisInv
  BY RedisInitInv DEF Init
<1>2. QED
  BY <1>1 DEF Init, KeyInv, TypeOK, RedisInv, Phase

LEMMA KeyInvStep == KeyInv /\ [Next]_vars => KeyInv'
<1> SUFFICES ASSUME KeyInv, [Next]_vars
             PROVE  KeyInv'
  OBVIOUS
<1>a. RedisInv /\ TypeOK /\ RedisTypeOK
  BY DEF KeyInv, RedisInv
<1>b. ASSUME RedisInv', pc' \in [Token -> Phase], todo' \in [Token -> SUBSET Entity],
             held' \in [Token -> SUBSET Entity]
      PROVE  KeyInv'
  BY <1>b DEF KeyInv, TypeOK, RedisInv
<1>1. ASSUME NEW t \in Token, NEW S \in SUBSET Entity, BeginTask(t, S)
      PROVE  KeyInv'
  BY <1>1, <1>a, <1>b, RedisUnchangedInv DEF BeginTask, TypeOK, Phase, redisVars
<1>2. ASSUME NEW t \in Token, NEW e \in Entity, AcquireNext(t, e)
      PROVE  KeyInv'
  <2>1. RedisInv'
    BY <1>2, <1>a, AcquireEntityInv DEF AcquireNext
  <2>2. QED
    BY <1>2, <2>1, <1>a, <1>b DEF AcquireNext, TypeOK, Phase
<1>3. ASSUME NEW t \in Token, NEW e \in Entity, RefusedNext(t, e)
      PROVE  KeyInv'
  <2>1. RedisInv'
    BY <1>3, <1>a, RedisUnchangedInv DEF RefusedNext, EntityRefused
  <2>2. Releasing("releasing", held[t]) \in Phase
    BY ReleasingPhase
  <2>3. QED
    BY <1>3, <2>1, <2>2, <1>a, <1>b DEF RefusedNext, TypeOK
<1>4. ASSUME NEW t \in Token, NEW e \in Entity, AcquireRaised(t, e)
      PROVE  KeyInv'
  <2>1. RedisInv'
    BY <1>4, <1>a, RedisUnchangedInv, AcquireEntityInv DEF AcquireRaised
  <2>2. Releasing("failing", held[t]) \in Phase
    BY ReleasingPhase
  <2>3. QED
    BY <1>4, <2>1, <2>2, <1>a, <1>b DEF AcquireRaised, TypeOK
<1>5. ASSUME NEW t \in Token, NEW e \in Entity, ReleaseNext(t, e)
      PROVE  KeyInv'
  <2>1. RedisInv'
    BY <1>5, <1>a, ReleaseEntityInv DEF ReleaseNext
  <2>2. Releasing(pc[t], held[t] \ {e}) \in Phase
    BY <1>5, ReleasingPhase DEF ReleaseNext
  <2>3. QED
    BY <1>5, <2>1, <2>2, <1>a, <1>b DEF ReleaseNext, TypeOK
<1>6. ASSUME NEW t \in Token, NEW e \in Entity, ReleaseRaised(t, e)
      PROVE  KeyInv'
  <2>1. RedisInv'
    BY <1>6, <1>a, RedisUnchangedInv DEF ReleaseRaised, redisVars
  <2>2. Releasing("failing", held[t] \ {e}) \in Phase
    BY ReleasingPhase
  <2>3. QED
    BY <1>6, <2>1, <2>2, <1>a, <1>b DEF ReleaseRaised, TypeOK
<1>7. ASSUME NEW t \in Token, EndTask(t)
      PROVE  KeyInv'
  BY <1>7, <1>a, <1>b, RedisUnchangedInv DEF EndTask, TypeOK, Phase, redisVars
<1>8. ASSUME NEW t \in Token, BeginBackup(t)
      PROVE  KeyInv'
  <2>1. RedisInv'
    BY <1>8, <1>a, AcquireMaintInv DEF BeginBackup
  <2>2. QED
    BY <1>8, <2>1, <1>a, <1>b DEF BeginBackup, TypeOK, Phase
<1>9. ASSUME NEW t \in Token, BackupRefused(t)
      PROVE  KeyInv'
  <2>1. RedisInv'
    BY <1>9, <1>a, MaintRefusedInv DEF BackupRefused
  <2>2. QED
    BY <1>9, <2>1, <1>a, <1>b DEF BackupRefused, TypeOK, Phase
<1>10. ASSUME NEW t \in Token, EndBackup(t)
       PROVE  KeyInv'
  <2>1. RedisInv'
    BY <1>10, <1>a, ReleaseMaintInv, RedisUnchangedInv DEF EndBackup
  <2>2. QED
    BY <1>10, <2>1, <1>a, <1>b DEF EndBackup, TypeOK, Phase
<1>11. ASSUME NEW t \in Token, Crash(t)
       PROVE  KeyInv'
  BY <1>11, <1>a, <1>b, RedisUnchangedInv DEF Crash, TypeOK, Phase
<1>12. ASSUME NEW t \in Token, Recycle(t)
       PROVE  KeyInv'
  BY <1>12, <1>a, <1>b, RedisUnchangedInv DEF Recycle, TypeOK, Phase, redisVars
<1>13. ASSUME NEW e \in Entity, Expire(e)
       PROVE  KeyInv'
  BY <1>13, <1>a, <1>b, ExpireEntityInv DEF Expire, TypeOK, callerVars
<1>14. ASSUME NEW e \in Entity, ForceRelease(e)
       PROVE  KeyInv'
  BY <1>14, <1>a, <1>b, ForceReleaseEntityInv DEF ForceRelease, TypeOK, callerVars
<1>15. CASE ExpireMaintenance
  BY <1>15, <1>a, <1>b, ExpireMaintInv DEF ExpireMaintenance, TypeOK, callerVars
<1>16. CASE UNCHANGED vars
  BY <1>16, <1>a, <1>b, RedisUnchangedInv DEF vars, TypeOK, redisVars
<1>17. QED
  BY <1>1, <1>2, <1>3, <1>4, <1>5, <1>6, <1>7, <1>8, <1>9, <1>10, <1>11, <1>12,
     <1>13, <1>14, <1>15, <1>16 DEF Next, CallerStep, KeyStep

\* The keys and the callers' variables stay in their types, and the index and
\* the maintenance key keep their relation to the entity keys, however callers
\* interleave, die and time out (the scripts of task_lock.py).
THEOREM KeysStayConsistent ==
  Spec => [](TypeOK /\ IndexCoversLocks /\ MaintenanceExclusive)
<1>1. KeyInv => TypeOK /\ IndexCoversLocks /\ MaintenanceExclusive
  BY DEF KeyInv, RedisInv
<1>2. QED
  BY <1>1, KeyInvInit, KeyInvStep, PTL DEF Spec

\* The first of them alone: no interleaving of the scripts takes a key or a
\* caller's locals out of their types (task_lock.py:140-330).
THEOREM TypeCorrect == Spec => []TypeOK
BY KeysStayConsistent, PTL

-----------------------------------------------------------------------------
(* What a caller that ends normally leaves behind.                         *)

\* NothingLeftBehind is not inductive: it needs to know, of every caller that
\* can still end normally, that no key but those in held carries its token.
CallerInv ==
    \A t \in Token :
        /\ pc[t] \in {"new", "done", "dead", "backup"} => held[t] = {}
        /\ pc[t] \in {"new", "acquiring", "holding", "releasing", "done", "backup"}
              => \A e \in Entity : lock[e] = t => e \in held[t]
        /\ pc[t] \notin {"backup", "dead"} => maint # t

LEMMA CallerInvInit == Init => CallerInv
BY NoneAssumption DEF Init, RedisInit, CallerInv

LEMMA CallerInvStep == KeyInv /\ CallerInv /\ [Next]_vars => CallerInv'
<1> SUFFICES ASSUME KeyInv, CallerInv, [Next]_vars
             PROVE  CallerInv'
  OBVIOUS
<1>a. TypeOK /\ RedisTypeOK /\ RedisInv
  BY DEF KeyInv, RedisInv
<1> USE NoneAssumption
<1>1. ASSUME NEW t \in Token, NEW S \in SUBSET Entity, BeginTask(t, S)
      PROVE  CallerInv'
  BY <1>1, <1>a DEF BeginTask, TypeOK, CallerInv
<1>2. ASSUME NEW t \in Token, NEW e \in Entity, AcquireNext(t, e)
      PROVE  CallerInv'
  BY <1>2, <1>a, AcquireIsFree DEF AcquireNext, TypeOK, CallerInv
<1>3. ASSUME NEW t \in Token, NEW e \in Entity, RefusedNext(t, e)
      PROVE  CallerInv'
  BY <1>3, <1>a DEF RefusedNext, EntityRefused, redisVars, TypeOK, CallerInv, Releasing
<1>4. ASSUME NEW t \in Token, NEW e \in Entity, AcquireRaised(t, e)
      PROVE  CallerInv'
  BY <1>4, <1>a, AcquireIsFree
     DEF AcquireRaised, redisVars, TypeOK, CallerInv, Releasing
<1>5. ASSUME NEW t \in Token, NEW e \in Entity, ReleaseNext(t, e)
      PROVE  CallerInv'
  <2>1. /\ maint' = maint
        /\ lock'[e] # t
        /\ \A f \in Entity : lock[f] # t => lock'[f] = lock[f]
        /\ \A f \in Entity : f # e => lock'[f] = lock[f]
    BY <1>5, <1>a, ReleaseIsOwn DEF ReleaseNext
  <2>2. /\ held'[t] = held[t] \ {e}
        /\ pc'[t] = Releasing(pc[t], held'[t])
        /\ \A s \in Token : s # t => held'[s] = held[s] /\ pc'[s] = pc[s]
    BY <1>5, <1>a DEF ReleaseNext, TypeOK
  <2>3. \A f \in Entity, s \in Token : lock'[f] = s => lock[f] = s
    BY <1>5, <1>a DEF ReleaseNext, ReleaseEntity, RedisTypeOK
  <2>4. ASSUME NEW s \in Token, s # t
        PROVE  CallerInv!(s)'
    BY <2>1, <2>2, <2>3, <2>4 DEF CallerInv
  <2>5. CallerInv!(t)'
    BY <1>5, <2>1, <2>2, <2>3 DEF ReleaseNext, CallerInv, Releasing
  <2>6. QED
    BY <2>4, <2>5 DEF CallerInv
<1>6. ASSUME NEW t \in Token, NEW e \in Entity, ReleaseRaised(t, e)
      PROVE  CallerInv'
  BY <1>6, <1>a DEF ReleaseRaised, TypeOK, CallerInv, Releasing
<1>7. ASSUME NEW t \in Token, EndTask(t)
      PROVE  CallerInv'
  BY <1>7, <1>a DEF EndTask, TypeOK, CallerInv
<1>8. ASSUME NEW t \in Token, BeginBackup(t)
      PROVE  CallerInv'
  BY <1>8, <1>a, AcquireMaintInv DEF BeginBackup, TypeOK, CallerInv
<1>9. ASSUME NEW t \in Token, BackupRefused(t)
      PROVE  CallerInv'
  BY <1>9, <1>a, MaintRefusedInv DEF BackupRefused, TypeOK, CallerInv
<1>10. ASSUME NEW t \in Token, EndBackup(t)
       PROVE  CallerInv'
  BY <1>10, <1>a DEF EndBackup, ReleaseMaint, redisVars, TypeOK, CallerInv
<1>11. ASSUME NEW t \in Token, Crash(t)
       PROVE  CallerInv'
  BY <1>11, <1>a DEF Crash, redisVars, TypeOK, CallerInv
<1>12. ASSUME NEW t \in Token, Recycle(t)
       PROVE  CallerInv'
  BY <1>12, <1>a DEF Recycle, TypeOK, CallerInv
<1>13. ASSUME NEW e \in Entity, Expire(e)
       PROVE  CallerInv'
  BY <1>13, <1>a DEF Expire, ExpireEntity, callerVars, RedisTypeOK, CallerInv
<1>14. ASSUME NEW e \in Entity, ForceRelease(e)
       PROVE  CallerInv'
  BY <1>14, <1>a DEF ForceRelease, ForceReleaseEntity, callerVars, RedisTypeOK, CallerInv
<1>15. CASE ExpireMaintenance
  BY <1>15, <1>a DEF ExpireMaintenance, ExpireMaint, callerVars, CallerInv
<1>16. CASE UNCHANGED vars
  BY <1>16 DEF vars, CallerInv
<1>17. QED
  BY <1>1, <1>2, <1>3, <1>4, <1>5, <1>6, <1>7, <1>8, <1>9, <1>10, <1>11, <1>12,
     <1>13, <1>14, <1>15, <1>16 DEF Next, CallerStep, KeyStep

\* acquire_locks takes all locks or none and the finally blocks give them back:
\* an operation that ended normally owns no key, even when TTLs run out under it.
THEOREM NoLockLeftBehind == Spec => []NothingLeftBehind
<1>1. CallerInv => NothingLeftBehind
  BY DEF CallerInv, NothingLeftBehind
<1>2. QED
  BY <1>1, KeyInvInit, KeyInvStep, CallerInvInit, CallerInvStep, PTL DEF Spec

-----------------------------------------------------------------------------
(* Ownership, while no TTL runs out under a working caller.                *)

LEMMA HeldIsOwnedInit == Init => HeldIsOwned
BY DEF Init, HeldIsOwned

LEMMA HeldIsOwnedStep ==
  ~Overrun /\ KeyInv /\ HeldIsOwned /\ [Next]_vars => HeldIsOwned'
<1> SUFFICES ASSUME ~Overrun, KeyInv, HeldIsOwned, [Next]_vars
             PROVE  HeldIsOwned'
  OBVIOUS
<1>a. TypeOK /\ RedisTypeOK /\ RedisInv
  BY DEF KeyInv, RedisInv
<1> USE NoneAssumption
<1>1. ASSUME NEW t \in Token, NEW S \in SUBSET Entity, BeginTask(t, S)
      PROVE  HeldIsOwned'
  BY <1>1, <1>a DEF BeginTask, TypeOK, HeldIsOwned
<1>2. ASSUME NEW t \in Token, NEW e \in Entity, AcquireNext(t, e)
      PROVE  HeldIsOwned'
  BY <1>2, <1>a, AcquireIsFree DEF AcquireNext, TypeOK, HeldIsOwned
<1>3. ASSUME NEW t \in Token, NEW e \in Entity, RefusedNext(t, e)
      PROVE  HeldIsOwned'
  BY <1>3, <1>a DEF RefusedNext, EntityRefused, redisVars, TypeOK, HeldIsOwned, Releasing
<1>4. ASSUME NEW t \in Token, NEW e \in Entity, AcquireRaised(t, e)
      PROVE  HeldIsOwned'
  BY <1>4, <1>a, AcquireIsFree
     DEF AcquireRaised, redisVars, TypeOK, HeldIsOwned, Releasing
<1>5. ASSUME NEW t \in Token, NEW e \in Entity, ReleaseNext(t, e)
      PROVE  HeldIsOwned'
  BY <1>5, <1>a, ReleaseIsOwn DEF ReleaseNext, TypeOK, HeldIsOwned, Releasing
<1>6. ASSUME NEW t \in Token, NEW e \in Entity, ReleaseRaised(t, e)
      PROVE  HeldIsOwned'
  BY <1>6, <1>a DEF ReleaseRaised, TypeOK, HeldIsOwned, Releasing
<1>7. ASSUME NEW t \in Token, EndTask(t)
      PROVE  HeldIsOwned'
  BY <1>7, <1>a DEF EndTask, TypeOK, HeldIsOwned
<1>8. ASSUME NEW t \in Token, BeginBackup(t)
      PROVE  HeldIsOwned'
  BY <1>8, <1>a DEF BeginBackup, AcquireMaint, TypeOK, HeldIsOwned
<1>9. ASSUME NEW t \in Token, BackupRefused(t)
      PROVE  HeldIsOwned'
  BY <1>9, <1>a, MaintRefusedInv DEF BackupRefused, TypeOK, HeldIsOwned
<1>10. ASSUME NEW t \in Token, EndBackup(t)
       PROVE  HeldIsOwned'
  BY <1>10, <1>a DEF EndBackup, ReleaseMaint, redisVars, TypeOK, HeldIsOwned
<1>11. ASSUME NEW t \in Token, Crash(t)
       PROVE  HeldIsOwned'
  BY <1>11, <1>a DEF Crash, redisVars, TypeOK, HeldIsOwned
<1>12. ASSUME NEW t \in Token, Recycle(t)
       PROVE  HeldIsOwned'
  BY <1>12, <1>a DEF Recycle, TypeOK, HeldIsOwned
<1>13. ASSUME NEW e \in Entity, Expire(e)
       PROVE  HeldIsOwned'
  BY <1>13, <1>a DEF Expire, ExpireEntity, InUse, Live, callerVars, RedisTypeOK, HeldIsOwned
<1>14. ASSUME NEW e \in Entity, ForceRelease(e)
       PROVE  HeldIsOwned'
  BY <1>14, <1>a DEF ForceRelease, ForceReleaseEntity, InUse, Live, callerVars,
                     RedisTypeOK, HeldIsOwned
<1>15. CASE ExpireMaintenance
  BY <1>15, <1>a DEF ExpireMaintenance, ExpireMaint, callerVars, HeldIsOwned
<1>16. CASE UNCHANGED vars
  BY <1>16 DEF vars, HeldIsOwned
<1>17. QED
  BY <1>1, <1>2, <1>3, <1>4, <1>5, <1>6, <1>7, <1>8, <1>9, <1>10, <1>11, <1>12,
     <1>13, <1>14, <1>15, <1>16 DEF Next, CallerStep, KeyStep

\* Every caller owns what acquire_locks or the maintenance lock told it that it
\* holds, provided TTLs outlast the work they cover.
THEOREM CallersOwnWhatTheyHold == ASSUME ~Overrun PROVE Spec => []HeldIsOwned
<1>1. KeyInv /\ HeldIsOwned /\ [Next]_vars => HeldIsOwned'
  BY HeldIsOwnedStep
<1>2. QED
  BY <1>1, KeyInvInit, KeyInvStep, HeldIsOwnedInit, PTL DEF Spec

-----------------------------------------------------------------------------
(* The refinement.                                                         *)

LEMMA ExclusionInit == Init => Exclusion!Init
BY DEF Init, Exclusion!Init

LEMMA ExclusionStep ==
  ~Overrun /\ KeyInv /\ CallerInv /\ HeldIsOwned /\ [Next]_vars
    => [Exclusion!Next]_Exclusion!exclusionVars
<1> SUFFICES ASSUME ~Overrun, KeyInv, CallerInv, HeldIsOwned, [Next]_vars
             PROVE  [Exclusion!Next]_Exclusion!exclusionVars
  OBVIOUS
<1> DEFINE backups == {t \in Token : pc[t] = "backup"}
<1>a. TypeOK /\ RedisTypeOK /\ RedisInv
  BY DEF KeyInv, RedisInv
<1>b. ASSUME held' = held, backups' = backups
      PROVE  [Exclusion!Next]_Exclusion!exclusionVars
  BY <1>b DEF Exclusion!exclusionVars
<1> USE NoneAssumption
<1>1. ASSUME NEW t \in Token, NEW e \in Entity, AcquireNext(t, e)
      PROVE  Exclusion!Next
  <2>1. maint = None /\ lock[e] = None
    BY <1>1, <1>a, AcquireIsFree DEF AcquireNext
  <2>2. backups = {} /\ \A s \in Token : e \notin held[s]
    BY <2>1, <1>a DEF HeldIsOwned, TypeOK
  <2>3. backups' = backups
    BY <1>1, <1>a DEF AcquireNext, TypeOK
  <2>4. Exclusion!Start(t, e)
    BY <1>1, <2>2, <2>3, <1>a DEF Exclusion!Start, AcquireNext, TypeOK
  <2>5. QED
    BY <2>4 DEF Exclusion!Next
<1>2. ASSUME NEW t \in Token, NEW e \in Entity,
             ReleaseNext(t, e) \/ ReleaseRaised(t, e)
      PROVE  Exclusion!Next
  <2>1. backups' = backups
    BY <1>2, <1>a DEF ReleaseNext, ReleaseRaised, TypeOK, Releasing
  <2>2. Exclusion!Finish(t, {e})
    BY <1>2, <2>1, <1>a
       DEF Exclusion!Finish, ReleaseNext, ReleaseRaised, TypeOK, First
  <2>3. QED
    BY <2>2 DEF Exclusion!Next
<1>3. ASSUME NEW t \in Token, BeginBackup(t)
      PROVE  Exclusion!Next
  <2>1. \A e \in Entity : lock[e] = None
    BY <1>3, <1>a, AcquireMaintInv DEF BeginBackup, Live
  <2>2. backups = {} /\ \A s \in Token : held[s] = {}
    BY <1>3, <2>1, <1>a DEF BeginBackup, AcquireMaint, HeldIsOwned, TypeOK
  <2>3. backups' = {t}
    BY <1>3, <2>2, <1>a DEF BeginBackup, TypeOK
  <2>4. Exclusion!StartBackup(t)
    BY <1>3, <2>2, <2>3 DEF Exclusion!StartBackup, BeginBackup
  <2>5. QED
    BY <2>4 DEF Exclusion!Next
<1>4. ASSUME NEW t \in Token, EndBackup(t)
      PROVE  Exclusion!Next
  <2>1. t \in backups /\ backups' = backups \ {t}
    BY <1>4, <1>a DEF EndBackup, TypeOK
  <2>2. Exclusion!FinishBackup(t)
    BY <1>4, <2>1 DEF Exclusion!FinishBackup, EndBackup
  <2>3. QED
    BY <2>2 DEF Exclusion!Next
<1>5. ASSUME NEW t \in Token, Crash(t)
      PROVE  [Exclusion!Next]_Exclusion!exclusionVars
  <2>1. CASE pc[t] = "backup"
    <3>1. held' = held
      BY <1>5, <2>1, <1>a DEF Crash, CallerInv, TypeOK
    <3>2. t \in backups /\ backups' = backups \ {t}
      BY <1>5, <2>1, <1>a DEF Crash, TypeOK
    <3>3. Exclusion!FinishBackup(t)
      BY <3>1, <3>2 DEF Exclusion!FinishBackup
    <3>4. QED
      BY <3>3 DEF Exclusion!Next
  <2>2. CASE pc[t] # "backup"
    <3>1. backups' = backups
      BY <1>5, <2>2, <1>a DEF Crash, TypeOK
    <3>2. held' = [held EXCEPT ![t] = held[t] \ held[t]]
      BY <1>5 DEF Crash
    <3>3. CASE held[t] = {}
      BY <3>1, <3>2, <3>3, <1>b, <1>a DEF TypeOK
    <3>4. CASE held[t] # {}
      <4>1. Exclusion!Finish(t, held[t])
        BY <3>1, <3>2, <3>4 DEF Exclusion!Finish
      <4>2. held[t] \in SUBSET Entity
        BY <1>a DEF TypeOK
      <4>3. QED
        BY <4>1, <4>2 DEF Exclusion!Next
    <3>5. QED
      BY <3>3, <3>4
  <2>3. QED
    BY <2>1, <2>2
<1>6. ASSUME NEW t \in Token,
             \/ \E S \in SUBSET Entity : BeginTask(t, S)
             \/ \E e \in Entity : RefusedNext(t, e) \/ AcquireRaised(t, e)
             \/ EndTask(t) \/ BackupRefused(t) \/ Recycle(t)
      PROVE  [Exclusion!Next]_Exclusion!exclusionVars
  <2>1. held' = held
    BY <1>6 DEF BeginTask, RefusedNext, AcquireRaised, EndTask, BackupRefused, Recycle
  <2>2. backups' = backups
    BY <1>6, <1>a DEF BeginTask, RefusedNext, AcquireRaised, EndTask, BackupRefused,
                      Recycle, Releasing, TypeOK
  <2>3. QED
    BY <2>1, <2>2, <1>b
<1>7. ASSUME KeyStep \/ UNCHANGED vars
      PROVE  [Exclusion!Next]_Exclusion!exclusionVars
  BY <1>7, <1>b DEF KeyStep, Expire, ForceRelease, ExpireMaintenance, callerVars, vars
<1>8. QED
  BY <1>1, <1>2, <1>3, <1>4, <1>5, <1>6, <1>7 DEF Next, CallerStep

\* While TTLs outlast the work they cover, the callers of task_lock.py implement
\* EntityExclusion: one operation per entity, a backup only when none works.
THEOREM LocksImplementExclusion == ASSUME ~Overrun PROVE Spec => ExclusionSpec
<1>1. KeyInv /\ HeldIsOwned /\ [Next]_vars => HeldIsOwned'
  BY HeldIsOwnedStep
<1>2. KeyInv /\ CallerInv /\ HeldIsOwned /\ [Next]_vars
        => [Exclusion!Next]_Exclusion!exclusionVars
  BY ExclusionStep
<1>3. QED
  BY <1>1, <1>2, KeyInvInit, KeyInvStep, CallerInvInit, CallerInvStep,
     HeldIsOwnedInit, ExclusionInit, PTL
  DEF Spec, ExclusionSpec, Exclusion!Spec
=============================================================================
