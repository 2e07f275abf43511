-------------------------- MODULE InstanceOpsProofs --------------------------
(***************************************************************************)
(* For any number of instances, requests and workers, and whatever fails   *)
(* short of a lock running out under its job: an operation owns its lock   *)
(* from the route to the task's finally, InstanceOps implements            *)
(* EntityExclusion, and what the user is shown of an instance is true.     *)
(***************************************************************************)
EXTENDS InstanceOps, RedisLockProofs

-----------------------------------------------------------------------------
(* The vocabulary is closed under the operators of InstanceOps.            *)

LEMMA StatusClosed ==
  /\ \A o : Busy(o) \in Status
  /\ \A o, restart, original : Outcome(o, restart, original) \in Status
  /\ Settled \subseteq Status
  /\ {"idle", "absent", "error", "running"} \subseteq Status
BY DEF Busy, Outcome, Status, Settled, Transitional

LEMMA EffectClosed ==
  ASSUME NEW o, NEW restart, NEW s \in {"active", "inactive"}
  PROVE  /\ Effect(o, restart, s) \in {"active", "inactive"}
         /\ PartialEffect(o, restart, s) \subseteq {"active", "inactive"}
BY DEF Effect, PartialEffect

LEMMA SetStatusType ==
  ASSUME status \in [Entity -> Status], NEW i, NEW s \in Status, SetStatus(i, s)
  PROVE  status' \in [Entity -> Status]
BY DEF SetStatus

LEMMA GotoType ==
  ASSUME req \in [Token -> Request], NEW r \in Token, NEW p \in Phase, Goto(r, p)
  PROVE  /\ req' \in [Token -> Request]
         /\ req'[r].phase = p /\ req'[r].inst = req[r].inst
         /\ \A s \in Token : s # r => req'[s] = req[s]
BY DEF Goto, Request

LEMMA EndType ==
  ASSUME req \in [Token -> Request], NEW r \in Token, NEW p \in Phase, End(r, p)
  PROVE  /\ req' \in [Token -> Request]
         /\ req'[r].phase = p
         /\ \A s \in Token : s # r => req'[s] = req[s]
BY DEF End, Request, NoRequest, Status

\* A request goes on, and remembers another status of its instance.
LEMMA SeenType ==
  ASSUME req \in [Token -> Request], NEW r \in Token, NEW p \in Phase, NEW h \in Status,
         req' = [req EXCEPT ![r].phase = p, ![r].seen = h]
  PROVE  /\ req' \in [Token -> Request]
         /\ req'[r].phase = p /\ req'[r].inst = req[r].inst
         /\ \A s \in Token : s # r => req'[s] = req[s]
<1> DEFINE q == [req[r] EXCEPT !.phase = p, !.seen = h]
<1>1. q \in Request /\ q.phase = p /\ q.inst = req[r].inst
  BY DEF Request
<1>2. req' = [req EXCEPT ![r] = q]
  OBVIOUS
<1> HIDE DEF q
<1> QED
  BY <1>1, <1>2

-----------------------------------------------------------------------------
(* The inductive invariant.                                                *)

Free == {"new", "gone", "done", "backup"}    \* phases without an instance
Interrupted == {"dead", "abandoned", "done"} \* phases a recovery may work for

\* OwnerHoldsLock is not inductive. A recovery in flight releases its job's
\* token, so the job must be one that no longer relies on it, and the token
\* must not be in use for a new request; and the phases that release or write
\* must have an instance to do it to.
OwnerInv ==
    /\ \A r \in Token : ~In(r, Free) => req[r].inst \in Entity
    /\ \A r \in Token : In(r, Owning) => lock[req[r].inst] = r
    /\ \A r \in Token : In(r, {"backup"}) => maint = r
    /\ \A a \in Agent : rec[a] # NoRecovery =>
          /\ rec[a].req \in Token
          /\ rec[a].inst \in Entity
          /\ In(rec[a].req, Interrupted)

IndInv == TypeOK /\ RedisInv /\ OwnerInv

LEMMA IndInvInit == Init => IndInv
<1> SUFFICES ASSUME Init
             PROVE  IndInv
  OBVIOUS
<1>1. RedisInv
  BY RedisInitInv DEF Init
<1>2. status \in [Entity -> Status]
  BY DEF Init, Status, Settled
<1>3. svc \in [Entity -> {"active", "inactive"}]
  BY DEF Init
<1>4. req \in [Token -> Request]
  BY DEF Init, Request, NoRequest, Phase, Status
<1>5. rec \in [Agent -> Recovery]
  BY DEF Init, Recovery, NoRecovery
<1>6. TypeOK
  BY <1>1, <1>2, <1>3, <1>4, <1>5 DEF Init, TypeOK, RedisInv
<1>7. OwnerInv
  BY DEF Init, OwnerInv, NoRequest, In, Free, Owning
<1>8. QED
  BY <1>1, <1>6, <1>7 DEF IndInv

\* What a step of r leaves to the others.
KeysKept(r) ==
    /\ RedisInv'
    /\ \A f \in Entity, s \in Token \ {r} : lock[f] = s => lock'[f] = s
    /\ \A s \in Token \ {r} : maint = s => maint' = s

DataTyped ==
    /\ status' \in [Entity -> Status]
    /\ svc' \in [Entity -> {"active", "inactive"}]
    /\ queue' \in Seq(Token)
    /\ tainted' \in SUBSET Entity

LEMMA UnchangedKept ==
  ASSUME RedisInv, NEW r \in Token, UNCHANGED redisVars
  PROVE  KeysKept(r)
BY RedisUnchangedInv DEF KeysKept, redisVars

LEMMA ReleaseKept ==
  ASSUME RedisInv, NEW r \in Token, NEW e \in Entity, ReleaseEntity(e, r)
  PROVE  KeysKept(r)
BY ReleaseEntityInv, ReleaseIsOwn DEF KeysKept, RedisInv

LEMMA AcquireKept ==
  ASSUME RedisInv, NEW r \in Token, NEW e \in Entity, AcquireEntity(e, r)
  PROVE  KeysKept(r) /\ lock'[e] = r
BY AcquireEntityInv, AcquireIsFree, NoneAssumption DEF KeysKept, RedisInv

\* One request moves, the rest follows.
LEMMA RequestStep ==
  ASSUME IndInv, NEW r \in Token, KeysKept(r), DataTyped, rec' = rec,
         req' \in [Token -> Request],
         \A s \in Token \ {r} : req'[s] = req[s],
         req'[r].phase \notin Free => req'[r].inst \in Entity,
         req'[r].phase \in Owning => lock'[req'[r].inst] = r,
         req'[r].phase = "backup" => maint' = r,
         \A a \in Agent : rec[a].req = r => req'[r].phase \in Interrupted
  PROVE  IndInv'
<1>1. TypeOK' /\ RedisInv'
  BY DEF IndInv, TypeOK, KeysKept, DataTyped, RedisInv
<1>2. ASSUME NEW s \in Token
      PROVE  /\ ~In(s, Free)' => req'[s].inst \in Entity
             /\ In(s, Owning)' => lock'[req'[s].inst] = s
             /\ In(s, {"backup"})' => maint' = s
  <2>1. CASE s = r
    BY <2>1 DEF In
  <2>2. CASE s # r
    <3>1. req'[s] = req[s]
      BY <2>2
    <3>2. In(s, Owning) => req[s].inst \in Entity /\ lock[req[s].inst] = s
      BY DEF IndInv, OwnerInv, In, Owning, Free
    <3>3. QED
      BY <2>2, <3>1, <3>2 DEF IndInv, OwnerInv, In, KeysKept
  <2>3. QED
    BY <2>1, <2>2
<1>3. ASSUME NEW a \in Agent, rec'[a] # NoRecovery
      PROVE  /\ rec'[a].req \in Token
             /\ rec'[a].inst \in Entity
             /\ In(rec[a].req, Interrupted)'
  <2>1. /\ rec[a].req \in Token
        /\ rec[a].inst \in Entity
        /\ req[rec[a].req].phase \in Interrupted
    BY <1>3 DEF IndInv, OwnerInv, In
  <2>2. req'[rec[a].req].phase \in Interrupted
    BY <2>1
  <2>3. QED
    BY <2>1, <2>2 DEF In
<1>4. OwnerInv'
  BY <1>2, <1>3 DEF OwnerInv
<1>5. QED
  BY <1>1, <1>4 DEF IndInv

LEMMA PhaseMembers ==
  /\ {"checked", "locked", "committed", "unlock", "undo", "drop", "queued"} \subseteq Phase
  /\ {"started", "ansible", "ok", "bad", "cut", "finishing", "failed"} \subseteq Phase
  /\ {"handling", "dead", "abandoned", "gone", "done", "backup"} \subseteq Phase
BY DEF Phase

\* What is known of the request a step is about.
LEMMA RequestFacts ==
  ASSUME IndInv, NEW r \in Token
  PROVE  /\ TypeOK /\ RedisTypeOK /\ RedisInv
         /\ req[r].phase \notin Free => req[r].inst \in Entity
         /\ req[r].phase \in Owning => lock[req[r].inst] = r
         /\ \A a \in Agent : rec[a].req = r => req[r].phase \in Interrupted
BY NoneAssumption DEF IndInv, OwnerInv, In, RedisInv, NoRecovery

\* How a request moves while it works on its instance: it is over, it no longer
\* relies on its lock, it gets it, or it still has it.
Moved(r) ==
    /\ req' \in [Token -> Request]
    /\ \A s \in Token \ {r} : req'[s] = req[s]
    /\ \/ req'[r].phase \in {"done", "gone"}
       \/ /\ req'[r].inst = req[r].inst
          /\ req'[r].phase \in {"undo", "drop", "failed", "handling", "dead"}
       \/ /\ req'[r].inst = req[r].inst
          /\ req'[r].phase \in Owning
          /\ \/ AcquireEntity(req[r].inst, r)
             \/ req[r].phase \in Owning /\ lock' = lock

Moves(r) ==
    /\ req[r].phase \notin Free \cup Interrupted
    /\ KeysKept(r) /\ DataTyped /\ rec' = rec /\ Moved(r)

LEMMA MoveStep ==
  ASSUME IndInv, NEW r \in Token, Moves(r)
  PROVE  IndInv'
<1>1. /\ req[r].inst \in Entity /\ RedisInv
      /\ req[r].phase \in Owning => lock[req[r].inst] = r
      /\ \A a \in Agent : rec[a].req # r
  BY RequestFacts DEF Moves
<1>2. AcquireEntity(req[r].inst, r) => lock'[req[r].inst] = r
  BY <1>1, AcquireKept
<1>3. /\ req' \in [Token -> Request]
      /\ \A s \in Token \ {r} : req'[s] = req[s]
      /\ req'[r].phase \notin Free => req'[r].inst \in Entity
      /\ req'[r].phase \in Owning => lock'[req'[r].inst] = r
      /\ req'[r].phase # "backup"
  BY <1>1, <1>2 DEF Moves, Moved, Free, Owning
<1>4. KeysKept(r) /\ DataTyped /\ rec' = rec
  BY DEF Moves
<1>5. QED
  BY <1>1, <1>3, <1>4, RequestStep

\* A route at work: everything between its check and its end.
RouteWork(r) ==
    \/ Acquire(r) \/ Refused(r) \/ Commit(r) \/ CommitFails(r) \/ PrepareFails(r)
    \/ Enqueue(r) \/ EnqueueFails(r) \/ Unlock(r) \/ Undo(r) \/ Drop(r)

LEMMA RouteWorkMoves ==
  ASSUME IndInv, NEW r \in Token, RouteWork(r)
  PROVE  Moves(r)
<1>a. /\ TypeOK /\ RedisTypeOK /\ RedisInv
      /\ req[r].phase \notin Free => req[r].inst \in Entity
      /\ req[r].phase \in Owning => lock[req[r].inst] = r
  BY RequestFacts
<1>1. ASSUME Acquire(r)
     PROVE  Moves(r)
  <2>1. KeysKept(r)
    BY <1>a, <1>1, AcquireKept DEF Acquire, In, Free
  <2>2. Moved(r)
    BY <1>a, <1>1, PhaseMembers, GotoType
       DEF Acquire, Moved, TypeOK, In, Free, Owning, redisVars, Request
  <2>3. DataTyped /\ rec' = rec
    BY <1>a, <1>1, StatusClosed, SetStatusType
       DEF Acquire, DataTyped, TypeOK, hostVars, TaintIf, SetStatus, In, Free
  <2>4. req[r].phase \notin Free \cup Interrupted
    BY <1>1 DEF Acquire, In, Free, Interrupted, InWorker
  <2>5. QED
    BY <2>1, <2>2, <2>3, <2>4 DEF Moves
<1>2. ASSUME Refused(r)
     PROVE  Moves(r)
  <2>1. KeysKept(r)
    BY <1>a, <1>2, UnchangedKept DEF Refused, EntityRefused
  <2>2. Moved(r)
    BY <1>a, <1>2, PhaseMembers, EndType
       DEF Refused, Moved, TypeOK, In, Free, Owning, redisVars, Request
  <2>3. DataTyped /\ rec' = rec
    BY <1>a, <1>2, StatusClosed, SetStatusType
       DEF Refused, DataTyped, TypeOK, hostVars, TaintIf, SetStatus, In, Free
  <2>4. req[r].phase \notin Free \cup Interrupted
    BY <1>2 DEF Refused, In, Free, Interrupted, InWorker
  <2>5. QED
    BY <2>1, <2>2, <2>3, <2>4 DEF Moves
<1>3. ASSUME Commit(r)
     PROVE  Moves(r)
  <2>1. KeysKept(r)
    BY <1>a, <1>3, UnchangedKept DEF Commit, redisVars
  <2>2. Moved(r)
    BY <1>a, <1>3, PhaseMembers, GotoType
       DEF Commit, Moved, TypeOK, In, Free, Owning, redisVars, Request
  <2>3. DataTyped /\ rec' = rec
    BY <1>a, <1>3, StatusClosed, SetStatusType
       DEF Commit, DataTyped, TypeOK, hostVars, TaintIf, SetStatus, In, Free
  <2>4. req[r].phase \notin Free \cup Interrupted
    BY <1>3 DEF Commit, In, Free, Interrupted, InWorker
  <2>5. QED
    BY <2>1, <2>2, <2>3, <2>4 DEF Moves
<1>4. ASSUME CommitFails(r)
     PROVE  Moves(r)
  <2>1. KeysKept(r)
    BY <1>a, <1>4, ReleaseKept DEF CommitFails, In, Free
  <2>2. Moved(r)
    BY <1>a, <1>4, PhaseMembers, GotoType, EndType
       DEF CommitFails, Moved, TypeOK, In, Free, Owning, redisVars, Request
  <2>3. DataTyped /\ rec' = rec
    BY <1>a, <1>4, StatusClosed, SetStatusType
       DEF CommitFails, DataTyped, TypeOK, hostVars, TaintIf, SetStatus, In, Free
  <2>4. req[r].phase \notin Free \cup Interrupted
    BY <1>4 DEF CommitFails, In, Free, Interrupted, InWorker
  <2>5. QED
    BY <2>1, <2>2, <2>3, <2>4 DEF Moves
<1>5. ASSUME PrepareFails(r)
     PROVE  Moves(r)
  <2>1. KeysKept(r)
    BY <1>a, <1>5, UnchangedKept DEF PrepareFails, redisVars
  <2>2. Moved(r)
    BY <1>a, <1>5, PhaseMembers, GotoType
       DEF PrepareFails, Moved, TypeOK, In, Free, Owning, redisVars, Request
  <2>3. DataTyped /\ rec' = rec
    BY <1>a, <1>5, StatusClosed, SetStatusType
       DEF PrepareFails, DataTyped, TypeOK, hostVars, TaintIf, SetStatus, In, Free
  <2>4. req[r].phase \notin Free \cup Interrupted
    BY <1>5 DEF PrepareFails, In, Free, Interrupted, InWorker
  <2>5. QED
    BY <2>1, <2>2, <2>3, <2>4 DEF Moves
<1>6. ASSUME Enqueue(r)
     PROVE  Moves(r)
  <2>1. KeysKept(r)
    BY <1>a, <1>6, UnchangedKept DEF Enqueue, redisVars
  <2>m. /\ req' \in [Token -> Request]
        /\ req'[r].phase \in {"queued"} /\ req'[r].inst = req[r].inst
        /\ \A s \in Token \ {r} : req'[s] = req[s]
    <3> DEFINE h == IF req[r].op = "config" THEN req[r].seen ELSE "absent"
    <3>1. req' = [req EXCEPT ![r].phase = "queued", ![r].seen = h]
      BY <1>6 DEF Enqueue
    <3>2. req \in [Token -> Request] /\ h \in Status
      BY <1>a, StatusClosed DEF Request, TypeOK
    <3> HIDE DEF h
    <3>3. QED
      BY <3>1, <3>2, PhaseMembers, SeenType
  <2>2. Moved(r)
    BY <1>a, <1>6, <2>m DEF Enqueue, Moved, In, Free, Owning, redisVars
  <2>3. DataTyped /\ rec' = rec
    BY <1>a, <1>6, StatusClosed, SetStatusType
       DEF Enqueue, DataTyped, TypeOK, hostVars, TaintIf, SetStatus, In, Free
  <2>4. req[r].phase \notin Free \cup Interrupted
    BY <1>6 DEF Enqueue, In, Free, Interrupted, InWorker
  <2>5. QED
    BY <2>1, <2>2, <2>3, <2>4 DEF Moves
<1>7. ASSUME EnqueueFails(r)
     PROVE  Moves(r)
  <2>1. KeysKept(r)
    BY <1>a, <1>7, ReleaseKept, UnchangedKept DEF EnqueueFails, In, Free, redisVars
  <2>2. Moved(r)
    BY <1>a, <1>7, PhaseMembers, GotoType, EndType
       DEF EnqueueFails, Moved, TypeOK, In, Free, Owning, redisVars, Request
  <2>3. DataTyped /\ rec' = rec
    BY <1>a, <1>7, StatusClosed, SetStatusType
       DEF EnqueueFails, DataTyped, TypeOK, hostVars, TaintIf, SetStatus, In, Free
  <2>4. req[r].phase \notin Free \cup Interrupted
    BY <1>7 DEF EnqueueFails, In, Free, Interrupted, InWorker
  <2>5. QED
    BY <2>1, <2>2, <2>3, <2>4 DEF Moves
<1>8. ASSUME Unlock(r)
     PROVE  Moves(r)
  <2>1. KeysKept(r)
    BY <1>a, <1>8, ReleaseKept DEF Unlock, In, Free
  <2>2. Moved(r)
    BY <1>a, <1>8, PhaseMembers, EndType
       DEF Unlock, Moved, TypeOK, In, Free, Owning, redisVars, Request
  <2>3. DataTyped /\ rec' = rec
    BY <1>a, <1>8, StatusClosed, SetStatusType
       DEF Unlock, DataTyped, TypeOK, hostVars, TaintIf, SetStatus, In, Free
  <2>4. req[r].phase \notin Free \cup Interrupted
    BY <1>8 DEF Unlock, In, Free, Interrupted, InWorker
  <2>5. QED
    BY <2>1, <2>2, <2>3, <2>4 DEF Moves
<1>9. ASSUME Undo(r)
     PROVE  Moves(r)
  <2>1. KeysKept(r)
    BY <1>a, <1>9, UnchangedKept DEF Undo, redisVars
  <2>2. Moved(r)
    BY <1>a, <1>9, PhaseMembers, GotoType, EndType
       DEF Undo, Moved, TypeOK, In, Free, Owning, redisVars, Request
  <2>3. DataTyped /\ rec' = rec
    BY <1>a, <1>9, StatusClosed, SetStatusType
       DEF Undo, DataTyped, TypeOK, hostVars, TaintIf, SetStatus, In, Free
  <2>4. req[r].phase \notin Free \cup Interrupted
    BY <1>9 DEF Undo, In, Free, Interrupted, InWorker
  <2>5. QED
    BY <2>1, <2>2, <2>3, <2>4 DEF Moves
<1>10. ASSUME Drop(r)
     PROVE  Moves(r)
  <2>1. KeysKept(r)
    BY <1>a, <1>10, UnchangedKept DEF Drop, redisVars
  <2>2. Moved(r)
    BY <1>a, <1>10, PhaseMembers, EndType
       DEF Drop, Moved, TypeOK, In, Free, Owning, redisVars, Request
  <2>3. DataTyped /\ rec' = rec
    BY <1>a, <1>10, StatusClosed, SetStatusType
       DEF Drop, DataTyped, TypeOK, hostVars, TaintIf, SetStatus, In, Free
  <2>4. req[r].phase \notin Free \cup Interrupted
    BY <1>10 DEF Drop, In, Free, Interrupted, InWorker
  <2>5. QED
    BY <2>1, <2>2, <2>3, <2>4 DEF Moves
<1>11. QED
  BY <1>1, <1>2, <1>3, <1>4, <1>5, <1>6, <1>7, <1>8, <1>9, <1>10 DEF RouteWork

LEMMA JobStepMoves ==
  ASSUME IndInv, NEW r \in Token, JobStep(r)
  PROVE  Moves(r)
<1>a. /\ TypeOK /\ RedisTypeOK /\ RedisInv
      /\ req[r].phase \notin Free => req[r].inst \in Entity
      /\ req[r].phase \in Owning => lock[req[r].inst] = r
  BY RequestFacts
<1>1. ASSUME Pop(r)
     PROVE  Moves(r)
  <2>1. KeysKept(r)
    BY <1>a, <1>1, UnchangedKept DEF Pop, redisVars
  <2>2. Moved(r)
    BY <1>a, <1>1, PhaseMembers, GotoType
       DEF Pop, Moved, TypeOK, In, Free, Owning, redisVars, Request
  <2>3. DataTyped /\ rec' = rec
    BY <1>a, <1>1, StatusClosed, SetStatusType
       DEF Pop, DataTyped, TypeOK, hostVars, TaintIf, SetStatus, In, Free
  <2>4. req[r].phase \notin Free \cup Interrupted
    BY <1>1 DEF Pop, In, Free, Interrupted, InWorker
  <2>5. QED
    BY <2>1, <2>2, <2>3, <2>4 DEF Moves
<1>2. ASSUME Begin(r)
     PROVE  Moves(r)
  <2>1. KeysKept(r)
    BY <1>a, <1>2, UnchangedKept DEF Begin, redisVars
  <2>m. /\ req' \in [Token -> Request]
        /\ req'[r].phase \in {"finishing", "ansible"} /\ req'[r].inst = req[r].inst
        /\ \A s \in Token \ {r} : req'[s] = req[s]
    BY <1>a, <1>2, PhaseMembers, GotoType, StatusClosed DEF Begin, Request, TypeOK
  <2>2. Moved(r)
    BY <1>a, <1>2, <2>m DEF Begin, Moved, In, Free, Owning, redisVars
  <2>3. DataTyped /\ rec' = rec
    BY <1>a, <1>2, StatusClosed, SetStatusType
       DEF Begin, DataTyped, TypeOK, hostVars, TaintIf, SetStatus, In, Free
  <2>4. req[r].phase \notin Free \cup Interrupted
    BY <1>2 DEF Begin, In, Free, Interrupted, InWorker
  <2>5. QED
    BY <2>1, <2>2, <2>3, <2>4 DEF Moves
<1>3. ASSUME Playbook(r)
     PROVE  Moves(r)
  <2>1. KeysKept(r)
    BY <1>a, <1>3, UnchangedKept DEF Playbook, redisVars
  <2>2. Moved(r)
    BY <1>a, <1>3, PhaseMembers, GotoType
       DEF Playbook, Moved, TypeOK, In, Free, Owning, redisVars, Request
  <2>3. DataTyped /\ rec' = rec
    BY <1>a, <1>3, StatusClosed, SetStatusType, EffectClosed
       DEF Playbook, DataTyped, TypeOK, hostVars, TaintIf, SetStatus, In, Free
  <2>4. req[r].phase \notin Free \cup Interrupted
    BY <1>3 DEF Playbook, In, Free, Interrupted, InWorker
  <2>5. QED
    BY <2>1, <2>2, <2>3, <2>4 DEF Moves
<1>4. ASSUME RecordOk(r)
     PROVE  Moves(r)
  <2>1. KeysKept(r)
    BY <1>a, <1>4, UnchangedKept DEF RecordOk, redisVars
  <2>m. /\ req' \in [Token -> Request]
        /\ req'[r].phase \in {"started", "finishing"} /\ req'[r].inst = req[r].inst
        /\ \A s \in Token \ {r} : req'[s] = req[s]
    BY <1>a, <1>4, PhaseMembers, GotoType, StatusClosed DEF RecordOk, Request, TypeOK
  <2>2. Moved(r)
    BY <1>a, <1>4, <2>m DEF RecordOk, Moved, In, Free, Owning, redisVars
  <2>3. DataTyped /\ rec' = rec
    BY <1>a, <1>4, StatusClosed, SetStatusType
       DEF RecordOk, DataTyped, TypeOK, hostVars, TaintIf, SetStatus, In, Free
  <2>4. req[r].phase \notin Free \cup Interrupted
    BY <1>4 DEF RecordOk, In, Free, Interrupted, InWorker
  <2>5. QED
    BY <2>1, <2>2, <2>3, <2>4 DEF Moves
<1>5. ASSUME RecordFailed(r)
     PROVE  Moves(r)
  <2>1. KeysKept(r)
    BY <1>a, <1>5, UnchangedKept DEF RecordFailed, redisVars
  <2>2. Moved(r)
    BY <1>a, <1>5, PhaseMembers, GotoType
       DEF RecordFailed, Moved, TypeOK, In, Free, Owning, redisVars, Request
  <2>3. DataTyped /\ rec' = rec
    BY <1>a, <1>5, StatusClosed, SetStatusType
       DEF RecordFailed, DataTyped, TypeOK, hostVars, TaintIf, SetStatus, In, Free
  <2>4. req[r].phase \notin Free \cup Interrupted
    BY <1>5 DEF RecordFailed, In, Free, Interrupted, InWorker
  <2>5. QED
    BY <2>1, <2>2, <2>3, <2>4 DEF Moves
<1>6. ASSUME RecordCut(r)
     PROVE  Moves(r)
  <2>1. KeysKept(r)
    BY <1>a, <1>6, UnchangedKept DEF RecordCut, redisVars
  <2>2. Moved(r)
    BY <1>a, <1>6, PhaseMembers, GotoType
       DEF RecordCut, Moved, TypeOK, In, Free, Owning, redisVars, Request
  <2>3. DataTyped /\ rec' = rec
    BY <1>a, <1>6, StatusClosed, SetStatusType
       DEF RecordCut, DataTyped, TypeOK, hostVars, TaintIf, SetStatus, In, Free
  <2>4. req[r].phase \notin Free \cup Interrupted
    BY <1>6 DEF RecordCut, In, Free, Interrupted, InWorker
  <2>5. QED
    BY <2>1, <2>2, <2>3, <2>4 DEF Moves
<1>7. ASSUME RecordDeleted(r)
     PROVE  Moves(r)
  <2>1. KeysKept(r)
    BY <1>a, <1>7, UnchangedKept DEF RecordDeleted, redisVars
  <2>2. Moved(r)
    BY <1>a, <1>7, PhaseMembers, GotoType
       DEF RecordDeleted, Moved, TypeOK, In, Free, Owning, redisVars, Request
  <2>3. DataTyped /\ rec' = rec
    BY <1>a, <1>7, StatusClosed, SetStatusType
       DEF RecordDeleted, DataTyped, TypeOK, hostVars, TaintIf, SetStatus, In, Free
  <2>4. req[r].phase \notin Free \cup Interrupted
    BY <1>7 DEF RecordDeleted, In, Free, Interrupted, InWorker
  <2>5. QED
    BY <2>1, <2>2, <2>3, <2>4 DEF Moves
<1>8. ASSUME Raise(r)
     PROVE  Moves(r)
  <2>1. KeysKept(r)
    BY <1>a, <1>8, UnchangedKept DEF Raise, redisVars
  <2>2. Moved(r)
    BY <1>a, <1>8, PhaseMembers, GotoType
       DEF Raise, Moved, TypeOK, In, Free, Owning, redisVars, Request
  <2>3. DataTyped /\ rec' = rec
    BY <1>a, <1>8, StatusClosed, SetStatusType
       DEF Raise, DataTyped, TypeOK, hostVars, TaintIf, SetStatus, In, Free
  <2>4. req[r].phase \notin Free \cup Interrupted
    BY <1>8 DEF Raise, In, Free, Interrupted, InWorker
  <2>5. QED
    BY <2>1, <2>2, <2>3, <2>4 DEF Moves
<1>9. ASSUME Finish(r)
     PROVE  Moves(r)
  <2>1. KeysKept(r)
    BY <1>a, <1>9, ReleaseKept DEF Finish, In, Free
  <2>2. Moved(r)
    BY <1>a, <1>9, PhaseMembers, EndType
       DEF Finish, Moved, TypeOK, In, Free, Owning, redisVars, Request
  <2>3. DataTyped /\ rec' = rec
    BY <1>a, <1>9, StatusClosed, SetStatusType
       DEF Finish, DataTyped, TypeOK, hostVars, TaintIf, SetStatus, In, Free
  <2>4. req[r].phase \notin Free \cup Interrupted
    BY <1>9 DEF Finish, In, Free, Interrupted, InWorker
  <2>5. QED
    BY <2>1, <2>2, <2>3, <2>4 DEF Moves
<1>10. ASSUME JobFails(r)
     PROVE  Moves(r)
  <2>1. KeysKept(r)
    BY <1>a, <1>10, ReleaseKept, UnchangedKept DEF JobFails, In, Free, redisVars
  <2>2. Moved(r)
    BY <1>a, <1>10, PhaseMembers, GotoType
       DEF JobFails, Moved, TypeOK, In, Free, Owning, redisVars, Request
  <2>3. DataTyped /\ rec' = rec
    BY <1>a, <1>10, StatusClosed, SetStatusType
       DEF JobFails, DataTyped, TypeOK, hostVars, TaintIf, SetStatus, In, Free
  <2>4. req[r].phase \notin Free \cup Interrupted
    BY <1>10 DEF JobFails, In, Free, Interrupted, InWorker
  <2>5. QED
    BY <2>1, <2>2, <2>3, <2>4 DEF Moves
<1>11. ASSUME WorkerCrash(r)
     PROVE  Moves(r)
  <2>1. KeysKept(r)
    BY <1>a, <1>11, UnchangedKept DEF WorkerCrash, redisVars
  <2>m. /\ req' \in [Token -> Request]
        /\ req'[r].phase \in {"dead"} /\ req'[r].inst = req[r].inst
        /\ \A s \in Token \ {r} : req'[s] = req[s]
    BY <1>a, <1>11, PhaseMembers, StatusClosed DEF WorkerCrash, Request, NoRequest, TypeOK
  <2>2. Moved(r)
    BY <1>a, <1>11, <2>m DEF WorkerCrash, Moved, In, Free, Owning, redisVars
  <2>3. DataTyped /\ rec' = rec
    <3>1. req[r].inst \in Entity /\ svc[req[r].inst] \in {"active", "inactive"}
      BY <1>a, <1>11 DEF WorkerCrash, In, InWorker, Free, TypeOK
    <3>2. svc' \in [Entity -> {"active", "inactive"}]
      BY <1>a, <1>11, <3>1, EffectClosed DEF WorkerCrash, TypeOK
    <3>3. QED
      BY <1>a, <1>11, <3>2 DEF WorkerCrash, DataTyped, TypeOK
  <2>4. req[r].phase \notin Free \cup Interrupted
    BY <1>11 DEF WorkerCrash, In, Free, Interrupted, InWorker
  <2>5. QED
    BY <2>1, <2>2, <2>3, <2>4 DEF Moves
<1>12. ASSUME HandlerReads(r)
     PROVE  Moves(r)
  <2>1. KeysKept(r)
    BY <1>a, <1>12, UnchangedKept DEF HandlerReads, redisVars
  <2>2. Moved(r)
    <3>1. CASE End(r, "done")
      BY <1>a, <3>1, PhaseMembers, EndType DEF Moved, TypeOK
    <3>2. CASE req' = [req EXCEPT ![r].phase = "handling",
                                  ![r].seen = status[req[r].inst]]
      <4>1. status[req[r].inst] \in Status
        BY <1>a, <1>12 DEF HandlerReads, In, Free, TypeOK
      <4>2. /\ req' \in [Token -> Request]
            /\ req'[r].phase = "handling" /\ req'[r].inst = req[r].inst
            /\ \A s \in Token \ {r} : req'[s] = req[s]
        BY <1>a, <3>2, <4>1, PhaseMembers, SeenType DEF TypeOK
      <4>3. QED
        BY <4>2 DEF Moved
    <3>3. QED
      BY <1>12, <3>1, <3>2 DEF HandlerReads
  <2>3. DataTyped /\ rec' = rec
    BY <1>a, <1>12, StatusClosed, SetStatusType
       DEF HandlerReads, DataTyped, TypeOK, hostVars, TaintIf, SetStatus, In, Free
  <2>4. req[r].phase \notin Free \cup Interrupted
    BY <1>12 DEF HandlerReads, In, Free, Interrupted, InWorker
  <2>5. QED
    BY <2>1, <2>2, <2>3, <2>4 DEF Moves
<1>13. ASSUME HandlerWrites(r)
     PROVE  Moves(r)
  <2>1. KeysKept(r)
    BY <1>a, <1>13, ReleaseKept, UnchangedKept DEF HandlerWrites, In, Free, redisVars
  <2>2. Moved(r)
    BY <1>a, <1>13, PhaseMembers, EndType
       DEF HandlerWrites, Moved, TypeOK, In, Free, Owning, redisVars, Request
  <2>3. DataTyped /\ rec' = rec
    BY <1>a, <1>13, StatusClosed, SetStatusType
       DEF HandlerWrites, DataTyped, TypeOK, hostVars, TaintIf, SetStatus, In, Free
  <2>4. req[r].phase \notin Free \cup Interrupted
    BY <1>13 DEF HandlerWrites, In, Free, Interrupted, InWorker
  <2>5. QED
    BY <2>1, <2>2, <2>3, <2>4 DEF Moves
<1>14. QED
  BY <1>1, <1>2, <1>3, <1>4, <1>5, <1>6, <1>7, <1>8, <1>9, <1>10, <1>11, <1>12, <1>13 DEF JobStep

LEMMA RouteStepInv ==
  ASSUME IndInv, NEW r \in Token, RouteStep(r)
  PROVE  IndInv'
<1>a. /\ TypeOK /\ RedisTypeOK /\ RedisInv
      /\ req[r].phase \notin Free => req[r].inst \in Entity
      /\ req[r].phase \in Owning => lock[req[r].inst] = r
  BY RequestFacts
<1>1. ASSUME NEW o \in Ops, NEW i \in Entity, NEW restart \in BOOLEAN,
             Check(r, o, i, restart)
     PROVE  IndInv'
  <2>1. KeysKept(r)
    BY <1>a, <1>1, UnchangedKept DEF Check
  <2>2. /\ req' \in [Token -> Request]
        /\ req'[r].phase = "checked" /\ req'[r].inst = i
        /\ \A s \in Token \ {r} : req'[s] = req[s]
    BY <1>a, <1>1, InstanceOpsAssumption, StatusClosed DEF Check, Request, Phase, TypeOK
  <2>3. DataTyped /\ rec' = rec
    BY <1>a, <1>1, StatusClosed DEF Check, DataTyped, TypeOK, hostVars
  <2>4. \A a \in Agent : rec[a].req # r
    BY <1>1, RequestFacts DEF Check, In, Interrupted
  <2>5. QED
    BY <2>1, <2>2, <2>3, <2>4, RequestStep DEF Free, Owning
<1>2. ASSUME WebCrash(r)
     PROVE  IndInv'
  <2>1. KeysKept(r)
    BY <1>a, <1>2, UnchangedKept DEF WebCrash
  <2>2. /\ req' \in [Token -> Request]
        /\ req'[r].phase = "gone"
        /\ \A s \in Token \ {r} : req'[s] = req[s]
    BY <1>a, <1>2, PhaseMembers, EndType DEF WebCrash, TypeOK
  <2>3. DataTyped /\ rec' = rec
    BY <1>a, <1>2 DEF WebCrash, DataTyped, TypeOK, hostVars
  <2>4. \A a \in Agent : rec[a].req # r
    BY <1>2, RequestFacts DEF WebCrash, In, Interrupted
  <2>5. QED
    BY <2>1, <2>2, <2>3, <2>4, RequestStep DEF Free, Owning
<1>3. ASSUME RouteWork(r)
     PROVE  IndInv'
  BY <1>3, RouteWorkMoves, MoveStep
<1>4. QED
  BY <1>1, <1>2, <1>3 DEF RouteStep, RouteWork

\* A recovery moves: it works for a request that relies on its lock no more.
LEMMA AgentStep ==
  ASSUME IndInv, NEW r \in Token, req[r].phase \in Interrupted, KeysKept(r), DataTyped,
         rec' \in [Agent -> Recovery],
         req' \in [Token -> Request],
         \A s \in Token \ {r} : req'[s] = req[s],
         \/ req'[r].phase = "done"
         \/ req'[r].phase \in Interrupted /\ req'[r].inst \in Entity,
         \A a \in Agent : rec'[a] # NoRecovery =>
            \/ rec'[a].req = r /\ rec'[a].inst \in Entity
            \/ rec[a] # NoRecovery /\ rec'[a].req = rec[a].req /\ rec'[a].inst = rec[a].inst
  PROVE  IndInv'
<1>1. TypeOK' /\ RedisInv'
  BY DEF IndInv, TypeOK, KeysKept, DataTyped, RedisInv
<1>2. ASSUME NEW s \in Token
      PROVE  /\ ~In(s, Free)' => req'[s].inst \in Entity
             /\ In(s, Owning)' => lock'[req'[s].inst] = s
             /\ In(s, {"backup"})' => maint' = s
  <2>1. CASE s = r
    BY <2>1 DEF In, Free, Interrupted, Owning
  <2>2. CASE s # r
    <3>1. req'[s] = req[s]
      BY <2>2
    <3>2. In(s, Owning) => req[s].inst \in Entity /\ lock[req[s].inst] = s
      BY DEF IndInv, OwnerInv, In, Owning, Free
    <3>3. QED
      BY <2>2, <3>1, <3>2 DEF IndInv, OwnerInv, In, KeysKept
  <2>3. QED
    BY <2>1, <2>2
<1>3. ASSUME NEW a \in Agent, rec'[a] # NoRecovery
      PROVE  /\ rec'[a].req \in Token
             /\ rec'[a].inst \in Entity
             /\ req'[rec'[a].req].phase \in Interrupted
  <2>1. req'[r].phase \in Interrupted
    BY DEF Interrupted
  <2>2. rec[a] # NoRecovery =>
          /\ rec[a].req \in Token
          /\ rec[a].inst \in Entity
          /\ req[rec[a].req].phase \in Interrupted
    BY DEF IndInv, OwnerInv, In
  <2>3. QED
    BY <1>3, <2>1, <2>2
<1>4. OwnerInv'
  BY <1>2, <1>3 DEF OwnerInv, In
<1>5. QED
  BY <1>1, <1>4 DEF IndInv

LEMMA RecoveryStepInv ==
  ASSUME IndInv, NEW a \in Agent, RecoveryStep(a)
  PROVE  IndInv'
<1>a. TypeOK /\ RedisInv /\ OwnerInv
  BY DEF IndInv
<1>1. ASSUME NEW r \in Token, RecoverReads(a, r)
      PROVE  IndInv'
  <2>1. KeysKept(r)
    BY <1>a, <1>1, UnchangedKept DEF RecoverReads
  <2>2. DataTyped
    BY <1>a, <1>1 DEF RecoverReads, DataTyped, TypeOK
  <2>3. req[r].phase = "dead" /\ req[r].inst \in Entity
    BY <1>a, <1>1 DEF RecoverReads, In, OwnerInv, Free
  <2>4. /\ rec' \in [Agent -> Recovery]
        /\ \A b \in Agent : rec'[b] # NoRecovery =>
             \/ rec'[b].req = r /\ rec'[b].inst \in Entity
             \/ rec[b] # NoRecovery /\ rec'[b].req = rec[b].req /\ rec'[b].inst = rec[b].inst
    BY <1>a, <1>1, <2>3 DEF RecoverReads, TypeOK, Recovery, Settled
  <2>5. /\ req' \in [Token -> Request]
        /\ \A s \in Token \ {r} : req'[s] = req[s]
        /\ \/ req'[r].phase = "done"
           \/ req'[r].phase \in Interrupted /\ req'[r].inst \in Entity
    BY <1>a, <1>1, <2>3, GotoType, EndType, PhaseMembers
       DEF RecoverReads, TypeOK, Interrupted
  <2>6. QED
    BY <2>1, <2>2, <2>3, <2>4, <2>5, AgentStep DEF Interrupted
<1>2. ASSUME RecoverProbes(a)
      PROVE  IndInv'
  <2>1. rec[a] # NoRecovery
    BY <1>2 DEF RecoverProbes, NoRecovery
  <2>2. rec[a].req \in Token /\ rec[a].inst \in Entity /\ In(rec[a].req, Interrupted)
    BY <1>a, <2>1 DEF OwnerInv
  <2>3. KeysKept(rec[a].req)
    BY <1>a, <1>2, <2>2, UnchangedKept DEF RecoverProbes
  <2>4. DataTyped
    BY <1>a, <1>2 DEF RecoverProbes, DataTyped, TypeOK
  <2>5. /\ rec' \in [Agent -> Recovery]
        /\ rec'[a].req = rec[a].req /\ rec'[a].inst = rec[a].inst
        /\ \A b \in Agent \ {a} : rec'[b] = rec[b]
    <3>1. PICK found \in Settled : rec' = [rec EXCEPT ![a].to = found]
      BY <1>2 DEF RecoverProbes, Settled
    <3>2. QED
      BY <1>a, <3>1 DEF TypeOK, Recovery
  <2>6. /\ req' = req /\ req \in [Token -> Request]
        /\ \/ req[rec[a].req].phase = "done"
           \/ req[rec[a].req].inst \in Entity
    BY <1>a, <1>2, <2>2 DEF RecoverProbes, TypeOK, OwnerInv, In, Free, Interrupted
  <2>7. QED
    BY <2>1, <2>2, <2>3, <2>4, <2>5, <2>6, AgentStep DEF In
<1>3. ASSUME RecoverWrites(a)
      PROVE  IndInv'
  <2>1. rec[a] # NoRecovery
    BY <1>3 DEF RecoverWrites, NoRecovery, Settled
  <2>2. rec[a].req \in Token /\ rec[a].inst \in Entity /\ In(rec[a].req, Interrupted)
    BY <1>a, <2>1 DEF OwnerInv
  <2>3. KeysKept(rec[a].req)
    BY <1>a, <1>3, <2>2, UnchangedKept, ReleaseKept DEF RecoverWrites
  <2>4. DataTyped
    BY <1>a, <1>3, StatusClosed, SetStatusType DEF RecoverWrites, DataTyped, TypeOK
  <2>5. /\ rec' \in [Agent -> Recovery]
        /\ rec'[a] = NoRecovery
        /\ \A b \in Agent \ {a} : rec'[b] = rec[b]
    BY <1>a, <1>3 DEF RecoverWrites, TypeOK, Recovery, NoRecovery
  <2>6. \/ req[rec[a].req].phase = "done"
        \/ req[rec[a].req].inst \in Entity
    BY <1>a, <2>2 DEF OwnerInv, In, Free, Interrupted
  <2>7. /\ req' \in [Token -> Request]
        /\ \A s \in Token \ {rec[a].req} : req'[s] = req[s]
        /\ \/ req'[rec[a].req].phase = "done"
           \/ /\ req'[rec[a].req].phase \in Interrupted
              /\ req'[rec[a].req].inst \in Entity
    BY <1>a, <1>3, <2>2, <2>6, EndType, PhaseMembers DEF RecoverWrites, TypeOK, In
  <2>8. QED
    BY <2>2, <2>3, <2>4, <2>5, <2>7, AgentStep DEF In
<1>4. QED
  BY <1>1, <1>2, <1>3 DEF RecoveryStep

\* Nobody's request moves and no key changes.
LEMMA QuietStep ==
  ASSUME IndInv, DataTyped, UNCHANGED <<redisVars, req, rec>>
  PROVE  IndInv'
<1>1. RedisInv'
  BY RedisUnchangedInv DEF IndInv
<1>2. TypeOK'
  BY <1>1 DEF IndInv, TypeOK, DataTyped, RedisInv
<1>3. OwnerInv'
  BY DEF IndInv, OwnerInv, In, redisVars
<1>4. QED
  BY <1>1, <1>2, <1>3 DEF IndInv

LEMMA OtherStepInv ==
  ASSUME IndInv, "delay" \notin Faults, OtherStep
  PROVE  IndInv'
<1>a. TypeOK /\ RedisTypeOK /\ RedisInv /\ OwnerInv
  BY DEF IndInv, RedisInv
<1>1. ASSUME NEW r \in Token, BackupBegins(r)
      PROVE  IndInv'
  <2>1. KeysKept(r) /\ maint' = r
    BY <1>a, <1>1, AcquireMaintInv, NoneAssumption
       DEF BackupBegins, AcquireMaint, KeysKept, RedisTypeOK
  <2>2. /\ req' \in [Token -> Request]
        /\ req'[r].phase = "backup"
        /\ \A s \in Token \ {r} : req'[s] = req[s]
    BY <1>a, <1>1, PhaseMembers, GotoType DEF BackupBegins, TypeOK
  <2>3. DataTyped /\ rec' = rec
    BY <1>a, <1>1 DEF BackupBegins, DataTyped, TypeOK, hostVars
  <2>4. \A a \in Agent : rec[a].req # r
    BY <1>1, RequestFacts DEF BackupBegins, In, Interrupted
  <2>5. QED
    BY <2>1, <2>2, <2>3, <2>4, RequestStep DEF Free, Owning
<1>2. ASSUME NEW r \in Token, BackupRefused(r)
      PROVE  IndInv'
  <2>1. KeysKept(r)
    BY <1>a, <1>2, MaintRefusedInv DEF BackupRefused, KeysKept
  <2>2. /\ req' \in [Token -> Request]
        /\ req'[r].phase = "done"
        /\ \A s \in Token \ {r} : req'[s] = req[s]
    BY <1>a, <1>2, PhaseMembers, EndType DEF BackupRefused, TypeOK
  <2>3. DataTyped /\ rec' = rec
    BY <1>a, <1>2 DEF BackupRefused, DataTyped, TypeOK, hostVars
  <2>4. QED
    BY <2>1, <2>2, <2>3, RequestStep DEF Free, Owning, Interrupted
<1>3. ASSUME NEW r \in Token, BackupEnds(r)
      PROVE  IndInv'
  <2>1. KeysKept(r)
    BY <1>a, <1>3, ReleaseMaintInv DEF BackupEnds, ReleaseMaint, KeysKept
  <2>2. /\ req' \in [Token -> Request]
        /\ req'[r].phase = "done"
        /\ \A s \in Token \ {r} : req'[s] = req[s]
    BY <1>a, <1>3, PhaseMembers, EndType DEF BackupEnds, TypeOK
  <2>3. DataTyped /\ rec' = rec
    BY <1>a, <1>3 DEF BackupEnds, DataTyped, TypeOK, hostVars
  <2>4. QED
    BY <2>1, <2>2, <2>3, RequestStep DEF Free, Owning, Interrupted
<1>4. ASSUME NEW r \in Token, Recycle(r)
      PROVE  IndInv'
  <2>1. KeysKept(r)
    BY <1>a, <1>4, UnchangedKept DEF Recycle
  <2>2. /\ req' \in [Token -> Request]
        /\ req'[r].phase = "new"
        /\ \A s \in Token \ {r} : req'[s] = req[s]
    BY <1>a, <1>4 DEF Recycle, TypeOK, Request, NoRequest, Phase, Status
  <2>3. DataTyped /\ rec' = rec
    BY <1>a, <1>4 DEF Recycle, DataTyped, TypeOK, hostVars
  <2>4. \A a \in Agent : rec[a].req # r
    BY <1>4 DEF Recycle
  <2>5. QED
    BY <2>1, <2>2, <2>3, <2>4, RequestStep DEF Free, Owning
<1>5. ASSUME NEW i \in Entity, Promote(i)
      PROVE  IndInv'
  <2>1. DataTyped
    BY <1>a, <1>5, StatusClosed, SetStatusType DEF Promote, DataTyped, TypeOK, hostVars
  <2>2. QED
    BY <1>5, <2>1, QuietStep DEF Promote, hostVars
<1>6. ASSUME NEW i \in Entity, Expire(i)
      PROVE  IndInv'
  <2>1. PICK r \in Token : lock[i] = r /\ ~In(r, Owning)
    BY <1>6 DEF Expire
  <2>2. KeysKept(r)
    BY <1>a, <1>6, <2>1, ExpireEntityInv DEF Expire, ExpireEntity, KeysKept, RedisTypeOK
  <2>3. DataTyped /\ rec' = rec /\ req' = req /\ maint' = maint
    BY <1>a, <1>6 DEF Expire, ExpireEntity, DataTyped, TypeOK, hostVars
  <2>4. req[r].phase = "backup" => maint = r
    BY <1>a DEF OwnerInv, In
  <2>5. QED
    BY <1>a, <2>1, <2>2, <2>3, <2>4, RequestFacts, RequestStep DEF In, TypeOK
<1>7. ASSUME ExpireMaintenance
      PROVE  IndInv'
  <2>1. PICK r \in Token : maint = r /\ ~In(r, {"backup"})
    BY <1>7 DEF ExpireMaintenance
  <2>2. KeysKept(r)
    BY <1>a, <1>7, <2>1, ExpireMaintInv DEF ExpireMaintenance, ExpireMaint, KeysKept
  <2>3. DataTyped /\ rec' = rec /\ req' = req /\ lock' = lock
    BY <1>a, <1>7 DEF ExpireMaintenance, ExpireMaint, DataTyped, TypeOK, hostVars
  <2>4. QED
    BY <1>a, <2>1, <2>2, <2>3, RequestFacts, RequestStep DEF In, TypeOK
<1>8. QED
  BY <1>1, <1>2, <1>3, <1>4, <1>5, <1>6, <1>7 DEF OtherStep

LEMMA IndInvStep ==
  ASSUME "delay" \notin Faults, IndInv, [Next]_vars
  PROVE  IndInv'
<1>1. CASE UNCHANGED vars
  <2>1. DataTyped
    BY <1>1 DEF IndInv, TypeOK, DataTyped, vars
  <2>2. QED
    BY <1>1, <2>1, QuietStep DEF vars, redisVars
<1>2. CASE Next
  BY <1>2, RouteStepInv, JobStepMoves, MoveStep, RecoveryStepInv, OtherStepInv DEF Next
<1>3. QED
  BY <1>1, <1>2

LEMMA IndInvAlways ==
  ASSUME "delay" \notin Faults
  PROVE  Spec => []IndInv
<1>1. Init => IndInv
  BY IndInvInit
<1>2. IndInv /\ [Next]_vars => IndInv'
  BY IndInvStep
<1>3. QED
  BY <1>1, <1>2, PTL DEF Spec

-----------------------------------------------------------------------------

\* Whatever the routes, jobs and recoveries do, statuses, keys and records stay
\* within the program's vocabulary.
THEOREM TypeCorrect ==
  ASSUME "delay" \notin Faults
  PROVE  Spec => []TypeOK
<1>1. IndInv => TypeOK
  BY DEF IndInv
<1>2. QED
  BY <1>1, IndInvAlways, PTL

\* From the route that took the lock to the task's finally, an operation's
\* token is the value of its instance's key, and a backup's that of the
\* maintenance key, for any number of instances, operations and workers: no
\* release, failure handler or recovery takes a lock from its owner.
THEOREM OwnersHoldTheirLocks == Spec => []OwnerHoldsLock
<1>1. CASE "delay" \in Faults
  <2>1. OwnerHoldsLock
    BY <1>1 DEF OwnerHoldsLock
  <2>2. QED
    BY <2>1, PTL
<1>2. CASE "delay" \notin Faults
  <2>1. IndInv => OwnerHoldsLock
    BY DEF IndInv, OwnerInv, OwnerHoldsLock
  <2>2. QED
    BY <1>2, <2>1, IndInvAlways, PTL
<1>3. QED
  BY <1>1, <1>2

-----------------------------------------------------------------------------
(* InstanceOps implements EntityExclusion: only Acquire and BackupBegins   *)
(* start something, and the keys rule out the rest.                        *)

ExWorking == [r \in Token |-> IF In(r, Owning) THEN {req[r].inst} ELSE {}]
ExBackups == {r \in Token : In(r, {"backup"})}

ExStep == [Exclusion!Next]_Exclusion!exclusionVars

LEMMA ExclusionInit == Init => Exclusion!Init
BY DEF Init, Exclusion!Init, NoRequest, In, Owning

\* Nobody but r moves.
Alone(r) == \A s \in Token \ {r} : req'[s] = req[s]

LEMMA NothingStarts ==
  ASSUME NEW r \in Token, Alone(r), IndInv,
         req[r].phase # "backup", req'[r].phase # "backup",
         req'[r].phase \in Owning =>
            req[r].phase \in Owning /\ req'[r].inst = req[r].inst
  PROVE  ExStep
<1>1. ExBackups' = ExBackups
  BY DEF ExBackups, In, Alone
<1>2. CASE req[r].phase \in Owning /\ req'[r].phase \notin Owning
  <2>1. req[r].inst \in Entity
    BY <1>2 DEF IndInv, OwnerInv, In, Free, Owning
  <2>2. ExWorking' = [ExWorking EXCEPT ![r] = @ \ {req[r].inst}]
    <3>1. ExWorking[r] \ {req[r].inst} = {}
      BY <1>2 DEF ExWorking, In
    <3>2. \A s \in Token : ExWorking'[s] = IF s = r THEN {} ELSE ExWorking[s]
      BY <1>2 DEF ExWorking, In, Alone
    <3>3. QED
      BY <3>1, <3>2 DEF ExWorking
  <2>3. \E S \in SUBSET Entity : Exclusion!Finish(r, S)
    <3>1. PICK S \in SUBSET Entity : S = {req[r].inst}
      BY <2>1
    <3>2. Exclusion!Finish(r, S)
      BY <1>1, <1>2, <2>2, <3>1 DEF Exclusion!Finish, ExWorking, ExBackups, In
    <3>3. QED
      BY <3>2
  <2>4. Exclusion!Next
    BY <2>3 DEF Exclusion!Next
  <2>5. QED
    BY <2>4 DEF ExStep
<1>3. CASE req[r].phase \in Owning <=> req'[r].phase \in Owning
  <2>1. ExWorking' = ExWorking
    BY <1>3 DEF ExWorking, In, Alone
  <2>2. QED
    BY <1>1, <2>1 DEF ExStep, Exclusion!exclusionVars, ExWorking, ExBackups
<1>4. QED
  BY <1>2, <1>3

LEMMA AcquireStarts ==
  ASSUME NEW r \in Token, Alone(r), IndInv, AcquireEntity(req[r].inst, r),
         req[r].phase \notin Free \cup Owning,
         req'[r].phase \in Owning, req'[r].inst = req[r].inst
  PROVE  ExStep
<1>1. req[r].inst \in Entity
  BY DEF IndInv, OwnerInv, In
<1>2. ExBackups = {} /\ ExBackups' = {}
  BY NoneAssumption DEF ExBackups, IndInv, OwnerInv, In, AcquireEntity, Alone, Free, Owning
<1>3. \A p \in Token : req[r].inst \notin ExWorking[p]
  BY NoneAssumption DEF ExWorking, IndInv, OwnerInv, In, AcquireEntity
<1>4. ExWorking' = [ExWorking EXCEPT ![r] = @ \cup {req[r].inst}]
  BY DEF ExWorking, In, Alone
<1>5. \E e \in Entity : Exclusion!Start(r, e)
  <2>1. PICK e \in Entity : e = req[r].inst
    BY <1>1
  <2>2. Exclusion!Start(r, e)
    BY <1>2, <1>3, <1>4, <2>1 DEF Exclusion!Start, ExWorking, ExBackups
  <2>3. QED
    BY <2>2
<1>6. Exclusion!Next
  BY <1>5 DEF Exclusion!Next
<1>7. QED
  BY <1>6 DEF ExStep

LEMMA BackupStarts ==
  ASSUME NEW r \in Token, IndInv, BackupBegins(r)
  PROVE  ExStep
<1>1. /\ Alone(r) /\ req[r].phase = "new" /\ req'[r].phase = "backup"
  BY PhaseMembers, GotoType DEF BackupBegins, IndInv, TypeOK, Alone, In
<1>2. ExBackups = {}
  BY NoneAssumption DEF ExBackups, IndInv, OwnerInv, In, BackupBegins, AcquireMaint
<1>3. \A p \in Token : ~In(p, Owning)
  <2>1. \A e \in Entity : lock[e] = None
    BY AcquireMaintInv DEF IndInv, BackupBegins, Live
  <2>2. QED
    BY <2>1, NoneAssumption DEF IndInv, OwnerInv, In, Owning, Free
<1>4. ExBackups' = {r}
  BY <1>1, <1>2 DEF ExBackups, In, Alone
<1>5. ExWorking' = ExWorking /\ \A p \in Token : ExWorking[p] = {}
  BY <1>1, <1>3 DEF ExWorking, In, Alone, Owning
<1>6. Exclusion!StartBackup(r)
  BY <1>2, <1>4, <1>5 DEF Exclusion!StartBackup, ExWorking, ExBackups
<1>7. QED
  BY <1>6 DEF ExStep, Exclusion!Next

LEMMA BackupStops ==
  ASSUME NEW r \in Token, Alone(r),
         req[r].phase = "backup", req'[r].phase \in {"done", "gone"}
  PROVE  ExStep
<1>1. ExBackups' = ExBackups \ {r} /\ r \in ExBackups
  BY DEF ExBackups, In, Alone
<1>2. ExWorking' = ExWorking
  BY DEF ExWorking, In, Alone, Owning
<1>3. Exclusion!FinishBackup(r)
  BY <1>1, <1>2 DEF Exclusion!FinishBackup, ExWorking, ExBackups
<1>4. QED
  BY <1>3 DEF ExStep, Exclusion!Next

LEMMA MovesExclude ==
  ASSUME NEW r \in Token, IndInv, Moves(r)
  PROVE  ExStep
<1>1. Alone(r) /\ req[r].phase \notin Free
  BY DEF Moves, Moved, Alone
<1>2. CASE /\ req[r].phase \notin Owning /\ req'[r].phase \in Owning
           /\ req'[r].inst = req[r].inst /\ AcquireEntity(req[r].inst, r)
  BY <1>1, <1>2, AcquireStarts
<1>3. CASE req'[r].phase \in Owning =>
             req[r].phase \in Owning /\ req'[r].inst = req[r].inst
  <2>1. req[r].phase # "backup" /\ req'[r].phase # "backup"
    BY <1>1 DEF Moves, Moved, Free, Owning
  <2>2. QED
    BY <1>1, <1>3, <2>1, NothingStarts
<1>4. QED
  BY <1>2, <1>3 DEF Moves, Moved, Owning

LEMMA RecoveryExcludes ==
  ASSUME NEW a \in Agent, IndInv, RecoveryStep(a)
  PROVE  ExStep
<1>1. CASE req' = req
  BY <1>1 DEF ExStep, Exclusion!exclusionVars, In
<1>2. ASSUME NEW r \in Token, In(r, Interrupted),
             Goto(r, "abandoned") \/ End(r, "done")
      PROVE  ExStep
  <2>1. Alone(r) /\ req'[r].phase \in {"abandoned", "done"}
    BY <1>2, PhaseMembers, GotoType, EndType DEF IndInv, TypeOK, Alone
  <2>2. QED
    BY <1>2, <2>1, NothingStarts DEF In, Interrupted, Owning
<1>3. rec[a].to \in Settled => rec[a].req \in Token /\ In(rec[a].req, Interrupted)
  BY DEF IndInv, OwnerInv, NoRecovery, Settled
<1>4. QED
  BY <1>1, <1>2, <1>3
     DEF RecoveryStep, RecoverReads, RecoverProbes, RecoverWrites, In, Interrupted

LEMMA ExclusionStep ==
  ASSUME "delay" \notin Faults, IndInv, [Next]_vars
  PROVE  ExStep
<1>1. CASE req' = req
  BY <1>1 DEF ExStep, Exclusion!exclusionVars, In
<1>2. ASSUME NEW r \in Token, RouteStep(r)
      PROVE  ExStep
  <2>1. ASSUME NEW o \in Ops, NEW i \in Entity, NEW restart \in BOOLEAN,
               Check(r, o, i, restart)
        PROVE  ExStep
    <3>1. Alone(r) /\ req[r].phase = "new" /\ req'[r].phase = "checked"
      BY <2>1 DEF Check, Alone, In, IndInv, TypeOK
    <3>2. QED
      BY <3>1, NothingStarts DEF Owning
  <2>2. ASSUME WebCrash(r)
        PROVE  ExStep
    <3>1. Alone(r) /\ req'[r].phase = "gone"
      BY <2>2, PhaseMembers, EndType DEF WebCrash, Alone, IndInv, TypeOK
    <3>2. QED
      BY <3>1, NothingStarts, BackupStops DEF Owning
  <2>3. QED
    BY <1>2, <2>1, <2>2, RouteWorkMoves, MovesExclude DEF RouteStep, RouteWork
<1>3. ASSUME NEW r \in Token, JobStep(r)
      PROVE  ExStep
  BY <1>3, JobStepMoves, MovesExclude
<1>4. ASSUME OtherStep
      PROVE  ExStep
  <2>1. ASSUME NEW r \in Token, BackupRefused(r) \/ BackupEnds(r)
        PROVE  ExStep
    <3>1. /\ Alone(r) /\ req'[r].phase = "done"
          /\ req[r].phase \in {"new", "backup"}
      BY <2>1, PhaseMembers, EndType DEF BackupRefused, BackupEnds, Alone, IndInv, TypeOK, In
    <3>2. QED
      BY <3>1, NothingStarts, BackupStops DEF Owning
  <2>2. ASSUME NEW r \in Token, Recycle(r)
        PROVE  ExStep
    <3>1. /\ Alone(r) /\ req'[r].phase = "new"
          /\ req[r].phase \in {"done", "gone"}
      BY <2>2 DEF Recycle, Alone, IndInv, TypeOK, In, NoRequest
    <3>2. QED
      BY <3>1, NothingStarts DEF Owning
  <2>3. QED
    BY <1>1, <1>4, <2>1, <2>2, BackupStarts
       DEF OtherStep, Promote, Expire, ExpireMaintenance, hostVars
<1>5. QED
  BY <1>1, <1>2, <1>3, <1>4, RecoveryExcludes DEF Next, vars

\* Unless a job outlives its lock's TTL, one operation at a time works on an
\* instance and a backup works alone, whoever crashes, times out or is
\* recovered: routes, tasks, handlers and recoveries together implement
\* EntityExclusion.
THEOREM OperationsExclude ==
  ASSUME "delay" \notin Faults
  PROVE  Spec => ExclusionSpec
<1>1. Init => Exclusion!Init
  BY ExclusionInit
<1>2. IndInv /\ [Next]_vars => ExStep
  BY ExclusionStep
<1>3. QED
  BY <1>1, <1>2, IndInvAlways, PTL DEF Spec, ExclusionSpec, Exclusion!Spec, ExStep

-----------------------------------------------------------------------------
(* What the user sees is true. Not only when nothing is in flight: an      *)
(* untainted instance is never shown as running or stopped if it is not.   *)

Shown == {"running", "stopped", "updated"}

Truthful(i) ==
    /\ status[i] = "running" => svc[i] = "active"
    /\ status[i] = "stopped" => svc[i] = "inactive"

Owned(i) == \E s \in Token : In(s, Owning) /\ req[s].inst = i

\* From the route's commit to the playbook the status says that something is
\* going on; only the hooks of a deployed instance begin where it is shown.
Hiding(r) ==
    \/ In(r, {"committed", "queued", "ansible"})
    \/ In(r, {"started"}) /\ req[r].op # "hooks"

\* A config request that leaves the service alone, and shows STOPPED in the end
\* if that is what the route saw.
SyncOnly(r) == req[r].op = "config" /\ ~req[r].restart

Synced == {"committed", "queued", "started", "ansible", "ok"}

\* What a request has read, or done, and will write, is true as long as it is
\* the one to write it.
RequestTruth(r) ==
    req[r].inst \in Entity \ tainted =>
        /\ Hiding(r) => status[req[r].inst] \notin Shown
        /\ In(r, {"undo"}) => ~Owned(req[r].inst)
        /\ In(r, {"committed", "undo"}) /\ req[r].op = "lan" /\ req[r].seen = "running"
              => svc[req[r].inst] = "active"
        /\ In(r, Synced) /\ SyncOnly(r) /\ req[r].seen = "stopped"
              => svc[req[r].inst] = "inactive"
        /\ In(r, {"ok"}) /\ ~SyncOnly(r)
              => svc[req[r].inst] = IF req[r].op \in {"stop", "delete"} THEN "inactive" ELSE "active"

\* The phases of which RequestTruth says something.
Telling == {"committed", "queued", "started", "ansible", "ok", "undo"}

\* A recovery is not overtaken by a new operation, and has probed what is.
RecoveryTruth(a) ==
    rec[a] # NoRecovery /\ rec[a].inst \in Entity \ tainted =>
        /\ ~Owned(rec[a].inst)
        /\ rec[a].to = "running" => svc[rec[a].inst] = "active"
        /\ rec[a].to = "stopped" => svc[rec[a].inst] = "inactive"

TruthInv ==
    /\ \A i \in Entity \ tainted : Truthful(i)
    /\ \A r \in Token : RequestTruth(r)
    /\ \A a \in Agent : RecoveryTruth(a)

LEMMA TruthInit == Init => TruthInv
<1> SUFFICES ASSUME Init
             PROVE  TruthInv
  OBVIOUS
<1>1. \A i \in Entity : Truthful(i)
  BY DEF Init, Truthful
<1>2. \A a \in Agent : rec[a] = NoRecovery
  BY DEF Init
<1>3. ASSUME NEW r \in Token
      PROVE  RequestTruth(r)
  <2>1. req[r].phase = "new"
    BY DEF Init, NoRequest
  <2>2. QED
    BY <2>1 DEF RequestTruth, Hiding, Synced, In
<1>4. QED
  BY <1>1, <1>2, <1>3 DEF TruthInv, RecoveryTruth

-----------------------------------------------------------------------------
(* How a step may go.                                                      *)

LEMMA PlainTruth ==
  ASSUME NEW r \in Token, req'[r].phase \notin Telling
  PROVE  RequestTruth(r)'
<1>1. /\ ~Hiding(r)' /\ ~In(r, {"undo"})' /\ ~In(r, {"ok"})' /\ ~In(r, {"committed", "undo"})'
      /\ ~In(r, Synced)'
  BY DEF Hiding, Telling, Synced, In
<1>2. QED
  BY <1>1 DEF RequestTruth

\* Only i is written.
OnlyOn(i) ==
    /\ \A f \in Entity \ {i} : status'[f] = status[f] /\ svc'[f] = svc[f]
    /\ tainted \subseteq tainted' /\ tainted' \subseteq tainted \cup {i}

\* Of an instance that is not written and has the owners it had.
LEMMA OthersTruth ==
  ASSUME TruthInv, NEW i \in Entity, OnlyOn(i), NEW s \in Token, req'[s] = req[s],
         req[s].inst # i, Owned(req[s].inst)' => Owned(req[s].inst)
  PROVE  RequestTruth(s)'
<1>1. RequestTruth(s)
  BY DEF TruthInv
<1>2. CASE req[s].inst \in Entity \ tainted'
  <2>1. /\ req[s].inst \in Entity \ tainted
        /\ status'[req[s].inst] = status[req[s].inst] /\ svc'[req[s].inst] = svc[req[s].inst]
    BY <1>2 DEF OnlyOn
  <2>2. QED
    BY <1>1, <2>1 DEF RequestTruth, Hiding, In, SyncOnly
<1>3. QED
  BY <1>2 DEF RequestTruth

LEMMA OneOwner ==
  ASSUME IndInv, NEW r \in Token, NEW s \in Token, In(r, Owning), In(s, Owning),
         req[r].inst = req[s].inst
  PROVE  r = s
BY DEF IndInv, OwnerInv

\* The owner of i goes on, or lets go of i: nobody else has a say on i.
LEMMA OwnerStep ==
  ASSUME IndInv, TruthInv, NEW r \in Token, NEW i, i = req[r].inst, In(r, Owning), Alone(r),
         rec' = rec, OnlyOn(i), In(r, Owning)' => req'[r].inst = i,
         i \in tainted' \/ Truthful(i)', RequestTruth(r)'
  PROVE  TruthInv'
<1>1. i \in Entity /\ Owned(i)
  BY DEF IndInv, OwnerInv, In, Free, Owning, Owned
<1>2. \A f \in Entity \ {i} : Owned(f)' => Owned(f)
  BY DEF Owned, In, Alone
<1>3. ASSUME NEW f \in Entity \ tainted'
      PROVE  Truthful(f)'
  <2>1. CASE f = i
    BY <2>1
  <2>2. CASE f # i
    <3>1. Truthful(f)
      BY <2>2 DEF TruthInv, OnlyOn
    <3>2. status'[f] = status[f] /\ svc'[f] = svc[f]
      BY <2>2 DEF OnlyOn
    <3>3. QED
      BY <3>1, <3>2 DEF Truthful
  <2>3. QED
    BY <2>1, <2>2
<1>4. ASSUME NEW s \in Token
      PROVE  RequestTruth(s)'
  <2>1. CASE s = r
    BY <2>1
  <2>2. CASE s # r /\ req[s].inst = i
    <3>1. req'[s] = req[s] /\ ~In(s, Owning)
      BY <2>2, OneOwner DEF Alone
    <3>2. i \in tainted \/ ~In(s, {"undo"})
      BY <1>1, <2>2 DEF TruthInv, RequestTruth
    <3>3. i \in tainted' \/ req'[s].phase \notin Telling
      BY <3>1, <3>2 DEF Telling, Owning, In, OnlyOn
    <3>4. QED
      BY <2>2, <3>1, <3>3, PlainTruth DEF RequestTruth
  <2>3. CASE s # r /\ req[s].inst # i
    <3>1. req'[s] = req[s]
      BY <2>3 DEF Alone
    <3>2. CASE req[s].inst \in Entity
      BY <1>1, <1>2, <2>3, <3>1, <3>2, OthersTruth
    <3>3. CASE req[s].inst \notin Entity
      BY <3>1, <3>3 DEF RequestTruth
    <3>4. QED
      BY <3>2, <3>3
  <2>4. QED
    BY <2>1, <2>2, <2>3
<1>5. ASSUME NEW a \in Agent, rec[a] # NoRecovery, rec[a].inst \in Entity \ tainted'
      PROVE  RecoveryTruth(a)'
  <2>1. RecoveryTruth(a) /\ rec[a].inst \in Entity \ tainted
    BY <1>5 DEF TruthInv, OnlyOn
  <2>2. rec[a].inst # i
    BY <1>1, <1>5, <2>1 DEF RecoveryTruth
  <2>3. svc'[rec[a].inst] = svc[rec[a].inst]
    BY <1>5, <2>2 DEF OnlyOn
  <2>4. QED
    BY <1>2, <1>5, <2>1, <2>2, <2>3 DEF RecoveryTruth
<1>6. \A a \in Agent : RecoveryTruth(a)'
  BY <1>5 DEF RecoveryTruth
<1>7. QED
  BY <1>3, <1>4, <1>6 DEF TruthInv

\* Nobody gets or writes a service; what is written of i is not SHOWN, or true
\* and nobody owns i. A request that moves says nothing afterwards.
LEMMA BystanderStep ==
  ASSUME TruthInv, NEW i, svc' = svc, OnlyOn(i),
         \/ status'[i] = status[i]
         \/ status'[i] \notin Shown
         \/ i \in tainted'
         \/ ~Owned(i) /\ Truthful(i)'
         \/ status[i] \in Shown /\ Truthful(i)',
         \A s \in Token : req'[s] = req[s] \/ req'[s].phase \notin Telling,
         \A f \in Entity : Owned(f)' => Owned(f),
         \A a \in Agent : rec'[a] = rec[a] \/ RecoveryTruth(a)'
  PROVE  TruthInv'
<1>1. ASSUME NEW f \in Entity \ tainted'
      PROVE  Truthful(f)'
  <2>1. Truthful(f)
    BY DEF TruthInv, OnlyOn
  <2>2. QED
    BY <2>1 DEF Truthful, OnlyOn, Shown
<1>2. ASSUME NEW s \in Token, req'[s].phase \in Telling, req'[s].inst \in Entity \ tainted'
      PROVE  RequestTruth(s)'
  <2>1. req'[s] = req[s] /\ RequestTruth(s)
    BY <1>2 DEF TruthInv
  <2>2. req[s].inst \in Entity \ tainted
    BY <1>2, <2>1 DEF OnlyOn
  <2>3. Hiding(s) => status'[req[s].inst] \notin Shown
    <3>1. CASE req[s].inst # i \/ status'[i] = status[i]
      BY <2>1, <2>2, <3>1 DEF RequestTruth, OnlyOn
    <3>2. CASE req[s].inst = i /\ Hiding(s)
      <4>1. Owned(i) /\ status[i] \notin Shown
        BY <2>1, <2>2, <3>2 DEF Owned, Hiding, In, Owning, RequestTruth
      <4>2. QED
        BY <1>2, <2>1, <3>2, <4>1
    <3>3. QED
      BY <3>1, <3>2
  <2>4. QED
    BY <2>1, <2>2, <2>3 DEF RequestTruth, Hiding, In, SyncOnly
<1>3. ASSUME NEW a \in Agent
      PROVE  RecoveryTruth(a)'
  <2>1. CASE rec'[a] = rec[a]
    BY <2>1 DEF TruthInv, RecoveryTruth, OnlyOn
  <2>2. QED
    BY <2>1
<1>4. \A s \in Token : RequestTruth(s)'
  BY <1>2, PlainTruth DEF RequestTruth
<1>5. QED
  BY <1>1, <1>3, <1>4 DEF TruthInv

\* A request goes on, or is over.
Keeps(r, p) ==
    /\ Alone(r)
    /\ req'[r].phase = p /\ req'[r].inst = req[r].inst /\ req'[r].op = req[r].op
    /\ req'[r].seen = req[r].seen /\ req'[r].restart = req[r].restart

LEMMA GotoKeeps ==
  ASSUME TypeOK, NEW r \in Token, NEW p, Goto(r, p)
  PROVE  Keeps(r, p)
BY DEF Goto, TypeOK, Request, Keeps, Alone

LEMMA EndKeeps ==
  ASSUME TypeOK, NEW r \in Token, NEW p, End(r, p)
  PROVE  Alone(r) /\ req'[r].phase = p
BY DEF End, TypeOK, Request, NoRequest, Alone

LEMMA SetOn ==
  ASSUME TypeOK, NEW i \in Entity, NEW s, SetStatus(i, s)
  PROVE  /\ \A f \in Entity \ {i} : status'[f] = status[f]
         /\ status[i] = "absent" => status'[i] = "absent"
         /\ status[i] # "absent" => status'[i] = s
BY DEF SetStatus, TypeOK

LEMMA BusyHides == \A o : Busy(o) \in Transitional /\ Busy(o) \notin Shown
BY DEF Busy, Transitional, Shown

LEMMA OwnerFacts ==
  ASSUME IndInv, TruthInv, NEW r \in Token, In(r, Owning), NEW i, i = req[r].inst
  PROVE  /\ TypeOK /\ i \in Entity
         /\ i \notin tainted => RequestTruth(r) /\ Truthful(i)
         /\ \A s \in Token \ {r} : ~(In(s, Owning) /\ req[s].inst = i)
<1>1. i \in Entity
  BY DEF IndInv, OwnerInv, In, Free, Owning
<1>2. QED
  BY <1>1, OneOwner DEF IndInv, TruthInv

\* The owner has nothing left to say, and at most hides the status.
LEMMA RetireStep ==
  ASSUME IndInv, TruthInv, NEW r \in Token, NEW i, i = req[r].inst, In(r, Owning),
         Alone(r), rec' = rec, OnlyOn(i), svc' = svc,
         status'[i] = status[i] \/ status'[i] \notin Shown,
         req'[r].phase \notin Telling, In(r, Owning)' => req'[r].inst = i
  PROVE  TruthInv'
<1>1. TypeOK /\ i \in Entity /\ (i \notin tainted => Truthful(i))
  BY OwnerFacts
<1>2. i \in tainted' \/ Truthful(i)'
  BY <1>1 DEF Truthful, OnlyOn, Shown
<1>3. QED
  BY <1>2, PlainTruth, OwnerStep

LEMMA CommitTruth ==
  ASSUME IndInv, TruthInv, NEW r \in Token, NEW i, i = req[r].inst, Commit(r)
  PROVE  TruthInv'
<1>1. In(r, Owning) /\ In(r, {"locked"})
  BY DEF Commit, In, Owning
<1>2. /\ TypeOK /\ i \in Entity
      /\ i \notin tainted => Truthful(i)
      /\ \A s \in Token \ {r} : ~(In(s, Owning) /\ req[s].inst = i)
  BY <1>1, OwnerFacts
<1>3. Keeps(r, "committed") /\ rec' = rec /\ svc' = svc
  BY <1>2, GotoKeeps DEF Commit, hostVars
<1>4. OnlyOn(i)
  BY <1>2, <1>3, SetOn DEF Commit, OnlyOn, TaintIf
<1>5. i \notin tainted' => ~Stale(r) /\ i \notin tainted
  BY DEF Commit, TaintIf
<1>6. ASSUME i \notin tainted'
      PROVE  status'[i] \notin Shown
  <2>1. CASE req[r].op = "config" /\ req[r].seen = Busy("config")
    <3>1. status'[i] = status[i]
      BY <2>1 DEF Commit
    <3>2. status[i] = Busy("config")
      BY <1>5, <1>6, <2>1 DEF Stale
    <3>3. QED
      BY <3>1, <3>2, BusyHides
  <2>2. CASE ~(req[r].op = "config" /\ req[r].seen = Busy("config"))
    <3>1. SetStatus(i, Busy(req[r].op)) /\ status[i] # "absent"
      BY <2>2 DEF Commit
    <3>2. QED
      BY <1>2, <3>1, SetOn, BusyHides
  <2>3. QED
    BY <2>1, <2>2
<1>7. ASSUME i \notin tainted', req[r].op \in {"config", "lan"}
      PROVE  /\ req[r].seen = "running" => svc'[i] = "active"
             /\ req[r].seen = "stopped" => svc'[i] = "inactive"
  <2>1. Truthful(i) /\ req[r].seen = status[i]
    BY <1>2, <1>5, <1>7 DEF Stale
  <2>2. QED
    BY <1>3, <2>1 DEF Truthful
<1>8. RequestTruth(r)'
  BY <1>3, <1>6, <1>7 DEF RequestTruth, Hiding, In, SyncOnly, Keeps
<1>9. i \in tainted' \/ Truthful(i)'
  BY <1>6 DEF Truthful, Shown
<1>10. QED
  BY <1>1, <1>3, <1>4, <1>8, <1>9, OwnerStep DEF Keeps

\* Everything that lets go of the lock before the job is made.
LEMMA UndoTruth ==
  ASSUME IndInv, TruthInv, NEW r \in Token, NEW i, i = req[r].inst, In(r, {"locked", "committed"}),
         Keeps(r, "undo"), rec' = rec, svc' = svc, status' = status, OnlyOn(i),
         i \notin tainted' /\ In(r, {"locked"}) => ~Stale(r)
  PROVE  TruthInv'
<1>1. In(r, Owning)
  BY DEF In, Owning
<1>2. /\ i \in Entity
      /\ i \notin tainted => RequestTruth(r) /\ Truthful(i)
      /\ \A s \in Token \ {r} : ~(In(s, Owning) /\ req[s].inst = i)
  BY <1>1, OwnerFacts
<1>3. ~Owned(i)'
  BY <1>2 DEF Owned, In, Keeps, Alone, Owning
<1>4. ASSUME i \notin tainted', req[r].op = "lan", req[r].seen = "running"
      PROVE  svc[i] = "active"
  <2>1. i \notin tainted
    BY <1>4 DEF OnlyOn
  <2>2. CASE In(r, {"committed"})
    BY <1>2, <1>4, <2>1, <2>2 DEF RequestTruth, In
  <2>3. CASE In(r, {"locked"})
    BY <1>2, <1>4, <2>1, <2>3 DEF Stale, Truthful
  <2>4. QED
    BY <2>2, <2>3 DEF In
<1>5. RequestTruth(r)'
  BY <1>3, <1>4 DEF RequestTruth, Hiding, Synced, In, Keeps
<1>6. i \in tainted' \/ Truthful(i)'
  BY <1>2 DEF Truthful, OnlyOn
<1>7. QED
  BY <1>1, <1>5, <1>6, OwnerStep DEF Keeps, In, Owning

LEMMA CommitFailsTruth ==
  ASSUME IndInv, TruthInv, NEW r \in Token, NEW i, i = req[r].inst, CommitFails(r)
  PROVE  TruthInv'
<1>1. In(r, Owning) /\ In(r, {"locked", "committed"})
  BY DEF CommitFails, In, Owning
<1>2. TypeOK /\ i \in Entity
  BY <1>1, OwnerFacts
<1>3. rec' = rec /\ svc' = svc /\ status' = status /\ OnlyOn(i)
  BY DEF CommitFails, hostVars, OnlyOn, TaintIf
<1>4. i \notin tainted' => ~Stale(r)
  BY DEF CommitFails, TaintIf
<1>5. CASE Goto(r, "undo")
  BY <1>1, <1>2, <1>3, <1>4, <1>5, GotoKeeps, UndoTruth
<1>6. CASE Goto(r, "drop") \/ End(r, "done")
  <2>1. Alone(r) /\ req'[r].phase \in {"drop", "done"}
    BY <1>2, <1>6, GotoKeeps, EndKeeps DEF Keeps
  <2>2. QED
    BY <1>1, <1>3, <2>1, RetireStep DEF Telling, Owning, In
<1>7. QED
  BY <1>5, <1>6 DEF CommitFails

LEMMA EnqueueFailsTruth ==
  ASSUME IndInv, TruthInv, NEW r \in Token, NEW i, i = req[r].inst, EnqueueFails(r)
  PROVE  TruthInv'
<1>1. In(r, Owning) /\ In(r, {"committed"}) /\ In(r, {"locked", "committed"}) /\ ~In(r, {"locked"})
  BY DEF EnqueueFails, In, Owning
<1>2. TypeOK /\ i \in Entity
  BY <1>1, OwnerFacts
<1>3. rec' = rec /\ svc' = svc /\ tainted' = tainted
  BY DEF EnqueueFails, hostVars
<1>4. CASE SetStatus(i, "error") /\ Goto(r, "unlock")
  <2>1. Keeps(r, "unlock") /\ OnlyOn(i) /\ (status'[i] = status[i] \/ status'[i] \notin Shown)
    BY <1>2, <1>3, <1>4, GotoKeeps, SetOn DEF OnlyOn, Shown
  <2>2. QED
    BY <1>1, <1>3, <2>1, RetireStep DEF Keeps, Telling
<1>5. CASE status' = status /\ (Goto(r, "undo") \/ End(r, "done"))
  <2>1. OnlyOn(i)
    BY <1>3, <1>5 DEF OnlyOn
  <2>2. CASE Goto(r, "undo")
    BY <1>1, <1>2, <1>3, <1>5, <2>1, <2>2, GotoKeeps, UndoTruth
  <2>3. CASE End(r, "done")
    <3>1. Alone(r) /\ req'[r].phase = "done"
      BY <1>2, <2>3, EndKeeps
    <3>2. QED
      BY <1>1, <1>3, <1>5, <2>1, <3>1, RetireStep DEF Telling, Owning, In
  <2>4. QED
    BY <1>5, <2>2, <2>3
<1>6. QED
  BY <1>4, <1>5 DEF EnqueueFails

\* A job on its way to the playbook remembers what the route saw.
LEMMA CarryStep ==
  ASSUME IndInv, TruthInv, NEW r \in Token, NEW i, i = req[r].inst,
         In(r, {"committed", "queued"}), Alone(r),
         req'[r].phase \in {"queued", "started"}, req'[r].inst = i,
         req'[r].op = req[r].op, req'[r].restart = req[r].restart,
         req[r].op = "config" => req'[r].seen = req[r].seen,
         rec' = rec, svc' = svc, status' = status, tainted' = tainted
  PROVE  TruthInv'
<1>1. In(r, Owning) /\ OnlyOn(i)
  BY DEF In, Owning, OnlyOn
<1>2. i \in Entity /\ (i \notin tainted => RequestTruth(r) /\ Truthful(i))
  BY <1>1, OwnerFacts
<1>3. Hiding(r) /\ In(r, Synced) /\ ~In(r, {"undo"})
  BY DEF In, Hiding, Synced
<1>4. i \notin tainted => /\ status[i] \notin Shown
                          /\ SyncOnly(r) /\ req[r].seen = "stopped" => svc[i] = "inactive"
  BY <1>2, <1>3 DEF RequestTruth
<1>5. RequestTruth(r)'
  BY <1>4 DEF RequestTruth, Hiding, In, SyncOnly
<1>6. i \in tainted' \/ Truthful(i)'
  BY <1>2 DEF Truthful
<1>7. QED
  BY <1>1, <1>5, <1>6, OwnerStep

LEMMA EnqueueTruth ==
  ASSUME IndInv, TruthInv, NEW r \in Token, NEW i, i = req[r].inst, Enqueue(r) \/ Pop(r)
  PROVE  TruthInv'
<1>1. In(r, {"committed", "queued"}) /\ In(r, Owning)
  BY DEF Enqueue, Pop, In, Owning
<1>2. TypeOK /\ i \in Entity
  BY <1>1, OwnerFacts
<1>3. rec' = rec /\ svc' = svc /\ status' = status /\ tainted' = tainted
  BY DEF Enqueue, Pop, hostVars
<1>4. CASE Enqueue(r)
  <2>1. /\ Alone(r) /\ req'[r].phase = "queued" /\ req'[r].inst = i
        /\ req'[r].op = req[r].op /\ req'[r].restart = req[r].restart
        /\ req[r].op = "config" => req'[r].seen = req[r].seen
    BY <1>2, <1>4 DEF Enqueue, TypeOK, Request, Alone
  <2>2. QED
    BY <1>1, <1>3, <2>1, CarryStep
<1>5. CASE Pop(r)
  <2>1. Keeps(r, "started")
    BY <1>2, <1>5, GotoKeeps DEF Pop
  <2>2. QED
    BY <1>1, <1>3, <2>1, CarryStep DEF Keeps
<1>6. QED
  BY <1>4, <1>5

LEMMA BeginTruth ==
  ASSUME IndInv, TruthInv, NEW r \in Token, NEW i, i = req[r].inst, Begin(r)
  PROVE  TruthInv'
<1>1. In(r, Owning) /\ In(r, {"started"}) /\ In(r, Synced)
  BY DEF Begin, In, Owning, Synced
<1>2. TypeOK /\ i \in Entity /\ (i \notin tainted => RequestTruth(r) /\ Truthful(i))
  BY <1>1, OwnerFacts
<1>3. rec' = rec /\ svc' = svc /\ tainted' = tainted
  BY DEF Begin, hostVars
<1>4. CASE status[i] = "absent" /\ Goto(r, "finishing") /\ status' = status
  <2>1. Keeps(r, "finishing") /\ OnlyOn(i)
    BY <1>2, <1>3, <1>4, GotoKeeps DEF OnlyOn
  <2>2. QED
    BY <1>1, <1>3, <1>4, <2>1, RetireStep DEF Keeps, Telling
<1>5. CASE /\ status[i] # "absent"
           /\ IF req[r].op = "delete" THEN UNCHANGED status ELSE SetStatus(i, Busy(req[r].op))
           /\ req' = [req EXCEPT ![r].phase = "ansible",
                                 ![r].op = IF req[r].op = "lan" /\ LanHook THEN "hooks" ELSE @]
  <2>1. /\ Alone(r) /\ req'[r].phase = "ansible" /\ req'[r].inst = i
        /\ req'[r].op = "config" => req[r].op = "config"
        /\ req'[r].restart = req[r].restart /\ req'[r].seen = req[r].seen
    BY <1>2, <1>5 DEF TypeOK, Request, Alone
  <2>2. i \notin tainted => status'[i] \notin Shown
    <3>1. CASE req[r].op = "delete"
      BY <1>1, <1>2, <1>5, <3>1 DEF RequestTruth, Hiding
    <3>2. CASE req[r].op # "delete"
      BY <1>2, <1>5, <3>2, SetOn, BusyHides
    <3>3. QED
      BY <3>1, <3>2
  <2>3. OnlyOn(i)
    BY <1>2, <1>3, <1>5, SetOn DEF OnlyOn
  <2>4. i \notin tainted => (SyncOnly(r) /\ req[r].seen = "stopped" => svc[i] = "inactive")
    BY <1>1, <1>2 DEF RequestTruth
  <2>5. RequestTruth(r)'
    BY <1>3, <2>1, <2>2, <2>4 DEF RequestTruth, Hiding, In, SyncOnly
  <2>6. i \in tainted' \/ Truthful(i)'
    BY <1>3, <2>2 DEF Truthful, Shown
  <2>7. QED
    BY <1>1, <1>3, <2>1, <2>3, <2>5, <2>6, OwnerStep
<1>6. QED
  BY <1>4, <1>5 DEF Begin

\* The service changes while the status says that something is going on.
LEMMA PlayStep ==
  ASSUME IndInv, TruthInv, NEW r \in Token, NEW i, i = req[r].inst, In(r, {"ansible"}),
         rec' = rec, status' = status, tainted' = tainted, Alone(r), RequestTruth(r)',
         In(r, Owning)' => req'[r].inst = i,
         NEW s, svc' = [svc EXCEPT ![i] = s]
  PROVE  TruthInv'
<1>1. In(r, Owning) /\ Hiding(r)
  BY DEF In, Owning, Hiding
<1>2. TypeOK /\ i \in Entity /\ (i \notin tainted => RequestTruth(r))
  BY <1>1, OwnerFacts
<1>3. OnlyOn(i)
  BY DEF OnlyOn
<1>4. i \in tainted' \/ Truthful(i)'
  BY <1>1, <1>2 DEF RequestTruth, Truthful, Shown
<1>5. QED
  BY <1>1, <1>3, <1>4, OwnerStep

LEMMA PlaybookTruth ==
  ASSUME IndInv, TruthInv, NEW r \in Token, NEW i, i = req[r].inst, Playbook(r)
  PROVE  TruthInv'
<1>1. In(r, Owning) /\ In(r, {"ansible"}) /\ In(r, Synced)
  BY DEF Playbook, In, Owning, Synced
<1>2. TypeOK /\ i \in Entity /\ (i \notin tainted => RequestTruth(r))
  BY <1>1, OwnerFacts
<1>3. rec' = rec /\ status' = status /\ tainted' = tainted
  BY DEF Playbook
<1>4. ASSUME NEW s, NEW p \in {"bad", "cut"}, svc' = [svc EXCEPT ![i] = s], Goto(r, p)
      PROVE  TruthInv'
  <2>1. Keeps(r, p)
    BY <1>2, <1>4, GotoKeeps
  <2>2. RequestTruth(r)'
    BY <2>1, PlainTruth DEF Keeps, Telling
  <2>3. QED
    BY <1>1, <1>3, <1>4, <2>1, <2>2, PlayStep DEF Keeps
<1>5. ASSUME NEW s, s = Effect(req[r].op, req[r].restart, svc[i]),
             svc' = [svc EXCEPT ![i] = s], Goto(r, "ok")
      PROVE  TruthInv'
  <2>1. Keeps(r, "ok") /\ svc'[i] = s
    BY <1>2, <1>5, GotoKeeps DEF TypeOK
  <2>2. SyncOnly(r) => s = svc[i]
    BY <1>5 DEF Effect, SyncOnly
  <2>3. ~SyncOnly(r) => s = IF req[r].op \in {"stop", "delete"} THEN "inactive" ELSE "active"
    BY <1>5 DEF Effect, SyncOnly
  <2>4. i \notin tainted => (SyncOnly(r) /\ req[r].seen = "stopped" => svc[i] = "inactive")
    BY <1>1, <1>2 DEF RequestTruth
  <2>5. RequestTruth(r)'
    BY <1>3, <2>1, <2>2, <2>3, <2>4 DEF RequestTruth, Keeps, Hiding, In, SyncOnly
  <2>6. QED
    BY <1>1, <1>3, <1>5, <2>1, <2>5, PlayStep DEF Keeps
<1>6. QED
  BY <1>4, <1>5 DEF Playbook

LEMMA RecordOkTruth ==
  ASSUME IndInv, TruthInv, NEW r \in Token, NEW i, i = req[r].inst, RecordOk(r)
  PROVE  TruthInv'
<1>1. In(r, Owning) /\ In(r, {"ok"}) /\ In(r, Synced)
  BY DEF RecordOk, In, Owning, Synced
<1>2. TypeOK /\ i \in Entity /\ (i \notin tainted => RequestTruth(r) /\ Truthful(i))
  BY <1>1, OwnerFacts
<1>3. rec' = rec /\ svc' = svc /\ tainted' = tainted
  BY DEF RecordOk, hostVars
<1> DEFINE o == Outcome(req[r].op, req[r].restart, req[r].seen)
<1>4. SetStatus(i, o) /\ req[r].op # "delete"
  BY DEF RecordOk
<1>5. i \notin tainted => /\ o = "running" => svc[i] = "active"
                          /\ o = "stopped" => svc[i] = "inactive"
  <2>1. CASE SyncOnly(r)
    BY <1>1, <1>2, <2>1 DEF Outcome, SyncOnly, RequestTruth
  <2>2. CASE ~SyncOnly(r)
    BY <1>1, <1>2, <1>4, <2>2 DEF Outcome, SyncOnly, RequestTruth
  <2>3. QED
    BY <2>1, <2>2
<1> HIDE DEF o
<1>6. OnlyOn(i) /\ (i \in tainted' \/ Truthful(i)')
  BY <1>2, <1>3, <1>4, <1>5, SetOn DEF OnlyOn, Truthful
<1>7. /\ Alone(r) /\ req'[r].inst = i
      /\ \/ req'[r].phase = "finishing"
         \/ req'[r].phase = "started" /\ req'[r].op = "hooks"
  <2>1. CASE Goto(r, "finishing")
    BY <1>2, <2>1, GotoKeeps DEF Keeps
  <2>2. CASE req' = [req EXCEPT ![r].phase = "started", ![r].op = "hooks"]
    BY <1>2, <2>2 DEF TypeOK, Request, Alone
  <2>3. QED
    BY <2>1, <2>2 DEF RecordOk
<1>8. RequestTruth(r)'
  BY <1>7, PlainTruth DEF RequestTruth, Hiding, In, SyncOnly, Telling
<1>9. QED
  BY <1>1, <1>3, <1>6, <1>7, <1>8, OwnerStep

LEMMA RetireTruth ==
  ASSUME IndInv, TruthInv, NEW r \in Token, NEW i, i = req[r].inst,
         \/ Unlock(r) \/ RecordFailed(r) \/ RecordCut(r) \/ RecordDeleted(r) \/ Raise(r)
         \/ Finish(r) \/ JobFails(r)
  PROVE  TruthInv'
<1>1. In(r, Owning)
  BY DEF Unlock, RecordFailed, RecordCut, RecordDeleted, Raise, Finish, JobFails, In, Owning
<1>2. TypeOK /\ i \in Entity
  BY <1>1, OwnerFacts
<1>3. rec' = rec /\ svc' = svc /\ tainted' = tainted
  BY DEF Unlock, RecordFailed, RecordCut, RecordDeleted, Raise, Finish, JobFails, hostVars
<1>4. \/ status' = status
      \/ SetStatus(i, "error")
      \/ status' = [status EXCEPT ![i] = "absent"]
  BY DEF Unlock, RecordFailed, RecordCut, RecordDeleted, Raise, Finish, JobFails
<1>5. OnlyOn(i) /\ (status'[i] = status[i] \/ status'[i] \notin Shown)
  BY <1>2, <1>3, <1>4, SetOn DEF OnlyOn, Shown, TypeOK
<1>6. Goto(r, "finishing") \/ Goto(r, "failed") \/ End(r, "done")
  BY DEF Unlock, RecordFailed, RecordCut, RecordDeleted, Raise, Finish, JobFails
<1>7. CASE End(r, "done")
  <2>1. Alone(r) /\ req'[r].phase = "done"
    BY <1>2, <1>7, EndKeeps
  <2>2. QED
    BY <1>1, <1>3, <1>5, <2>1, RetireStep DEF Telling, Owning, In
<1>8. CASE Goto(r, "finishing") \/ Goto(r, "failed")
  <2>1. Keeps(r, "finishing") \/ Keeps(r, "failed")
    BY <1>2, <1>8, GotoKeeps
  <2>2. QED
    BY <1>1, <1>3, <1>5, <2>1, RetireStep DEF Telling, Keeps
<1>9. QED
  BY <1>6, <1>7, <1>8

\* Who owns nothing afterwards adds no owner.
LEMMA NoNewOwner ==
  ASSUME NEW r \in Token, Alone(r), ~In(r, Owning)'
  PROVE  \A f \in Entity : Owned(f)' => Owned(f)
BY DEF Owned, Alone, In

\* r moves, and neither relies on a lock nor says anything afterwards.
LEMMA AsideStep ==
  ASSUME TruthInv, NEW r \in Token, Alone(r), req'[r].phase \notin Owning \cup Telling,
         NEW i, rec' = rec, svc' = svc, OnlyOn(i),
         \/ status'[i] = status[i]
         \/ status'[i] \notin Shown
         \/ i \in tainted'
         \/ ~Owned(i) /\ Truthful(i)'
  PROVE  TruthInv'
<1>1. ~In(r, Owning)'
  BY DEF In
<1>2. \A f \in Entity : Owned(f)' => Owned(f)
  BY <1>1, NoNewOwner
<1>3. \A s \in Token : req'[s] = req[s] \/ req'[s].phase \notin Telling
  BY DEF Alone
<1>4. QED
  BY <1>2, <1>3, BystanderStep

LEMMA CrashTruth ==
  ASSUME IndInv, TruthInv, NEW r \in Token, NEW i, i = req[r].inst, WorkerCrash(r)
  PROVE  TruthInv'
<1>1. TypeOK /\ i \in Entity
  BY DEF WorkerCrash, In, InWorker, IndInv, OwnerInv, Free
<1>2. Alone(r) /\ req'[r].phase = "dead"
  BY <1>1 DEF WorkerCrash, TypeOK, NoRequest, Alone
<1>3. rec' = rec /\ status' = status /\ tainted' = tainted
  BY DEF WorkerCrash
<1>4. req'[r].phase \notin Owning \cup Telling /\ ~In(r, Owning)'
  BY <1>2 DEF Owning, Telling, In
<1>5. CASE In(r, {"ansible"})
  <2>1. \E s : svc' = [svc EXCEPT ![i] = s]
    BY DEF WorkerCrash
  <2>2. RequestTruth(r)'
    BY <1>4, PlainTruth
  <2>3. QED
    BY <1>2, <1>3, <1>4, <1>5, <2>1, <2>2, PlayStep
<1>6. CASE ~In(r, {"ansible"})
  <2>1. svc' = svc
    BY <1>1, <1>6 DEF WorkerCrash, TypeOK
  <2>2. OnlyOn(i)
    BY <1>3, <2>1 DEF OnlyOn
  <2>3. QED
    BY <1>2, <1>3, <1>4, <2>1, <2>2, AsideStep
<1>7. QED
  BY <1>5, <1>6

LEMMA AsideTruth ==
  ASSUME IndInv, TruthInv, NEW r \in Token,
         \/ Refused(r) \/ PrepareFails(r) \/ WebCrash(r) \/ HandlerReads(r)
         \/ BackupBegins(r) \/ BackupRefused(r) \/ BackupEnds(r) \/ Recycle(r)
  PROVE  TruthInv'
<1>1. TypeOK
  BY DEF IndInv
<1>2. rec' = rec /\ svc' = svc /\ status' = status /\ tainted' = tainted
  BY DEF Refused, PrepareFails, WebCrash, HandlerReads, BackupBegins, BackupRefused, BackupEnds,
     Recycle, hostVars
<1>3. Alone(r) /\ req'[r].phase \in {"new", "done", "drop", "gone", "handling", "backup"}
  <2>1. CASE \E p \in {"done", "gone"} : End(r, p)
    BY <1>1, <2>1, EndKeeps
  <2>2. CASE \E p \in {"drop", "backup"} : Goto(r, p)
    BY <1>1, <2>2, GotoKeeps DEF Keeps
  <2>3. CASE req' = [req EXCEPT ![r] = NoRequest]
    BY <1>1, <2>3 DEF TypeOK, NoRequest, Alone
  <2>4. CASE \E h : req' = [req EXCEPT ![r].phase = "handling", ![r].seen = h]
    BY <1>1, <2>4 DEF TypeOK, Request, Alone
  <2>5. QED
    BY <2>1, <2>2, <2>3, <2>4
       DEF Refused, PrepareFails, WebCrash, HandlerReads, BackupBegins, BackupRefused, BackupEnds,
           Recycle
<1>4. req'[r].phase \notin Owning \cup Telling
  BY <1>3 DEF Owning, Telling
<1>5. OnlyOn(None)
  BY <1>2 DEF OnlyOn
<1>6. QED
  BY <1>2, <1>3, <1>4, <1>5, AsideStep

LEMMA CheckTruth ==
  ASSUME IndInv, TruthInv, NEW r \in Token, NEW o, NEW i \in Entity, NEW restart,
         Check(r, o, i, restart)
  PROVE  TruthInv'
<1>1. TypeOK
  BY DEF IndInv
<1>2. rec' = rec /\ svc' = svc /\ tainted' = tainted
  BY DEF Check, hostVars
<1>3. Alone(r) /\ req'[r].phase = "checked"
  BY <1>1 DEF Check, TypeOK, Alone
<1>4. req'[r].phase \notin Owning \cup Telling
  BY <1>3 DEF Owning, Telling
<1>5. OnlyOn(i) /\ (status'[i] = status[i] \/ status'[i] \notin Shown)
  BY <1>1, <1>2 DEF Check, OnlyOn, Shown, TypeOK
<1>6. QED
  BY <1>2, <1>3, <1>4, <1>5, AsideStep

\* The handler shows ERROR, the route drops what it deployed.
LEMMA HandlerTruth ==
  ASSUME IndInv, TruthInv, NEW r \in Token, NEW i, i = req[r].inst, HandlerWrites(r) \/ Drop(r)
  PROVE  TruthInv'
<1>1. TypeOK /\ i \in Entity
  BY DEF HandlerWrites, Drop, In, IndInv, OwnerInv, Free
<1>2. rec' = rec /\ svc' = svc /\ tainted' = tainted
  BY DEF HandlerWrites, Drop, hostVars
<1>3. Alone(r) /\ req'[r].phase = "done"
  BY <1>1, EndKeeps DEF HandlerWrites, Drop
<1>4. req'[r].phase \notin Owning \cup Telling
  BY <1>3 DEF Owning, Telling
<1>5. status' = status \/ SetStatus(i, "error") \/ status' = [status EXCEPT ![i] = "absent"]
  BY DEF HandlerWrites, Drop
<1>6. OnlyOn(i) /\ (status'[i] = status[i] \/ status'[i] \notin Shown)
  BY <1>1, <1>2, <1>5, SetOn DEF OnlyOn, Shown, TypeOK
<1>7. QED
  BY <1>2, <1>3, <1>4, <1>6, AsideStep

\* The lan-rate compensation is right where it is not tainted: the instance was
\* RUNNING, it was not touched, and nobody else has got it since.
LEMMA UndoneTruth ==
  ASSUME IndInv, TruthInv, NEW r \in Token, NEW i, i = req[r].inst, Undo(r)
  PROVE  TruthInv'
<1>1. TypeOK /\ i \in Entity /\ In(r, {"undo"}) /\ In(r, {"committed", "undo"})
  BY DEF Undo, In, IndInv, OwnerInv, Free
<1>2. rec' = rec /\ svc' = svc
  BY DEF Undo, hostVars
<1>3. CASE req[r].op = "deploy" /\ SetStatus(i, "idle") /\ Goto(r, "drop") /\ tainted' = tainted
  <2>1. Alone(r) /\ req'[r].phase = "drop"
    BY <1>1, <1>3, GotoKeeps DEF Keeps
  <2>2. req'[r].phase \notin Owning \cup Telling
    BY <2>1 DEF Owning, Telling
  <2>3. OnlyOn(i) /\ (status'[i] = status[i] \/ status'[i] \notin Shown)
    BY <1>1, <1>2, <1>3, SetOn DEF OnlyOn, Shown
  <2>4. QED
    BY <1>2, <2>1, <2>2, <2>3, AsideStep
<1>4. CASE /\ req[r].op = "lan" /\ SetStatus(i, "running") /\ End(r, "done")
           /\ TaintIf(req[r].seen # "running", i)
  <2>1. Alone(r) /\ req'[r].phase = "done"
    BY <1>1, <1>4, EndKeeps
  <2>2. req'[r].phase \notin Owning \cup Telling
    BY <2>1 DEF Owning, Telling
  <2>3. OnlyOn(i)
    BY <1>1, <1>2, <1>4, SetOn DEF OnlyOn, TaintIf
  <2>4. i \in tainted' \/ (~Owned(i) /\ svc[i] = "active")
    BY <1>1, <1>4 DEF TaintIf, TruthInv, RequestTruth
  <2>5. status'[i] = "absent" \/ status'[i] = "running"
    BY <1>1, <1>4, SetOn
  <2>6. i \in tainted' \/ (~Owned(i) /\ Truthful(i)')
    BY <1>2, <2>4, <2>5 DEF Truthful
  <2>7. QED
    BY <1>2, <2>1, <2>2, <2>3, <2>6, AsideStep
<1>5. QED
  BY <1>3, <1>4 DEF Undo

\* A request that gets the lock while somebody is about to write back taints.
LEMMA AcquireTruth ==
  ASSUME IndInv, TruthInv, NEW r \in Token, NEW i, i = req[r].inst, Acquire(r)
  PROVE  TruthInv'
<1>1. TypeOK /\ i \in Entity
  BY DEF Acquire, In, IndInv, OwnerInv, Free
<1>2. Keeps(r, "locked") /\ rec' = rec /\ svc' = svc /\ status' = status
  BY <1>1, GotoKeeps DEF Acquire, hostVars
<1>3. OnlyOn(i)
  BY <1>2 DEF Acquire, OnlyOn, TaintIf
<1>4. i \notin tainted' => /\ \A a \in Agent : rec[a].inst # i
                           /\ \A s \in Token : In(s, {"undo"}) => req[s].inst # i
  BY DEF Acquire, TaintIf, WriteBackPending
<1>5. \A f \in Entity \ {i} : Owned(f)' => Owned(f)
  BY <1>2 DEF Owned, In, Keeps, Alone
<1>6. \A f \in Entity \ tainted' : Truthful(f)'
  BY <1>2, <1>3 DEF TruthInv, Truthful, OnlyOn
<1>7. ASSUME NEW s \in Token
      PROVE  RequestTruth(s)'
  <2>1. CASE s = r
    BY <1>2, <2>1, PlainTruth DEF Keeps, Telling
  <2>2. CASE s # r /\ req[s].inst # i /\ req[s].inst \in Entity
    <3>1. req'[s] = req[s] /\ (Owned(req[s].inst)' => Owned(req[s].inst))
      <4>1. req'[s] = req[s]
        BY <1>2, <2>2 DEF Keeps, Alone
      <4>2. PICK f \in Entity \ {i} : f = req[s].inst
        BY <2>2
      <4>3. QED
        BY <1>5, <4>1, <4>2
    <3>2. QED
      BY <1>1, <1>3, <2>2, <3>1, OthersTruth
  <2>3. CASE s # r /\ req[s].inst \notin Entity
    BY <1>2, <2>3 DEF Keeps, Alone, RequestTruth
  <2>4. CASE s # r /\ req[s].inst = i
    <3>1. req'[s] = req[s] /\ RequestTruth(s)
      BY <1>2, <2>4 DEF Keeps, Alone, TruthInv
    <3>2. i \in tainted' \/ (i \notin tainted /\ ~In(s, {"undo"}))
      BY <1>3, <1>4, <2>4 DEF OnlyOn
    <3>3. QED
      BY <1>2, <2>4, <3>1, <3>2 DEF RequestTruth, Hiding, In, SyncOnly
  <2>5. QED
    BY <2>1, <2>2, <2>3, <2>4
<1>8. ASSUME NEW a \in Agent, rec[a] # NoRecovery, rec[a].inst \in Entity \ tainted'
      PROVE  RecoveryTruth(a)'
  <2>1. rec[a].inst \in Entity \ {i} /\ rec[a].inst \notin tainted /\ RecoveryTruth(a)
    BY <1>3, <1>4, <1>8 DEF OnlyOn, TruthInv
  <2>2. QED
    BY <1>2, <1>5, <1>8, <2>1 DEF RecoveryTruth
<1>9. \A a \in Agent : RecoveryTruth(a)'
  BY <1>2, <1>8 DEF RecoveryTruth
<1>10. QED
  BY <1>6, <1>7, <1>9 DEF TruthInv

LEMMA AbandonedKeepsOwners ==
  ASSUME TypeOK, NEW r \in Token, req' = req \/ Goto(r, "abandoned") \/ End(r, "done")
  PROVE  /\ \A s \in Token : req'[s] = req[s] \/ req'[s].phase \notin Telling
         /\ \A f \in Entity : Owned(f)' => Owned(f)
<1>1. CASE req' = req
  BY <1>1 DEF Owned, In
<1>2. CASE Goto(r, "abandoned") \/ End(r, "done")
  <2>1. Alone(r) /\ req'[r].phase \in {"abandoned", "done"}
    BY <1>2, GotoKeeps, EndKeeps DEF Keeps
  <2>2. ~In(r, Owning)' /\ req'[r].phase \notin Telling
    BY <2>1 DEF In, Owning, Telling
  <2>3. QED
    BY <2>1, <2>2, NoNewOwner DEF Alone
<1>3. QED
  BY <1>1, <1>2

\* Who is to be recovered has no lock, and nobody else has: nobody owns i.
LEMMA ReadsTruth ==
  ASSUME IndInv, TruthInv, NEW a \in Agent, NEW r \in Token, NEW i, i = req[r].inst,
         RecoverReads(a, r)
  PROVE  TruthInv'
<1>1. TypeOK /\ i \in Entity /\ ~In(r, Owning)
  BY DEF RecoverReads, In, IndInv, OwnerInv, Free, Owning
<1>2. svc' = svc /\ status' = status /\ tainted' = tainted
  BY DEF RecoverReads
<1>3. req' = req \/ Goto(r, "abandoned") \/ End(r, "done")
  BY DEF RecoverReads
<1>4. /\ \A s \in Token : req'[s] = req[s] \/ req'[s].phase \notin Telling
      /\ \A f \in Entity : Owned(f)' => Owned(f)
  BY <1>1, <1>3, AbandonedKeepsOwners
<1>5. CASE rec' = rec
  <2>1. OnlyOn(i)
    BY <1>2 DEF OnlyOn
  <2>2. QED
    BY <1>2, <1>4, <1>5, <2>1, BystanderStep
<1>6. CASE /\ NeedsRecovery(i, r)
           /\ rec' = [rec EXCEPT ![a] =
                 [req |-> r, inst |-> i,
                  to |-> IF status[i] \in ProbeStatuses THEN "unprobed" ELSE "error"]]
  <2>1. ~Owned(i)
    <3>1. lock[i] \in {None, r}
      BY <1>6 DEF NeedsRecovery, Superseded
    <3>2. ASSUME NEW s \in Token, In(s, Owning), req[s].inst = i
          PROVE  FALSE
      <4>1. lock[i] = s
        BY <3>2 DEF IndInv, OwnerInv
      <4>2. QED
        BY <1>1, <3>1, <3>2, <4>1, NoneAssumption
    <3>3. QED
      BY <3>2 DEF Owned
  <2>2. /\ rec'[a].inst = i /\ rec'[a].to \in {"unprobed", "error"}
        /\ \A b \in Agent \ {a} : rec'[b] = rec[b]
    BY <1>1, <1>6 DEF TypeOK
  <2>3. RecoveryTruth(a)'
    BY <1>1, <1>4, <2>1, <2>2 DEF RecoveryTruth
  <2>4. \A b \in Agent : rec'[b] = rec[b] \/ RecoveryTruth(b)'
    BY <2>2, <2>3
  <2>5. OnlyOn(i)
    BY <1>2 DEF OnlyOn
  <2>6. QED
    BY <1>2, <1>4, <2>4, <2>5, BystanderStep
<1>7. QED
  BY <1>5, <1>6 DEF RecoverReads

LEMMA ProbesTruth ==
  ASSUME IndInv, TruthInv, NEW a \in Agent, NEW i, i = rec[a].inst, RecoverProbes(a)
  PROVE  TruthInv'
<1>1. TypeOK /\ RecoveryTruth(a) /\ rec[a] # NoRecovery
  BY DEF IndInv, TruthInv, RecoverProbes, NoRecovery
<1>2. svc' = svc /\ status' = status /\ tainted' = tainted /\ req' = req
  BY DEF RecoverProbes
<1>3. PICK found \in {"error", IF svc[i] = "active" THEN "running" ELSE "stopped"} :
        rec' = [rec EXCEPT ![a].to = found]
  BY DEF RecoverProbes
<1>4. /\ rec'[a].inst = i /\ rec'[a].to = found
      /\ \A b \in Agent \ {a} : rec'[b] = rec[b]
  BY <1>1, <1>3 DEF TypeOK, Recovery
<1>5. \A f : Owned(f)' <=> Owned(f)
  BY <1>2 DEF Owned, In
<1>6. i \in Entity => svc[i] \in {"active", "inactive"}
  BY <1>1 DEF TypeOK
<1>7. i \in Entity => /\ found = "running" => svc[i] = "active"
                      /\ found = "stopped" => svc[i] = "inactive"
  BY <1>3, <1>6
<1>8. RecoveryTruth(a)'
  <2>1. i \in Entity \ tainted => ~Owned(i)
    BY <1>1 DEF RecoveryTruth
  <2>2. ~Owned(i) => ~Owned(i)'
    BY <1>2 DEF Owned, In
  <2>3. QED
    BY <1>2, <1>4, <1>7, <2>1, <2>2 DEF RecoveryTruth
<1>9. \A b \in Agent : rec'[b] = rec[b] \/ RecoveryTruth(b)'
  BY <1>4, <1>8
<1>10. OnlyOn(None)
  BY <1>2 DEF OnlyOn
<1>11. QED
  BY <1>2, <1>5, <1>9, <1>10, BystanderStep

LEMMA WritesTruth ==
  ASSUME IndInv, TruthInv, NEW a \in Agent, NEW i, i = rec[a].inst, RecoverWrites(a)
  PROVE  TruthInv'
<1>1. TypeOK /\ RecoveryTruth(a) /\ rec[a] # NoRecovery
  BY DEF IndInv, TruthInv, RecoverWrites, NoRecovery, Settled
<1>2. i \in Entity /\ rec[a].req \in Token
  BY <1>1 DEF IndInv, OwnerInv
<1>3. svc' = svc /\ tainted' = tainted /\ SetStatus(i, rec[a].to)
  BY DEF RecoverWrites
<1>4. req' = req \/ End(rec[a].req, "done")
  BY DEF RecoverWrites
<1>5. /\ \A s \in Token : req'[s] = req[s] \/ req'[s].phase \notin Telling
      /\ \A f \in Entity : Owned(f)' => Owned(f)
  BY <1>1, <1>2, <1>4, AbandonedKeepsOwners
<1>6. /\ OnlyOn(i)
      /\ status'[i] = rec[a].to \/ status'[i] = "absent"
  BY <1>1, <1>2, <1>3, SetOn DEF OnlyOn
<1>7. i \in tainted' \/ (~Owned(i) /\ Truthful(i)')
  BY <1>1, <1>2, <1>3, <1>6 DEF RecoveryTruth, Truthful
<1>8. rec' = [rec EXCEPT ![a] = NoRecovery]
  BY DEF RecoverWrites
<1>9. \A b \in Agent : rec'[b] = rec[b] \/ RecoveryTruth(b)'
  BY <1>1, <1>8 DEF TypeOK, RecoveryTruth
<1>10. QED
  BY <1>3, <1>5, <1>6, <1>7, <1>9, BystanderStep

\* The poller promotes what runs; no key is a status.
LEMMA PromoteTruth ==
  ASSUME IndInv, TruthInv,
         UNCHANGED vars \/ (\E i \in Entity : Promote(i) \/ Expire(i)) \/ ExpireMaintenance
  PROVE  TruthInv'
<1>1. req' = req /\ rec' = rec /\ svc' = svc /\ tainted' = tainted
  BY DEF vars, Promote, Expire, ExpireMaintenance, hostVars
<1>2. \A f \in Entity : Owned(f)' => Owned(f)
  BY <1>1 DEF Owned, In
<1>3. CASE status' = status
  <2>1. OnlyOn(None)
    BY <1>1, <1>3 DEF OnlyOn
  <2>2. QED
    BY <1>1, <1>2, <1>3, <2>1, BystanderStep
<1>4. ASSUME NEW i \in Entity, Promote(i)
      PROVE  TruthInv'
  <2>1. status[i] = "updated" /\ svc[i] = "active" /\ SetStatus(i, "running") /\ TypeOK
    BY <1>4 DEF Promote, IndInv
  <2>2. OnlyOn(i) /\ status'[i] = "running"
    BY <1>1, <2>1, SetOn DEF OnlyOn
  <2>3. status[i] \in Shown /\ Truthful(i)'
    BY <1>1, <2>1, <2>2 DEF Shown, Truthful
  <2>4. QED
    BY <1>1, <1>2, <2>2, <2>3, BystanderStep
<1>5. QED
  BY <1>3, <1>4 DEF vars, Expire, ExpireMaintenance

LEMMA TruthStep ==
  ASSUME IndInv, TruthInv, [Next]_vars
  PROVE  TruthInv'
<1>1. ASSUME NEW r \in Token, RouteStep(r)
      PROVE  TruthInv'
  <2>1. CASE \/ Acquire(r) \/ Commit(r) \/ CommitFails(r) \/ Enqueue(r) \/ EnqueueFails(r)
             \/ Unlock(r) \/ Undo(r) \/ Drop(r)
    BY <2>1, AcquireTruth, CommitTruth, CommitFailsTruth, EnqueueTruth, EnqueueFailsTruth,
       RetireTruth, UndoneTruth, HandlerTruth
  <2>2. CASE Refused(r) \/ PrepareFails(r) \/ WebCrash(r)
    BY <2>2, AsideTruth
  <2>3. CASE \E o \in Ops, i \in Entity, restart \in BOOLEAN : Check(r, o, i, restart)
    BY <2>3, CheckTruth
  <2>4. QED
    BY <1>1, <2>1, <2>2, <2>3 DEF RouteStep
<1>2. ASSUME NEW r \in Token, JobStep(r)
      PROVE  TruthInv'
  <2>1. CASE Pop(r) \/ Begin(r) \/ Playbook(r) \/ RecordOk(r) \/ WorkerCrash(r) \/ HandlerWrites(r)
    BY <2>1, EnqueueTruth, BeginTruth, PlaybookTruth, RecordOkTruth, CrashTruth, HandlerTruth
  <2>2. CASE \/ RecordFailed(r) \/ RecordCut(r) \/ RecordDeleted(r) \/ Raise(r) \/ Finish(r)
             \/ JobFails(r)
    BY <2>2, RetireTruth
  <2>3. CASE HandlerReads(r)
    BY <2>3, AsideTruth
  <2>4. QED
    BY <1>2, <2>1, <2>2, <2>3 DEF JobStep
<1>3. ASSUME NEW a \in Agent, RecoveryStep(a)
      PROVE  TruthInv'
  BY <1>3, ReadsTruth, ProbesTruth, WritesTruth DEF RecoveryStep
<1>4. ASSUME OtherStep
      PROVE  TruthInv'
  BY <1>4, AsideTruth, PromoteTruth DEF OtherStep
<1>5. QED
  BY <1>1, <1>2, <1>3, <1>4, PromoteTruth DEF Next

LEMMA TruthAlways ==
  ASSUME "delay" \notin Faults
  PROVE  Spec => []TruthInv
<1>1. Init => TruthInv
  BY TruthInit
<1>2. IndInv /\ TruthInv /\ [Next]_vars => TruthInv'
  BY TruthStep
<1>3. Spec => []IndInv
  BY IndInvAlways
<1>4. QED
  BY <1>1, <1>2, <1>3, PTL DEF Spec

\* Unless a job outlives its lock, an instance is never shown as RUNNING while
\* its service is down, nor as STOPPED while it is up, whatever is in flight on
\* it: statuses are hidden behind a transitional one before the playbook starts
\* (ansible_instance_mgmt.py), and what handlers and recoveries write is so. The
\* instances that one of the three races has written to are the exceptions.
THEOREM StatusesAreTrue ==
  ASSUME "delay" \notin Faults
  PROVE  Spec => [](\A i \in Entity \ tainted : Truthful(i))
<1>1. TruthInv => \A i \in Entity \ tainted : Truthful(i)
  BY DEF TruthInv
<1>2. QED
  BY <1>1, TruthAlways, PTL

\* In particular when nothing is in flight: after whatever crash, timeout,
\* failure and recovery, what the user sees of an instance is what there is.
THEOREM QuietStatusesAreTrue ==
  ASSUME "delay" \notin Faults
  PROVE  Spec => []StatusTruth
<1>1. TruthInv => StatusTruth
  BY DEF TruthInv, Truthful, StatusTruth
<1>2. QED
  BY <1>1, TruthAlways, PTL

=============================================================================
