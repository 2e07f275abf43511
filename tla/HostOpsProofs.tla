---------------------------- MODULE HostOpsProofs ----------------------------
(***************************************************************************)
(* For any number of instances, requests and workers, and whatever fails   *)
(* short of a lock running out under its job: an operation on the host has *)
(* the locks it relies on, gives back all it took, works alone, and no     *)
(* machine is forgotten.                                                   *)
(***************************************************************************)
EXTENDS HostOps, RedisLockProofs

-----------------------------------------------------------------------------
(* The inductive invariant.                                                *)

\* No TTL runs out under a working operation, and none leaves the host's row alone
\* for the 20 minutes after which a deletion calls it stuck.
Punctual == "delay" \notin Faults /\ "slow" \notin Faults

LockPhases == HostOwning \cup {"finishing", "unwinding", "failed", "handling", "cleanup"}

\* The requests whose locks and statuses a new host's provisioning and setup
\* must be safe from: whoever is about to do anything to the host.
Parked == Over \cup InstancePhases
Bystander(s) ==
    /\ tail[s] # "open"
    /\ \/ In(s, Parked)
       \/ /\ In(s, {"checked"})
          /\ req[s].op \notin {"provision", "adopt"}
          /\ req[s].seen \notin StaleTransitional

\* r makes a new host, and nothing has gone wrong with its locks.
Young(r) ==
    /\ req[r].op \in {"provision", "setup"}
    /\ ~req[r].robbed
    /\ In(r, {"checked"} \cup HostOwning)

\* The handover from provision to setup is safe because nobody else gets at the
\* host meanwhile: so the provision job, late as it may look, finds the status
\* that makes it keep the lock.
NewHostAlone ==
    \A r \in Token : Young(r) =>
        \A s \in Token \ {r} :
            Bystander(s) /\ (In(r, {"checked"}) => In(s, Parked))

\* What a request has of the locks: all it relies on, and none but its own.
LocksOf(r) ==
    /\ \A e \in Holds(r) : lock[e] = r
    /\ \A e \in Entity : lock[e] = r =>
          \/ In(r, {"gone", "lost"})
          \/ In(r, LockPhases) /\ e \in {Host} \cup req[r].held
          \/ In(r, {"ilocked", "iworking", "ifinishing"}) /\ e = req[r].inst

\* Which request can be where.
PlaceOf(r) ==
    /\ In(r, {"checked"}) \/ req[r].op # "rerun" => req[r].held = {}
    /\ In(r, InstancePhases) => req[r].inst \in Instances /\ req[r].op \in InstanceOp
    /\ req[r].op = "setup" => In(r, {"queued", "running", "ok", "bad", "finishing"})
    /\ tail[r] # "none" => req[r].op = "setup" \/ In(r, Over)
    /\ In(r, {"checked"}) \/ req[r].op = "provision" => ~req[r].robbed
    /\ In(r, {"started", "handoff"}) => req[r].op = "provision"
    /\ In(r, {"drop"}) => req[r].op = "adopt"
    /\ In(r, {"marking"}) => req[r].op = "workshop"
    /\ In(r, {"listing", "taking", "backoff"}) => req[r].op = "rerun"
    /\ In(r, {"revert"}) => req[r].op \in {"rerun", "resize"}
    /\ /\ req[r].op \in {"rerun", "resize"}
       /\ In(r, {"checked", "locked", "listing", "taking", "backoff", "revert", "committed"})
       => req[r].seen \in {"active", "error"}

\* What the host is while a request is where it is.
HostOf(r) ==
    /\ Young(r) => hstat # "absent"
    /\ Young(r) /\ (tail[r] = "open" \/ In(r, {"handoff"})) => hstat = "pending_setup"

CloudOf(r) ==
    /\ req[r].op = "provision" /\ In(r, {"running"}) => ws
    /\ req[r].op = "adopt" /\ ~In(r, Parked) => ~ws
    /\ req[r].op = "delete" /\ In(r, {"ok"}) /\ "mistaken" \notin Faults => ~machine

Cloud ==
    /\ machine => ws \/ "mistaken" \in Faults
    /\ hstat = "absent" => ~ws

\* TypeOK without aged, which no step but one reads.
RestTyped ==
    /\ RedisTypeOK
    /\ hstat \in HostStatus
    /\ istat \in [Instances -> InstanceStatus]
    /\ machine \in BOOLEAN
    /\ ws \in BOOLEAN
    /\ req \in [Token -> Request]
    /\ tail \in [Token -> {"none", "open"}]
    /\ loose \in [Instances -> {"none", "queued", "running"}]
    /\ stranded \in BOOLEAN

HostInv ==
    /\ RestTyped /\ RedisInv
    /\ NewHostAlone
    /\ \A r \in Token : PlaceOf(r) /\ HostOf(r) /\ CloudOf(r) /\ LocksOf(r)
    /\ Cloud

\* A deletion finds no host stuck that is being made: who makes it works.
AgedInv ==
    /\ aged \in BOOLEAN
    /\ aged => hstat \in StaleTransitional /\ \A q \in Token : ~Young(q)

LEMMA InitInv == Init => HostInv
<1> SUFFICES ASSUME Init
             PROVE  HostInv
  OBVIOUS
<1>1. RedisInv
  BY RedisInitInv DEF Init
<1>2. req \in [Token -> Request]
  BY DEF Init, Request, NoRequest, Phase, NoSnap, InstanceStatus, HostStatus
<1>3. \A r \in Token : /\ In(r, {"new"}) /\ req[r].op = "none"
                      /\ req[r].held = {} /\ ~req[r].robbed
  BY DEF Init, NoRequest, In
<1>4. RestTyped
  BY <1>1, <1>2 DEF Init, RestTyped, RedisInv, HostStatus, Transitional, InstanceStatus
<1>5. \A r \in Token : ~Young(r) /\ Holds(r) = {} /\ \A e \in Entity : lock[e] # r
  BY <1>3, NoneAssumption
     DEF Init, Young, Holds, In, HostOwning, InstanceOwning, RedisInit
<1>6. \A r \in Token : PlaceOf(r) /\ CloudOf(r)
  BY <1>3 DEF PlaceOf, CloudOf, In, InstancePhases, Init
<1>7. Cloud
  BY DEF Init, Cloud
<1> QED
  BY <1>1, <1>4, <1>5, <1>6, <1>7 DEF HostInv, NewHostAlone, HostOf, LocksOf

-----------------------------------------------------------------------------
(* A step of one request.                                                  *)

\* What a step of r leaves to the others.
OthersKept(r) ==
    /\ req' \in [Token -> Request]
    /\ tail' \in [Token -> {"none", "open"}]
    /\ \A s \in Token \ {r} : req'[s] = req[s] /\ tail'[s] = tail[s]

KeysKept(r) ==
    /\ RedisInv'
    /\ \A e \in Entity, s \in Token \ {r} : (lock'[e] = s) <=> (lock[e] = s)

DataTyped ==
    /\ hstat' \in HostStatus
    /\ istat' \in [Instances -> InstanceStatus]
    /\ machine' \in BOOLEAN
    /\ ws' \in BOOLEAN
    /\ loose' \in [Instances -> {"none", "queued", "running"}]
    /\ stranded' \in BOOLEAN

\* Nobody but r makes a new host.
NoYoung(r) == \A q \in Token \ {r} : ~Young(q)

\* A step begins to make a new host only where there is none.
YoungKept == \A q \in Token : Young(q)' => Young(q) \/ hstat = "absent"

LEMMA OutsiderAlone ==
  ASSUME HostInv, NEW r \in Token, ~Bystander(r)
  PROVE  NoYoung(r)
BY DEF HostInv, NewHostAlone, NoYoung

LEMMA AtWorkAlone ==
  ASSUME HostInv, NEW r \in Token, In(r, LockPhases \cup {"drop"}) \/ tail[r] = "open"
  PROVE  NoYoung(r)
BY OutsiderAlone DEF Bystander, In, LockPhases, HostOwning, Parked, Over, InstancePhases

\* r's own part of the invariant holds, and the others' is not disturbed.
LEMMA RequestInv ==
  ASSUME HostInv, NEW r \in Token, OthersKept(r), KeysKept(r), DataTyped,
         PlaceOf(r)', HostOf(r)', CloudOf(r)', LocksOf(r)', Cloud',
         NoYoung(r) \/ (hstat' = hstat /\ ws' = ws),
         Young(r) \/ ((machine' => machine) /\ (ws' => ws)),
         \A q \in Token \ {r} : Young(q) =>
             Bystander(r)' /\ (In(q, {"checked"}) => In(r, Parked)'),
         Young(r)' =>
             \/ Young(r) /\ (In(r, {"checked"})' => In(r, {"checked"}))
             \/ hstat = "absent" /\ \A s \in Token \ {r} : In(s, Over) /\ tail[s] # "open"
  PROVE  HostInv' /\ YoungKept
<1>1. RestTyped' /\ RedisInv'
  BY DEF HostInv, RestTyped, KeysKept, OthersKept, DataTyped, RedisInv
<1>2. ASSUME NEW q \in Token \ {r}
      PROVE  /\ (Young(q)' <=> Young(q))
             /\ (Bystander(q)' <=> Bystander(q))
             /\ \A P : (In(q, P)' <=> In(q, P))
             /\ Holds(q)' = Holds(q)
             /\ (PlaceOf(q)' <=> PlaceOf(q))
  <2>1. req'[q] = req[q] /\ tail'[q] = tail[q]
    BY <1>2 DEF OthersKept
  <2>2. /\ (Young(q)' <=> Young(q)) /\ (Bystander(q)' <=> Bystander(q))
        /\ \A P : (In(q, P)' <=> In(q, P))
    BY <2>1 DEF Young, Bystander, In
  <2>3. Holds(q)' = Holds(q)
    BY <2>1 DEF Holds, In
  <2>4. PlaceOf(q)' <=> PlaceOf(q)
    BY <2>1 DEF PlaceOf, In
  <2> QED
    BY <2>2, <2>3, <2>4
<1>3. ASSUME NEW q \in Token \ {r}
      PROVE  PlaceOf(q)' /\ HostOf(q)' /\ CloudOf(q)' /\ LocksOf(q)'
  <2>1. PlaceOf(q) /\ HostOf(q) /\ CloudOf(q) /\ LocksOf(q)
    BY <1>3 DEF HostInv
  <2>2. /\ req'[q] = req[q] /\ tail'[q] = tail[q]
        /\ \A e \in Entity : (lock'[e] = q) <=> (lock[e] = q)
    BY <1>3 DEF OthersKept, KeysKept
  <2>3. Holds(q) \subseteq Entity
    BY <1>3, <2>1, HostOpsAssumption
       DEF Holds, PlaceOf, HostInv, RestTyped, Request, Instances, In, InstanceOwning, InstancePhases
  <2>4. LocksOf(q)'
    BY <1>2, <1>3, <2>1, <2>2, <2>3 DEF LocksOf, In
  <2>5. HostOf(q)'
    BY <1>2, <1>3, <2>1, <2>2 DEF HostOf, NoYoung
  <2>6. CloudOf(q)'
    <3>1. Young(r) => In(q, Parked) \/ req[q].op \notin {"adopt", "delete"} \/ In(q, {"checked"})
      BY <1>3 DEF HostInv, NewHostAlone, Bystander
    <3>2. Young(r) => In(q, Parked) \/ req[q].op # "adopt"
      BY <1>3 DEF HostInv, NewHostAlone, Bystander
    <3>3. req[q].op = "provision" /\ In(q, {"running"}) => Young(q)
      BY <2>1 DEF PlaceOf, Young, In, HostOwning, Over
    <3>4. In(q, {"ok"}) /\ req[q].op = "delete" => ~Young(r)
      BY <1>3 DEF HostInv, NewHostAlone, Bystander, In, Parked, Over, InstancePhases
    <3>5. (In(q, {"running"}) \/ In(q, {"ok"}) \/ ~In(q, Parked))' =>
            (In(q, {"running"}) \/ In(q, {"ok"}) \/ ~In(q, Parked))
      BY <2>2 DEF In
    <3> QED
      BY <1>2, <1>3, <2>1, <2>2, <3>2, <3>3, <3>4 DEF CloudOf, In, NoYoung
  <2> QED
    BY <1>2, <2>1, <2>4, <2>5, <2>6
<1>4. NewHostAlone'
  <2>1. ASSUME NEW p \in Token, Young(p)', NEW s \in Token \ {p}
        PROVE  Bystander(s)' /\ (In(p, {"checked"}) => In(s, Parked))'
    <3>1. CASE p = r
      <4>1. CASE Young(r) /\ (In(r, {"checked"})' => In(r, {"checked"}))
        BY <1>2, <2>1, <3>1, <4>1 DEF HostInv, NewHostAlone
      <4>2. CASE \A x \in Token \ {r} : In(x, Over) /\ tail[x] # "open"
        BY <1>2, <2>1, <3>1, <4>2 DEF Bystander, Parked, In
      <4> QED
        BY <2>1, <3>1, <4>1, <4>2
    <3>2. CASE p # r /\ s = r
      BY <1>2, <2>1, <3>2
    <3>3. CASE p # r /\ s # r
      BY <1>2, <2>1, <3>3 DEF HostInv, NewHostAlone
    <3> QED
      BY <3>1, <3>2, <3>3
  <2> QED
    BY <2>1 DEF NewHostAlone
<1>5. YoungKept
  BY <1>2 DEF YoungKept
<1> QED
  BY <1>1, <1>3, <1>4, <1>5 DEF HostInv

-----------------------------------------------------------------------------
(* What a step is for EntityExclusion: a request begins to work on one      *)
(* entity that nobody has, it leaves some, or nothing happens.             *)

ExStep == [Exclusion!Next]_Exclusion!exclusionVars

Keeps(r) == Holds(r)' \subseteq Holds(r)
Gains(r) == \E e \in Entity : lock[e] = None /\ Holds(r)' = Holds(r) \cup {e}

LEMMA HoldsEntities ==
  ASSUME HostInv, NEW r \in Token
  PROVE  Holds(r) \subseteq Entity
<1>1. PlaceOf(r) /\ req[r] \in Request
  BY DEF HostInv, RestTyped
<1> QED
  BY <1>1, HostOpsAssumption
     DEF Holds, PlaceOf, Request, Instances, In, InstanceOwning, InstancePhases

LEMMA RequestExcludes ==
  ASSUME HostInv, NEW r \in Token, OthersKept(r), Keeps(r) \/ Gains(r)
  PROVE  ExStep
<1> DEFINE W == [s \in Token |-> Holds(s)]
<1>1. \A s \in Token \ {r} : Holds(s)' = Holds(s)
  BY DEF OthersKept, Holds, In
<1>2. W' = [W EXCEPT ![r] = Holds(r)']
  BY <1>1
<1>3. CASE Holds(r)' = Holds(r)
  <2>1. W' = W
    BY <1>1, <1>3
  <2> QED
    BY <2>1 DEF ExStep, Exclusion!exclusionVars
<1>4. CASE Keeps(r) /\ Holds(r)' # Holds(r)
  <2> DEFINE S == Holds(r) \ Holds(r)'
  <2>1. S \in SUBSET Entity /\ S # {} /\ S \subseteq W[r]
    BY <1>4, HoldsEntities DEF Keeps
  <2>2. Holds(r)' = W[r] \ S
    BY <1>4 DEF Keeps
  <2>3. W' = [W EXCEPT ![r] = @ \ S]
    BY <1>2, <2>2
  <2> HIDE DEF S
  <2>4. Exclusion!Finish(r, S)
    BY <2>1, <2>3 DEF Exclusion!Finish
  <2> QED
    BY <2>1, <2>4 DEF ExStep, Exclusion!Next
<1>5. CASE Gains(r)
  <2>1. PICK e \in Entity : lock[e] = None /\ Holds(r)' = Holds(r) \cup {e}
    BY <1>5 DEF Gains
  <2>2. \A q \in Token : e \notin Holds(q)
    BY <2>1, NoneAssumption DEF HostInv, LocksOf
  <2>3. W' = [W EXCEPT ![r] = @ \cup {e}] /\ \A q \in Token : e \notin W[q]
    BY <1>2, <2>1, <2>2
  <2>4. Exclusion!Start(r, e)
    BY <2>3 DEF Exclusion!Start
  <2> QED
    BY <2>4 DEF ExStep, Exclusion!Next
<1> QED
  BY <1>3, <1>4, <1>5

\* A step that is as it should be, in both respects.
Advance == HostInv' /\ YoungKept /\ ExStep

LEMMA RequestStep ==
  ASSUME HostInv, NEW r \in Token, OthersKept(r), KeysKept(r), DataTyped,
         PlaceOf(r)', HostOf(r)', CloudOf(r)', LocksOf(r)', Cloud',
         NoYoung(r) \/ (hstat' = hstat /\ ws' = ws),
         Young(r) \/ ((machine' => machine) /\ (ws' => ws)),
         \A q \in Token \ {r} : Young(q) =>
             Bystander(r)' /\ (In(q, {"checked"}) => In(r, Parked)'),
         Young(r)' =>
             \/ Young(r) /\ (In(r, {"checked"})' => In(r, {"checked"}))
             \/ hstat = "absent" /\ \A s \in Token \ {r} : In(s, Over) /\ tail[s] # "open",
         Keeps(r) \/ Gains(r)
  PROVE  Advance
BY RequestInv, RequestExcludes DEF Advance

-----------------------------------------------------------------------------
(* The vocabulary is closed under the operators of HostOps.                *)

\* r goes on with what it has.
Carries(r) ==
    /\ req' \in [Token -> Request]
    /\ \A s \in Token \ {r} : req'[s] = req[s]
    /\ req'[r].op = req[r].op /\ req'[r].held = req[r].held
    /\ req'[r].inst = req[r].inst /\ req'[r].robbed = req[r].robbed

Turns(r, p) == Carries(r) /\ req'[r].phase = p /\ req'[r].seen = req[r].seen

LEMMA GotoTurns ==
  ASSUME req \in [Token -> Request], NEW r \in Token, NEW p \in Phase, Goto(r, p)
  PROVE  Turns(r, p)
<1> DEFINE q == [req[r] EXCEPT !.phase = p]
<1>1. /\ q \in Request /\ q.phase = p /\ q.op = req[r].op /\ q.held = req[r].held
      /\ q.inst = req[r].inst /\ q.robbed = req[r].robbed /\ q.seen = req[r].seen
  BY DEF Request
<1>2. req' = [req EXCEPT ![r] = q]
  BY DEF Goto
<1> HIDE DEF q
<1>3. req' \in [Token -> Request] /\ req'[r] = q /\ \A s \in Token \ {r} : req'[s] = req[s]
  BY <1>1, <1>2
<1> QED
  BY <1>1, <1>3 DEF Turns, Carries

LEMMA ForgetTurns ==
  ASSUME req \in [Token -> Request], NEW r \in Token, NEW p \in Phase, Forget(r, p)
  PROVE  Turns(r, p)
<1>1. NoSnap \in [Instances -> InstanceStatus]
  BY DEF NoSnap, InstanceStatus
<1>2. req' = [req EXCEPT ![r] = [req[r] EXCEPT !.phase = p, !.todo = {}, !.snap = NoSnap]]
  BY DEF Forget
<1> DEFINE q == [req[r] EXCEPT !.phase = p, !.todo = {}, !.snap = NoSnap]
<1>3. q \in Request
  BY <1>1 DEF Request
<1>4. /\ q.phase = p /\ q.op = req[r].op /\ q.held = req[r].held
      /\ q.inst = req[r].inst /\ q.robbed = req[r].robbed /\ q.seen = req[r].seen
  BY DEF Request
<1> HIDE DEF q
<1>5. req' \in [Token -> Request] /\ req'[r] = q /\ \A s \in Token \ {r} : req'[s] = req[s]
  BY <1>2, <1>3 DEF q
<1> QED
  BY <1>4, <1>5 DEF Turns, Carries

LEMMA TodoType ==
  ASSUME req \in [Token -> Request], NEW r \in Token, NEW t \in SUBSET Instances,
         req' = [req EXCEPT ![r].todo = t]
  PROVE  Turns(r, req[r].phase)
<1>1. req' = [req EXCEPT ![r] = [req[r] EXCEPT !.todo = t]]
  OBVIOUS
<1>2. [req[r] EXCEPT !.todo = t] \in Request
  BY DEF Request
<1> QED
  BY <1>1, <1>2 DEF Turns, Carries, Request

LEMMA TodoTurns ==
  ASSUME req \in [Token -> Request], NEW r \in Token, NEW p \in Phase,
         NEW t \in SUBSET Instances,
         req' = [req EXCEPT ![r].phase = p, ![r].todo = t]
  PROVE  Turns(r, p)
<1>1. req' = [req EXCEPT ![r] = [req[r] EXCEPT !.phase = p, !.todo = t]]
  OBVIOUS
<1>2. [req[r] EXCEPT !.phase = p, !.todo = t] \in Request
  BY DEF Request
<1> QED
  BY <1>1, <1>2 DEF Turns, Carries, Request

LEMMA SeenCarries ==
  ASSUME req \in [Token -> Request], NEW r \in Token, NEW p \in Phase,
         NEW h \in HostStatus,
         req' = [req EXCEPT ![r].phase = p, ![r].seen = h]
  PROVE  Carries(r) /\ req'[r].phase = p /\ req'[r].seen = h
<1>1. req' = [req EXCEPT ![r] = [req[r] EXCEPT !.phase = p, !.seen = h]]
  OBVIOUS
<1>2. [req[r] EXCEPT !.phase = p, !.seen = h] \in Request
  BY DEF Request
<1> QED
  BY <1>1, <1>2 DEF Carries, Request

\* What a request is replaced by, it is, and the others stay as they are.
LEMMA Becomes ==
  ASSUME req \in [Token -> Request], NEW r \in Token, NEW q \in Request,
         req' = [req EXCEPT ![r] = q]
  PROVE  /\ req' \in [Token -> Request] /\ req'[r] = q
         /\ \A s \in Token \ {r} : req'[s] = req[s]
OBVIOUS

LEMMA EndType ==
  ASSUME req \in [Token -> Request], NEW r \in Token, NEW p \in Phase, End(r, p)
  PROVE  /\ req' \in [Token -> Request]
         /\ \A s \in Token \ {r} : req'[s] = req[s]
         /\ req'[r].phase = p /\ req'[r].op = "none" /\ req'[r].held = {}
<1>1. NoRequest \in Request
  BY DEF NoRequest, Request, Phase, NoSnap, InstanceStatus, HostStatus
<1> QED
  BY <1>1 DEF End, Request, NoRequest

LEMMA SetHostEffect ==
  ASSUME hstat \in HostStatus, stranded \in BOOLEAN,
         NEW s \in (HostStatus \ {"absent"}) \cup {"keep"}, SetHost(s)
  PROVE  /\ hstat' \in HostStatus /\ stranded' \in BOOLEAN
         /\ (hstat' = "absent") <=> (hstat = "absent")
         /\ hstat # "absent" /\ s # "keep" => hstat' = s
<1>1. hstat' \in HostStatus /\ (hstat # "absent" /\ s # "keep" => hstat' = s)
  BY DEF SetHost
<1>2. (hstat' = "absent") <=> (hstat = "absent")
  BY DEF SetHost
<1>3. stranded' \in BOOLEAN
  BY DEF SetHost
<1> QED
  BY <1>1, <1>2, <1>3

LEMMA SetInstanceType ==
  ASSUME istat \in [Instances -> InstanceStatus], NEW i, NEW s \in InstanceStatus,
         SetInstance(i, s)
  PROVE  istat' \in [Instances -> InstanceStatus]
BY DEF SetInstance

LEMMA NoSnapType == NoSnap \in [Instances -> InstanceStatus]
BY DEF NoSnap, InstanceStatus

LEMMA PhaseMembers ==
  /\ LockPhases \subseteq Phase
  /\ {"checked", "drop", "done", "gone", "lost", "iadmitted", "ichecked"} \subseteq Phase
  /\ {"ilocked", "iworking", "ifinishing"} \subseteq Phase
BY DEF LockPhases, HostOwning, Phase

\* What is known of the request a step is about.
LEMMA RequestFacts ==
  ASSUME HostInv, NEW r \in Token
  PROVE  /\ RestTyped /\ RedisInv /\ RedisTypeOK /\ Cloud
         /\ req \in [Token -> Request]
         /\ hstat \in HostStatus /\ stranded \in BOOLEAN
         /\ PlaceOf(r) /\ HostOf(r) /\ CloudOf(r) /\ LocksOf(r)
BY DEF HostInv, RestTyped, RedisInv

LEMMA UnchangedKept ==
  ASSUME RedisInv, NEW r \in Token, UNCHANGED redisVars
  PROVE  KeysKept(r) /\ lock' = lock
BY RedisUnchangedInv DEF KeysKept, redisVars

LEMMA ReleaseKept ==
  ASSUME RedisInv, NEW r \in Token, NEW e \in Entity, ReleaseEntity(e, r)
  PROVE  /\ KeysKept(r)
         /\ lock'[e] # r
         /\ \A f \in Entity : f # e => lock'[f] = lock[f]
<1>1. RedisTypeOK
  BY DEF RedisInv
<1>2. /\ lock'[e] # r
      /\ \A f \in Entity : lock[f] # r => lock'[f] = lock[f]
      /\ \A f \in Entity : f # e => lock'[f] = lock[f]
  BY <1>1, ReleaseIsOwn
<1>3. \A f \in Entity, s \in Token \ {r} : (lock'[f] = s) <=> (lock[f] = s)
  BY <1>2, NoneAssumption DEF ReleaseEntity, RedisTypeOK, RedisInv
<1> QED
  BY <1>2, <1>3, ReleaseEntityInv DEF KeysKept

LEMMA AcquireKept ==
  ASSUME RedisInv, NEW r \in Token, NEW e \in Entity, AcquireEntity(e, r)
  PROVE  /\ KeysKept(r) /\ lock[e] = None /\ lock'[e] = r
         /\ \A f \in Entity : f # e => lock'[f] = lock[f]
<1>1. RedisTypeOK
  BY DEF RedisInv
<1>2. /\ lock[e] = None /\ lock'[e] = r
      /\ \A f \in Entity : f # e => lock'[f] = lock[f]
  BY <1>1, AcquireIsFree
<1>3. \A f \in Entity, s \in Token \ {r} : (lock'[f] = s) <=> (lock[f] = s)
  BY <1>2, NoneAssumption
<1> QED
  BY <1>2, <1>3, AcquireEntityInv DEF KeysKept

-----------------------------------------------------------------------------
(* The shapes a step on the host can have.                                 *)

\* A request goes on with its locks, or no longer relies on them, and touches
\* nothing of the cloud.
Early == {"checked", "locked", "listing", "taking", "backoff", "revert", "committed"}

Follows(r, p) ==
    /\ In(r, LockPhases) /\ p \in LockPhases
    /\ p \in HostOwning => In(r, HostOwning)
    /\ req[r].op = "setup" => p \in {"queued", "running", "ok", "bad", "finishing"}
    /\ p \in {"started", "handoff"} => req[r].op = "provision"
    /\ p \in {"listing", "taking", "backoff"} => req[r].op = "rerun"
    /\ p = "revert" => req[r].op \in {"rerun", "resize"}
    /\ p = "marking" => req[r].op = "workshop"
    /\ p \in Early => In(r, Early)

\* The row of the host stays if it was there.
RowKept ==
    /\ hstat' \in HostStatus
    /\ (hstat' = "absent") <=> (hstat = "absent")

OthersTyped ==
    /\ istat' \in [Instances -> InstanceStatus]
    /\ loose' \in [Instances -> {"none", "queued", "running"}]
    /\ stranded' \in BOOLEAN

LEMMA WorkStep ==
  ASSUME HostInv, NEW r \in Token, NEW p, Follows(r, p), Carries(r),
         req'[r].phase = p, p \in Early => req'[r].seen = req[r].seen,
         KeysKept(r), \A e \in Entity : lock'[e] = r => lock[e] = r,
         p \in HostOwning => lock' = lock, tail' = tail, OthersTyped,
         hstat' \in HostStatus,
         p \in HostOwning => (hstat' = "absent" => hstat = "absent"),
         machine' \in BOOLEAN, ws' \in BOOLEAN, Cloud', CloudOf(r)',
         (tail[r] = "open" \/ p = "handoff") /\ Young(r)' => hstat' = "pending_setup",
         Young(r) \/ ((machine' => machine) /\ (ws' => ws))
  PROVE  Advance
<1>1. NoYoung(r)
  BY AtWorkAlone DEF Follows, In
<1>2. OthersKept(r) /\ DataTyped
  BY RequestFacts DEF OthersKept, DataTyped, Carries, OthersTyped, RestTyped
<1>3. PlaceOf(r)'
  <2>1. PlaceOf(r)
    BY RequestFacts
  <2>2. p \notin InstancePhases /\ p # "checked" /\ p # "drop" /\ p \notin Over
    BY DEF Follows, LockPhases, HostOwning, InstancePhases, Over
  <2>3. ~In(r, InstancePhases) /\ ~In(r, {"checked"}) /\ ~In(r, Over)
    BY DEF Follows, LockPhases, HostOwning, InstancePhases, Over, In
  <2>4. In(r, Early) => In(r, {"checked", "locked", "listing", "taking", "backoff", "revert", "committed"})
    BY DEF Early
  <2> QED
    BY <2>1, <2>2, <2>3, <2>4 DEF PlaceOf, Follows, Carries, In, Early
<1>4. Young(r)' => Young(r) /\ ~In(r, {"checked"})'
  BY DEF Young, In, Follows, Carries, LockPhases, HostOwning
<1>5. HostOf(r)'
  <2>1. Young(r)' => p \in HostOwning
    BY <1>4 DEF Young, In
  <2>2. Young(r)' => hstat' # "absent"
    BY <1>4, <2>1, RequestFacts DEF HostOf
  <2>3. Young(r)' /\ (tail[r] = "open" \/ In(r, {"handoff"})) ' => hstat' = "pending_setup"
    BY DEF In
  <2> QED
    BY <2>2, <2>3 DEF HostOf, In
<1>6. /\ p \in HostOwning => Holds(r)' = Holds(r)
      /\ p \notin HostOwning => Holds(r)' = {}
  BY DEF Holds, Follows, Carries, In, InstanceOwning, LockPhases, HostOwning
<1>7. LocksOf(r)'
  <2>1. ~In(r, {"gone", "lost"}) /\ ~In(r, {"ilocked", "iworking", "ifinishing"})
    BY DEF Follows, In, LockPhases, HostOwning
  <2> QED
    BY <1>6, <2>1, RequestFacts DEF LocksOf, Follows, Carries, In
<1>8. \A q \in Token \ {r} : Young(q) =>
         Bystander(r)' /\ (In(q, {"checked"}) => In(r, Parked)')
  BY <1>1 DEF NoYoung
<1>9. Keeps(r)
  BY <1>6 DEF Keeps
<1> QED
  BY <1>1, <1>2, <1>3, <1>4, <1>5, <1>7, <1>8, <1>9, RequestStep

\* A request ends; what locks it may leave lie in wait for their TTL, and then
\* it does not count as done.
LEMMA EndStep ==
  ASSUME HostInv, NEW r \in Token, NEW p \in {"done", "gone", "lost"}, End(r, p),
         KeysKept(r), p = "done" => \A e \in Entity : lock'[e] # r,
         tail' = tail, DataTyped, Cloud',
         NoYoung(r) \/ (hstat' = hstat /\ ws' = ws),
         machine' => machine, ws' => ws
  PROVE  Advance
<1>0. p \in Phase
  BY PhaseMembers
<1>1. /\ req' \in [Token -> Request]
      /\ \A s \in Token \ {r} : req'[s] = req[s]
      /\ req'[r].phase = p /\ req'[r].op = "none" /\ req'[r].held = {}
  BY <1>0, RequestFacts, EndType
<1>2. OthersKept(r)
  BY <1>1, RequestFacts DEF OthersKept, RestTyped
<1>3. In(r, Over)' /\ ~In(r, InstancePhases)' /\ ~In(r, LockPhases)' /\ ~In(r, {"checked"})'
  BY <1>1 DEF In, Over, InstancePhases, LockPhases, HostOwning
<1>4. PlaceOf(r)'
  BY <1>1, <1>3 DEF PlaceOf, In, Over
<1>5. ~Young(r)'
  BY <1>1 DEF Young
<1>6. HostOf(r)' /\ CloudOf(r)'
  BY <1>1, <1>5 DEF HostOf, CloudOf
<1>7. Holds(r)' = {}
  BY <1>1 DEF Holds, In, HostOwning, InstanceOwning
<1>8. LocksOf(r)'
  <2>1. \A e \in Entity : lock'[e] = r => In(r, {"gone", "lost"})'
    BY <1>1 DEF In
  <2> QED
    BY <1>7, <2>1 DEF LocksOf
<1>9. \A q \in Token \ {r} : Young(q) =>
         Bystander(r)' /\ (In(q, {"checked"}) => In(r, Parked)')
  <2>1. ASSUME NEW q \in Token \ {r}, Young(q)
        PROVE  tail[r] # "open"
    BY <2>1 DEF HostInv, NewHostAlone, Bystander
  <2>2. In(r, Parked)'
    BY <1>3 DEF In, Parked
  <2> QED
    BY <2>1, <2>2 DEF Bystander
<1> QED
  BY <1>2, <1>4, <1>5, <1>6, <1>8, <1>9, <1>7, RequestStep DEF Keeps

\* No request moves and no lock is lost that somebody relies on.
LEMMA QuietStep ==
  ASSUME HostInv, req' = req, tail' = tail, DataTyped, RedisInv',
         hstat' = hstat, machine' = machine, ws' = ws,
         \A e \in Entity, s \in Token : lock'[e] = s => lock[e] = s,
         \A s \in Token : \A e \in Holds(s) : lock[e] = s => lock'[e] = s
  PROVE  Advance
<1>1. RestTyped'
  BY DEF HostInv, RestTyped, DataTyped, RedisInv
<1>2. \A s \in Token : /\ PlaceOf(s)' /\ HostOf(s)' /\ CloudOf(s)'
                       /\ (Young(s)' <=> Young(s)) /\ (Bystander(s)' <=> Bystander(s))
                       /\ Holds(s)' = Holds(s)
  BY DEF HostInv, PlaceOf, HostOf, CloudOf, Young, Bystander, In, Holds
<1>3. \A s \in Token : LocksOf(s)'
  BY <1>2 DEF HostInv, LocksOf, In
<1>4. NewHostAlone' /\ Cloud'
  BY <1>2 DEF HostInv, NewHostAlone, In, Cloud
<1>5. HostInv'
  BY <1>1, <1>2, <1>3, <1>4 DEF HostInv
<1>6. ExStep /\ YoungKept
  BY <1>2 DEF ExStep, Exclusion!exclusionVars, YoungKept
<1> QED
  BY <1>5, <1>6 DEF Advance

\* A request takes, uses or leaves an instance, or asks for one; the host has
\* nothing to do with it.
LEMMA InstanceMove ==
  ASSUME HostInv, NEW r \in Token, NEW p \in InstancePhases,
         req' \in [Token -> Request], \A s \in Token \ {r} : req'[s] = req[s],
         req'[r].phase = p, req'[r].inst \in Instances,
         req'[r].held = {}, req'[r].op \in InstanceOp,
         tail' \in [Token -> {"none", "open"}], tail'[r] = "none",
         \A s \in Token \ {r} : tail'[s] = tail[s],
         KeysKept(r), OthersTyped, hstat' = hstat, machine' = machine, ws' = ws,
         p \in InstanceOwning => lock'[req'[r].inst] = r,
         p \in InstanceOwning =>
            /\ In(r, InstancePhases) /\ req'[r].inst = req[r].inst
            /\ In(r, InstanceOwning) \/ lock[req[r].inst] = None,
         \A e \in Entity : lock'[e] = r =>
            p \in {"ilocked", "iworking", "ifinishing"} /\ e = req'[r].inst
  PROVE  Advance
<1>1. OthersKept(r) /\ DataTyped
  BY RequestFacts DEF OthersKept, DataTyped, OthersTyped, RestTyped
<1>2. req'[r].op \notin {"rerun", "setup", "provision", "adopt", "delete", "resize"}
  BY DEF InstanceOp
<1>3. PlaceOf(r)'
  BY <1>2 DEF PlaceOf, In, InstancePhases
<1>4. ~Young(r)'
  BY <1>2 DEF Young
<1>5. HostOf(r)' /\ CloudOf(r)'
  BY <1>2, <1>4 DEF HostOf, CloudOf
<1>6. LocksOf(r)'
  <2>1. \A e \in Holds(r)' : lock'[e] = r
    BY DEF Holds, In, InstancePhases, HostOwning, InstanceOwning
  <2> QED
    BY <2>1 DEF LocksOf, In
<1>7. In(r, Parked)' /\ Bystander(r)'
  BY DEF In, Parked, Bystander
<1>8. Cloud'
  BY RequestFacts DEF Cloud
<1>9. Keeps(r) \/ Gains(r)
  <2>1. ~In(r, HostOwning)' /\ (In(r, InstanceOwning)' <=> p \in InstanceOwning)
    BY DEF In, InstancePhases, HostOwning, InstanceOwning
  <2>2. CASE p \notin InstanceOwning
    <3>1. Holds(r)' = {}
      BY <2>1, <2>2 DEF Holds
    <3> QED
      BY <3>1 DEF Keeps
  <2>3. CASE p \in InstanceOwning
    <3>1. Holds(r)' = {req[r].inst}
      BY <2>1, <2>3 DEF Holds
    <3>2. ~In(r, HostOwning)
      BY <2>3 DEF In, InstancePhases, HostOwning
    <3>3. Holds(r) = IF In(r, InstanceOwning) THEN {req[r].inst} ELSE {}
      BY <3>2 DEF Holds
    <3>4. req[r].inst \in Entity
      BY <2>3 DEF Instances
    <3> QED
      BY <2>3, <3>1, <3>3, <3>4 DEF Keeps, Gains
  <2> QED
    BY <2>2, <2>3
<1> QED
  BY <1>1, <1>3, <1>4, <1>5, <1>6, <1>7, <1>8, <1>9, RequestStep

\* Work that does not concern the cloud: the host's status may change, but not
\* while the setup of a new host is queued or under way and provisioning has
\* yet to look at it.
LEMMA StatusStep ==
  ASSUME HostInv, NEW r \in Token, NEW p, Follows(r, p), Carries(r),
         req'[r].phase = p, p \in Early => req'[r].seen = req[r].seen,
         UNCHANGED redisVars, tail' = tail, OthersTyped,
         RowKept, machine' = machine, ws' = ws,
         p = "running" /\ req[r].op = "provision" => In(r, {"running"}),
         p = "ok" /\ req[r].op = "delete" => In(r, {"ok"}),
         hstat' = hstat \/ tail[r] # "open" \/ p \notin HostOwning,
         p = "handoff" => hstat' = "pending_setup"
  PROVE  Advance
<1>1. KeysKept(r) /\ lock' = lock
  BY UnchangedKept, RequestFacts
<1>2. machine' \in BOOLEAN /\ ws' \in BOOLEAN
  BY RequestFacts DEF RestTyped
<1>3. Cloud' /\ hstat' \in HostStatus /\ (hstat' = "absent" => hstat = "absent")
  BY RequestFacts DEF Cloud, RowKept
<1>4. CloudOf(r)'
  <2>1. ~In(r, Parked)
    BY DEF Follows, In, LockPhases, HostOwning, Parked, Over, InstancePhases
  <2>2. req'[r].op = req[r].op
    BY DEF Carries
  <2> QED
    BY <2>1, <2>2, RequestFacts DEF CloudOf, In
<1>5. (tail[r] = "open" \/ p = "handoff") /\ Young(r)' => hstat' = "pending_setup"
  <2>1. CASE p = "handoff"
    BY <2>1
  <2>2. ASSUME tail[r] = "open", Young(r)'
        PROVE  hstat' = "pending_setup"
    <3>1. p \in HostOwning
      BY <2>2 DEF Young, In, Follows, LockPhases, HostOwning
    <3>2. Young(r)
      BY <2>2, <3>1 DEF Young, In, Follows, Carries
    <3> QED
      BY <2>2, <3>1, <3>2, RequestFacts DEF HostOf
  <2> QED
    BY <2>1, <2>2
<1> QED
  BY <1>1, <1>2, <1>3, <1>4, <1>5, WorkStep

LEMMA PlainStep ==
  ASSUME HostInv, NEW r \in Token, NEW p, Follows(r, p), Carries(r),
         req'[r].phase = p, p \in Early => req'[r].seen = req[r].seen,
         UNCHANGED redisVars, tail' = tail, OthersTyped,
         hstat' = hstat, machine' = machine, ws' = ws, p # "handoff",
         p = "running" /\ req[r].op = "provision" => In(r, {"running"}),
         p = "ok" /\ req[r].op = "delete" => In(r, {"ok"})
  PROVE  Advance
<1>1. RowKept
  BY RequestFacts DEF RowKept
<1> QED
  BY <1>1, StatusStep

-----------------------------------------------------------------------------
(* The routes.                                                             *)

\* While somebody makes a new host, the host's lock is not to be had: the one
\* who makes it has it, or asks for it while everybody else is parked.
LEMMA AcquiresAlone ==
  ASSUME HostInv, NEW r \in Token, In(r, {"checked"}), lock[Host] = None
  PROVE  NoYoung(r)
<1>1. ASSUME NEW q \in Token \ {r}, Young(q)
      PROVE  FALSE
  <2>1. ~In(r, Parked)
    BY DEF In, Parked, Over, InstancePhases
  <2>2. ~In(q, {"checked"})
    BY <1>1, <2>1 DEF HostInv, NewHostAlone
  <2>3. Host \in Holds(q)
    <3>1. In(q, HostOwning) /\ ~In(q, InstanceOwning) /\ ~req[q].robbed
      BY <1>1, <2>2 DEF Young, In, HostOwning, InstanceOwning
    <3> QED
      BY <3>1 DEF Holds
  <2>4. lock[Host] = q
    BY <1>1, <2>3 DEF HostInv, LocksOf
  <2> QED
    BY <1>1, <2>4, NoneAssumption
<1> QED
  BY <1>1 DEF NoYoung

LEMMA AcquireInv ==
  ASSUME HostInv, NEW r \in Token, Acquire(r)
  PROVE  Advance
<1>1. In(r, {"checked"}) /\ AcquireEntity(Host, r) /\ Host \in Entity
  BY HostOpsAssumption DEF Acquire
<1>2. /\ KeysKept(r) /\ lock[Host] = None /\ lock'[Host] = r
      /\ \A f \in Entity : f # Host => lock'[f] = lock[f]
  BY <1>1, AcquireKept, RequestFacts
<1>3. NoYoung(r)
  BY <1>1, <1>2, AcquiresAlone
<1>4. Carries(r) /\ req'[r].phase = "locked"
  BY RequestFacts, GotoTurns DEF Acquire, Turns, Phase
<1>5. req'[r].seen = req[r].seen
  BY RequestFacts, GotoTurns DEF Acquire, Turns, Phase
<1>6. OthersKept(r) /\ DataTyped /\ tail' = tail /\ hstat' = hstat /\ ws' = ws /\ machine' = machine
  BY <1>4, RequestFacts
     DEF Acquire, OthersKept, DataTyped, Carries, RestTyped, cloudVars, sideVars
<1>7. req[r].held = {}
  BY <1>1, RequestFacts DEF PlaceOf, In
<1>8. tail[r] = "none" /\ req[r].op # "setup" /\ ~req[r].robbed
  <2>1. tail[r] \in {"none", "open"}
    BY RequestFacts DEF RestTyped
  <2> QED
    BY <1>1, <2>1, RequestFacts DEF PlaceOf, In, Over
<1>9. PlaceOf(r)'
  BY <1>1, <1>4, <1>5, <1>6, <1>7, <1>8, RequestFacts
     DEF PlaceOf, Carries, In, InstancePhases, Over
<1>10. Young(r)' => Young(r) /\ ~In(r, {"checked"})'
  BY <1>1, <1>4, <1>6 DEF Young, Carries, In
<1>11. HostOf(r)'
  BY <1>4, <1>6, <1>8, <1>10, RequestFacts DEF HostOf, In
<1>12. CloudOf(r)' /\ Cloud'
  <2>1. ~In(r, Parked)
    BY <1>1 DEF In, Parked, Over, InstancePhases
  <2> QED
    BY <1>4, <1>6, <2>1, RequestFacts DEF CloudOf, Cloud, Carries, In
<1>13. Holds(r) = {} /\ Holds(r)' = {Host}
  <2>1. ~In(r, HostOwning) /\ ~In(r, InstanceOwning)
    BY <1>1 DEF In, HostOwning, InstanceOwning
  <2>2. /\ In(r, HostOwning)' /\ ~In(r, InstanceOwning)'
        /\ ~req'[r].robbed /\ req'[r].held = {}
    BY <1>4, <1>7, <1>8 DEF In, HostOwning, InstanceOwning, Carries
  <2> QED
    BY <2>1, <2>2 DEF Holds
<1>14. LocksOf(r)'
  <2>1. \A e \in Entity : lock[e] # r
    BY <1>1, RequestFacts DEF LocksOf, In, LockPhases, HostOwning
  <2>2. In(r, LockPhases)'
    BY <1>4 DEF In, LockPhases, HostOwning
  <2>3. \A e \in Entity : lock'[e] = r => e = Host
    BY <1>2, <2>1
  <2> QED
    BY <1>2, <1>13, <2>2, <2>3 DEF LocksOf
<1>15. \A q \in Token \ {r} : Young(q) =>
         Bystander(r)' /\ (In(q, {"checked"}) => In(r, Parked)')
  BY <1>3 DEF NoYoung
<1>16. Gains(r)
  BY <1>1, <1>2, <1>13 DEF Gains
<1> QED
  BY <1>2, <1>3, <1>6, <1>9, <1>10, <1>11, <1>12, <1>14, <1>15, <1>16, RequestStep

LEMMA FreshFacts ==
  ASSUME HostInv, NEW r \in Token, Fresh(r), UNCHANGED redisVars, tail' = tail
  PROVE  /\ In(r, Over) /\ tail[r] # "open"
         /\ KeysKept(r) /\ \A e \in Entity : lock'[e] # r
         /\ tail' \in [Token -> {"none", "open"}] /\ tail'[r] = "none"
         /\ \A s \in Token \ {r} : tail'[s] = tail[s]
<1>1. KeysKept(r) /\ lock' = lock
  BY UnchangedKept, RequestFacts
<1>2. tail \in [Token -> {"none", "open"}]
  BY RequestFacts DEF RestTyped
<1> QED
  BY <1>1, <1>2 DEF Fresh

LEMMA CheckInv ==
  ASSUME HostInv, AgedInv, NEW r \in Token, NEW o \in Ops, Check(r, o)
  PROVE  Advance
<1>0. o \in AllOps /\ Admits(o) /\ Fresh(r) /\ UNCHANGED redisVars /\ tail' = tail
  BY HostOpsAssumption DEF Check, sideVars
<1>1. /\ In(r, Over) /\ tail[r] # "open"
      /\ KeysKept(r) /\ \A e \in Entity : lock'[e] # r
      /\ tail' \in [Token -> {"none", "open"}] /\ tail'[r] = "none"
      /\ \A s \in Token \ {r} : tail'[s] = tail[s]
  BY <1>0, FreshFacts
<1>2. /\ req' \in [Token -> Request]
      /\ \A s \in Token \ {r} : req'[s] = req[s]
      /\ req'[r].phase = "checked" /\ req'[r].op = o /\ req'[r].seen = Reads(o)
      /\ req'[r].held = {} /\ ~req'[r].robbed
  <2>1. NoRequest \in Request
    BY DEF NoRequest, Request, Phase, NoSnap, InstanceStatus, HostStatus
  <2>2. "checked" \in Phase
    BY DEF Phase
  <2>3. Reads(o) \in HostStatus
    BY RequestFacts DEF Reads, HostStatus
  <2>4. [NoRequest EXCEPT !.phase = "checked", !.op = o, !.seen = Reads(o)] \in Request
    BY <1>0, <2>1, <2>2, <2>3, RequestFacts DEF Request
  <2> QED
    BY <2>1, <2>4, RequestFacts DEF Check, Request, NoRequest
<1>3. /\ istat' = istat /\ machine' = machine /\ ws' = ws /\ loose' = loose
      /\ stranded' = stranded
      /\ hstat' = IF o \in {"provision", "adopt"} THEN "pending" ELSE hstat
  BY DEF Check, cloudVars, sideVars
<1>4. hstat' \in HostStatus
  BY <1>3, RequestFacts DEF HostStatus
<1>5. OthersKept(r) /\ DataTyped
  BY <1>1, <1>2, <1>3, <1>4, RequestFacts DEF OthersKept, DataTyped, RestTyped
<1>6. o # "setup"
  BY <1>0 DEF AllOps
<1>7. o \in {"rerun", "resize"} => Reads(o) = hstat /\ hstat \in {"active", "error"}
  BY <1>0 DEF Admits, Reads
<1>8. PlaceOf(r)'
  BY <1>1, <1>2, <1>6, <1>7 DEF PlaceOf, In, InstancePhases
<1>9. Young(r)' => o = "provision"
  BY <1>2, <1>6 DEF Young
<1>10. HostOf(r)'
  BY <1>1, <1>2, <1>3, <1>9 DEF HostOf, In
<1>11. LocksOf(r)' /\ Keeps(r)
  <2>1. ~In(r, HostOwning)' /\ ~In(r, InstanceOwning)'
    BY <1>2 DEF In, HostOwning, InstanceOwning
  <2>2. Holds(r)' = {}
    BY <2>1 DEF Holds
  <2> QED
    BY <1>1, <2>2 DEF LocksOf, Keeps
<1>12. CASE o \in {"provision", "adopt"}
  <2>1. hstat = "absent" /\ Quiet
    BY <1>0, <1>12 DEF Admits
  <2>2. \A s \in Token : In(s, Over) /\ tail[s] # "open"
    BY <2>1 DEF Quiet
  <2>3. \A s \in Token : ~Young(s)
    BY <2>2 DEF Young, In, Over, HostOwning
  <2>4. ~ws
    BY <2>1, RequestFacts DEF Cloud
  <2>5. CloudOf(r)' /\ Cloud'
    BY <1>2, <1>3, <1>12, <2>4, RequestFacts DEF CloudOf, Cloud, In
  <2> QED
    BY <1>1, <1>3, <1>5, <1>8, <1>9, <1>10, <1>11, <2>1, <2>2, <2>3, <2>5, RequestStep
       DEF NoYoung
<1>13. CASE o \notin {"provision", "adopt"}
  <2>1. Known
    BY <1>0, <1>13 DEF Admits
  <2>2. hstat' = hstat /\ ~Young(r)'
    BY <1>3, <1>9, <1>13
  <2>3. CloudOf(r)' /\ Cloud'
    BY <1>2, <1>3, <1>13, <2>2, RequestFacts DEF CloudOf, Cloud, In
  <2>4. ASSUME NEW q \in Token \ {r}, Young(q)
        PROVE  Bystander(r)' /\ (In(q, {"checked"}) => In(r, Parked)')
    <3>1. Bystander(r)'
      <4>1. ~aged
        BY <2>4 DEF AgedInv
      <4>2. Reads(o) = "absent" \/ Reads(o) \in {"active", "error"}
        BY <1>7, <4>1 DEF Reads
      <4>3. Reads(o) \notin StaleTransitional
        BY <4>2 DEF StaleTransitional, Transitional
      <4> QED
        BY <1>1, <1>2, <1>13, <4>3 DEF Bystander, In
    <3>2. ~In(q, {"checked"})
      <4>1. PlaceOf(q)
        BY <2>4 DEF HostInv
      <4> QED
        BY <2>1, <2>4, <4>1 DEF Known, Young, PlaceOf, In
    <3> QED
      BY <3>1, <3>2
  <2> QED
    BY <1>1, <1>3, <1>5, <1>8, <1>10, <1>11, <2>2, <2>3, <2>4, RequestStep
<1> QED
  BY <1>12, <1>13

\* An adoption that came to nothing has no lock and has yet to delete its row.
LEMMA DropMove ==
  ASSUME HostInv, NEW r \in Token, req[r].op = "adopt",
         In(r, {"checked", "committed"}), Goto(r, "drop"),
         KeysKept(r), \A e \in Entity : lock'[e] # r,
         UNCHANGED <<hstat, istat, cloudVars, sideVars, stranded>>
  PROVE  Advance
<1>1. Turns(r, "drop")
  BY PhaseMembers, RequestFacts, GotoTurns
<1>2. ~In(r, Parked) /\ ~Bystander(r)
  BY DEF In, Parked, Over, InstancePhases, Bystander
<1>3. NoYoung(r)
  BY <1>2, OutsiderAlone
<1>4. /\ tail' = tail /\ hstat' = hstat /\ ws' = ws /\ machine' = machine
      /\ istat' = istat /\ loose' = loose /\ stranded' = stranded
  BY DEF cloudVars, sideVars
<1>5. OthersKept(r) /\ DataTyped
  BY <1>1, <1>4, RequestFacts DEF OthersKept, DataTyped, Turns, Carries, RestTyped
<1>6. tail[r] = "none"
  BY <1>2, RequestFacts DEF PlaceOf, RestTyped, In, Parked
<1>7. req[r].held = {}
  BY RequestFacts DEF PlaceOf
<1>8. PlaceOf(r)'
  BY <1>1, <1>4, <1>6, <1>7 DEF PlaceOf, Turns, Carries, In, InstancePhases
<1>9. ~Young(r)'
  BY <1>1 DEF Young, Turns, Carries
<1>10. HostOf(r)'
  BY <1>9 DEF HostOf
<1>11. CloudOf(r)' /\ Cloud'
  BY <1>1, <1>2, <1>4, RequestFacts DEF CloudOf, Cloud, Turns, Carries, In
<1>12. LocksOf(r)' /\ Keeps(r)
  <2>1. ~In(r, HostOwning)' /\ ~In(r, InstanceOwning)'
    BY <1>1 DEF In, HostOwning, InstanceOwning, Turns
  <2>2. Holds(r)' = {}
    BY <2>1 DEF Holds
  <2> QED
    BY <2>2 DEF LocksOf, Keeps
<1>13. \A q \in Token \ {r} : Young(q) =>
         Bystander(r)' /\ (In(q, {"checked"}) => In(r, Parked)')
  BY <1>3 DEF NoYoung
<1> QED
  BY <1>3, <1>4, <1>5, <1>8, <1>9, <1>10, <1>11, <1>12, <1>13, RequestStep

\* Whoever only asks, has no lock; nor has an adoption to be dropped.
LEMMA AskerLockless ==
  ASSUME HostInv, NEW r \in Token, In(r, {"checked", "drop", "iadmitted", "ichecked"})
  PROVE  \A e \in Entity : lock[e] # r
BY RequestFacts DEF LocksOf, In, LockPhases, HostOwning

LEMMA RefusedInv ==
  ASSUME HostInv, NEW r \in Token, Refused(r)
  PROVE  Advance
<1>1. In(r, {"checked"}) /\ UNCHANGED redisVars
  BY DEF Refused, EntityRefused
<1>2. KeysKept(r) /\ lock' = lock
  BY <1>1, UnchangedKept, RequestFacts
<1>3. \A e \in Entity : lock'[e] # r
  BY <1>1, <1>2, AskerLockless DEF In
<1>4. CASE req[r].op = "adopt"
  <2>1. /\ In(r, {"checked", "committed"}) /\ Goto(r, "drop")
        /\ UNCHANGED <<hstat, istat, cloudVars, sideVars, stranded>>
    BY <1>4 DEF Refused, In
  <2> QED
    BY <1>2, <1>3, <1>4, <2>1, DropMove
<1>5. CASE req[r].op # "adopt"
  <2>1. /\ End(r, "done") /\ tail' = tail /\ hstat' = hstat
        /\ ws' = ws /\ machine' = machine
        /\ istat' = istat /\ loose' = loose /\ stranded' = stranded
    BY <1>5 DEF Refused, cloudVars, sideVars
  <2>2. DataTyped /\ Cloud'
    BY <2>1, RequestFacts DEF DataTyped, RestTyped, Cloud
  <2> QED
    BY <1>2, <1>3, <2>1, <2>2, EndStep
<1> QED
  BY <1>4, <1>5

\* The host's lock is the last a request has, and it gives it back.
LEMMA LastLock ==
  ASSUME HostInv, NEW r \in Token, In(r, LockPhases), req[r].held = {},
         ReleaseEntity(Host, r)
  PROVE  KeysKept(r) /\ \A e \in Entity : lock'[e] # r
<1>1. /\ KeysKept(r) /\ lock'[Host] # r
      /\ \A f \in Entity : f # Host => lock'[f] = lock[f]
  BY HostOpsAssumption, ReleaseKept, RequestFacts
<1>2. \A e \in Entity : lock[e] = r => e = Host
  BY RequestFacts DEF LocksOf, In, LockPhases, HostOwning
<1> QED
  BY <1>1, <1>2

\* A request that gave everything back is done.
LEMMA DoneStep ==
  ASSUME HostInv, NEW r \in Token, In(r, LockPhases), req[r].held = {},
         ReleaseEntity(Host, r), End(r, "done"), stranded' \in BOOLEAN,
         UNCHANGED <<hstat, istat, cloudVars, sideVars>>
  PROVE  Advance
<1>1. KeysKept(r) /\ \A e \in Entity : lock'[e] # r
  BY LastLock
<1>2. /\ tail' = tail /\ hstat' = hstat /\ ws' = ws /\ machine' = machine
      /\ istat' = istat /\ loose' = loose
  BY DEF cloudVars, sideVars
<1>3. DataTyped /\ Cloud'
  BY <1>2, RequestFacts DEF DataTyped, RestTyped, Cloud
<1> QED
  BY <1>1, <1>2, <1>3, EndStep

LEMMA EnqueueFailsInv ==
  ASSUME HostInv, NEW r \in Token, EnqueueFails(r)
  PROVE  Advance
<1>1. In(r, {"committed"}) /\ UNCHANGED <<hstat, istat, cloudVars, sideVars>>
  BY DEF EnqueueFails
<1>2. /\ tail' = tail /\ hstat' = hstat /\ ws' = ws /\ machine' = machine
      /\ istat' = istat /\ loose' = loose
  BY <1>1 DEF cloudVars, sideVars
<1>3. In(r, LockPhases) /\ In(r, HostOwning) /\ In(r, Early)
  BY <1>1 DEF In, LockPhases, HostOwning, Early
<1>4. CASE req[r].op \in {"resize", "rerun"}
  <2>1. Turns(r, "revert") /\ UNCHANGED redisVars /\ stranded' = stranded
    BY <1>4, PhaseMembers, RequestFacts, GotoTurns DEF EnqueueFails, LockPhases, HostOwning
  <2>2. Follows(r, "revert")
    BY <1>3, <1>4 DEF Follows, LockPhases, HostOwning, Early
  <2>3. OthersTyped
    BY <1>2, <2>1, RequestFacts DEF OthersTyped, RestTyped
  <2> QED
    BY <1>2, <2>1, <2>2, <2>3, PlainStep DEF Turns
<1>5. CASE req[r].op \notin {"resize", "rerun"}
  <2>1. ReleaseEntity(Host, r)
    BY <1>5 DEF EnqueueFails
  <2>2. req[r].held = {}
    BY <1>5, RequestFacts DEF PlaceOf
  <2>3. KeysKept(r) /\ \A e \in Entity : lock'[e] # r
    BY <1>3, <2>1, <2>2, LastLock
  <2>4. CASE req[r].op = "adopt"
    <3>1. In(r, {"checked", "committed"}) /\ Goto(r, "drop") /\ stranded' = stranded
      BY <1>1, <1>5, <2>4 DEF EnqueueFails, In
    <3> QED
      BY <1>1, <2>3, <2>4, <3>1, DropMove
  <2>5. CASE req[r].op # "adopt"
    <3>1. End(r, "done") /\ StrandBy(r)
      BY <1>5, <2>5 DEF EnqueueFails
    <3>2. stranded' \in BOOLEAN
      BY <3>1, RequestFacts DEF StrandBy
    <3> QED
      BY <1>1, <1>3, <2>1, <2>2, <3>1, <3>2, DoneStep
  <2> QED
    BY <2>4, <2>5
<1> QED
  BY <1>4, <1>5

\* Only a setup has provisioning behind it that may still look at the lock.
LEMMA JobTail ==
  ASSUME HostInv, NEW r \in Token, In(r, LockPhases), req[r].op # "setup"
  PROVE  tail[r] = "none"
<1>1. tail[r] \in {"none", "open"}
  BY RequestFacts DEF RestTyped
<1>2. ~In(r, Over)
  BY DEF In, LockPhases, HostOwning, Over
<1> QED
  BY <1>1, <1>2, RequestFacts DEF PlaceOf

\* The host's lock, as far as a request still relies on it.
Main(r) == IF req[r].robbed THEN {} ELSE {Host}

\* A re-run takes or gives back the lock of one instance.
LEMMA HeldStep ==
  ASSUME HostInv, NEW r \in Token, In(r, LockPhases), req[r].op = "rerun",
         req' \in [Token -> Request], \A s \in Token \ {r} : req'[s] = req[s],
         req'[r].phase = req[r].phase, req'[r].op = "rerun",
         req'[r].seen = req[r].seen, req'[r].robbed = req[r].robbed,
         KeysKept(r),
         In(r, HostOwning) => \A e \in Main(r) \cup req'[r].held : lock'[e] = r,
         \A e \in Entity : lock'[e] = r => e \in {Host} \cup req'[r].held,
         \/ req'[r].held \subseteq req[r].held
         \/ \E i \in Entity : lock[i] = None /\ req'[r].held = req[r].held \cup {i},
         UNCHANGED <<hstat, istat, cloudVars, sideVars, stranded>>
  PROVE  Advance
<1>1. NoYoung(r)
  BY AtWorkAlone DEF In
<1>2. /\ tail' = tail /\ hstat' = hstat /\ ws' = ws /\ machine' = machine
      /\ istat' = istat /\ loose' = loose /\ stranded' = stranded
  BY DEF cloudVars, sideVars
<1>3. OthersKept(r) /\ DataTyped
  BY <1>2, RequestFacts DEF OthersKept, DataTyped, RestTyped
<1>4. ~In(r, InstancePhases) /\ ~In(r, {"checked"}) /\ ~In(r, Over)
  BY DEF LockPhases, HostOwning, InstancePhases, Over, In
<1>5. PlaceOf(r)'
  BY <1>2, <1>4, RequestFacts DEF PlaceOf, In
<1>6. ~Young(r)'
  BY DEF Young
<1>7. HostOf(r)' /\ CloudOf(r)' /\ Cloud'
  BY <1>2, <1>6, RequestFacts DEF HostOf, CloudOf, Cloud
<1>9. /\ Holds(r) = IF In(r, HostOwning) THEN Main(r) \cup req[r].held ELSE {}
      /\ Holds(r)' = IF In(r, HostOwning) THEN Main(r) \cup req'[r].held ELSE {}
  <2>1. ~In(r, InstanceOwning) /\ ~In(r, InstanceOwning)'
    BY DEF In, LockPhases, HostOwning, InstanceOwning
  <2>2. In(r, HostOwning)' <=> In(r, HostOwning)
    BY DEF In
  <2> QED
    BY <2>1, <2>2 DEF Holds, Main
<1>10. LocksOf(r)'
  <2>1. In(r, LockPhases)'
    BY DEF In
  <2> QED
    BY <1>9, <2>1 DEF LocksOf
<1>11. \A q \in Token \ {r} : Young(q) =>
         Bystander(r)' /\ (In(q, {"checked"}) => In(r, Parked)')
  BY <1>1 DEF NoYoung
<1>12. Keeps(r) \/ Gains(r)
  <2>1. CASE req'[r].held \subseteq req[r].held \/ ~In(r, HostOwning)
    BY <1>9, <2>1 DEF Keeps
  <2>2. ASSUME In(r, HostOwning), NEW i \in Entity,
               lock[i] = None, req'[r].held = req[r].held \cup {i}
        PROVE  Gains(r)
    BY <1>9, <2>2 DEF Gains
  <2> QED
    BY <2>1, <2>2
<1> QED
  BY <1>1, <1>2, <1>3, <1>5, <1>6, <1>7, <1>10, <1>11, <1>12, RequestStep

\* What a re-run has of its locks while it has the host's.
LEMMA HolderFacts ==
  ASSUME HostInv, NEW r \in Token, req[r].op = "rerun", In(r, HostOwning)
  PROVE  /\ \A e \in Main(r) \cup req[r].held : lock[e] = r
         /\ \A e \in Entity : lock[e] = r => e \in {Host} \cup req[r].held
<1>2. ~In(r, InstanceOwning)
  BY DEF In, HostOwning, InstanceOwning
<1>3. Holds(r) = Main(r) \cup req[r].held
  BY <1>2 DEF Holds, Main
<1> QED
  BY <1>3, RequestFacts DEF LocksOf, In, HostOwning

LEMMA TakeInv ==
  ASSUME HostInv, NEW r \in Token, NEW i \in Instances, Take(r, i)
  PROVE  Advance
<1>1. In(r, {"taking"}) /\ i \in Entity /\ i # Host /\ AcquireEntity(i, r)
  BY DEF Take, Instances
<1>2. req[r].op = "rerun"
  BY <1>1, RequestFacts DEF PlaceOf, In
<1>3. In(r, HostOwning) /\ In(r, LockPhases)
  BY <1>1 DEF In, HostOwning, LockPhases
<1>4. /\ KeysKept(r) /\ lock[i] = None /\ lock'[i] = r
      /\ \A f \in Entity : f # i => lock'[f] = lock[f]
  BY <1>1, AcquireKept, RequestFacts
<1>5. /\ req' \in [Token -> Request] /\ \A s \in Token \ {r} : req'[s] = req[s]
      /\ req'[r].phase = req[r].phase /\ req'[r].op = "rerun"
      /\ req'[r].seen = req[r].seen /\ req'[r].robbed = req[r].robbed
      /\ req'[r].held = req[r].held \cup {i}
  <2>1. req[r] \in Request /\ req[r].held \cup {i} \in SUBSET Instances
    BY RequestFacts DEF Request, Take
  <2> DEFINE q == [req[r] EXCEPT !.todo = @ \ {i}, !.held = @ \cup {i}]
  <2>2. q \in Request /\ q.phase = req[r].phase /\ q.op = req[r].op
        /\ q.seen = req[r].seen /\ q.robbed = req[r].robbed
        /\ q.held = req[r].held \cup {i}
    BY <2>1 DEF Request
  <2>3. req' = [req EXCEPT ![r] = q]
    BY DEF Take
  <2> HIDE DEF q
  <2> QED
    BY <1>2, <2>2, <2>3, Becomes, RequestFacts
<1>6. req[r].held \subseteq Entity
  BY RequestFacts DEF Request, Instances
<1>7. /\ \A e \in Main(r) \cup req'[r].held : lock'[e] = r
      /\ \A e \in Entity : lock'[e] = r => e \in {Host} \cup req'[r].held
  BY <1>1, <1>2, <1>3, <1>4, <1>5, <1>6, HolderFacts, HostOpsAssumption, NoneAssumption
     DEF Main
<1>8. \E e \in Entity : lock[e] = None /\ req'[r].held = req[r].held \cup {e}
  BY <1>1, <1>4, <1>5
<1> QED
  BY <1>2, <1>3, <1>4, <1>5, <1>7, <1>8, HeldStep DEF Take

LEMMA ReleaseHeldInv ==
  ASSUME HostInv, NEW r \in Token, ReleaseHeld(r)
  PROVE  Advance
<1>1. PICK i \in req[r].held : /\ ReleaseEntity(i, r)
                               /\ req' = [req EXCEPT ![r].held = @ \ {i}]
  BY DEF ReleaseHeld
<1>2. req[r].held \subseteq Instances
  BY RequestFacts DEF Request
<1>3. i \in Entity /\ i # Host
  BY <1>1, <1>2 DEF Instances
<1>4. In(r, LockPhases) /\ ~In(r, {"checked"})
  BY DEF ReleaseHeld, In, LockPhases, HostOwning
<1>5. req[r].op = "rerun"
  BY <1>1, RequestFacts DEF PlaceOf
<1>6. /\ KeysKept(r) /\ lock'[i] # r
      /\ \A f \in Entity : f # i => lock'[f] = lock[f]
  BY <1>1, <1>3, ReleaseKept, RequestFacts
<1>7. /\ req' \in [Token -> Request] /\ \A s \in Token \ {r} : req'[s] = req[s]
      /\ req'[r].phase = req[r].phase /\ req'[r].op = "rerun"
      /\ req'[r].seen = req[r].seen /\ req'[r].robbed = req[r].robbed
      /\ req'[r].held = req[r].held \ {i}
  <2> DEFINE q == [req[r] EXCEPT !.held = @ \ {i}]
  <2>1. q \in Request /\ q.phase = req[r].phase /\ q.op = req[r].op
        /\ q.seen = req[r].seen /\ q.robbed = req[r].robbed
        /\ q.held = req[r].held \ {i}
    BY RequestFacts DEF Request
  <2>2. req' = [req EXCEPT ![r] = q]
    BY <1>1
  <2> HIDE DEF q
  <2> QED
    BY <1>5, <2>1, <2>2, Becomes, RequestFacts
<1>8. In(r, HostOwning) => \A e \in Main(r) \cup req'[r].held : lock'[e] = r
  <2>1. In(r, HostOwning) => \A e \in Main(r) \cup req[r].held : lock[e] = r
    BY <1>5, HolderFacts
  <2>2. \A e \in Main(r) \cup req'[r].held : e \in Entity /\ e # i
    BY <1>2, <1>3, <1>7, HostOpsAssumption DEF Instances, Main
  <2> QED
    BY <1>6, <1>7, <2>1, <2>2
<1>9. \A e \in Entity : lock'[e] = r => e \in {Host} \cup req'[r].held
  <2>1. \A e \in Entity : lock[e] = r => e \in {Host} \cup req[r].held
    BY <1>4, RequestFacts DEF LocksOf, In, LockPhases, HostOwning
  <2> QED
    BY <1>6, <1>7, <2>1
<1> QED
  BY <1>4, <1>5, <1>6, <1>7, <1>8, <1>9, HeldStep DEF ReleaseHeld

\* A request that only asks or works as a route has no provisioning to finish.
LEMMA RouteTail ==
  ASSUME HostInv, NEW r \in Token, In(r, Early \cup {"letgo", "drop"})
  PROVE  tail[r] = "none"
<1>1. tail[r] \in {"none", "open"}
  BY RequestFacts DEF RestTyped
<1>2. ~In(r, Over) /\ ~In(r, {"queued", "running", "ok", "bad", "finishing"})
  BY DEF In, Early, Over
<1> QED
  BY <1>1, <1>2, RequestFacts DEF PlaceOf

\* A step of a route that changes the bookkeeping of the request alone.
LEMMA RouteMove ==
  ASSUME HostInv, NEW r \in Token, NEW p, Follows(r, p), Carries(r),
         req'[r].phase = p, p \in Early => req'[r].seen = req[r].seen,
         p \notin {"handoff", "running", "ok"},
         UNCHANGED <<redisVars, hstat, istat, cloudVars, sideVars, stranded>>
  PROVE  Advance
<1>1. /\ tail' = tail /\ hstat' = hstat /\ ws' = ws /\ machine' = machine
      /\ istat' = istat /\ loose' = loose /\ stranded' = stranded
      /\ UNCHANGED redisVars
  BY DEF cloudVars, sideVars
<1>2. OthersTyped
  BY <1>1, RequestFacts DEF OthersTyped, RestTyped
<1> QED
  BY <1>1, <1>2, PlainStep

LEMMA CommitInv ==
  ASSUME HostInv, NEW r \in Token, Commit(r)
  PROVE  Advance
<1> DEFINE p == IF req[r].op = "rerun" THEN "listing" ELSE "committed"
<1>1. In(r, {"locked"}) /\ SetHost(RouteWrites(req[r].op)) /\ Goto(r, p)
  BY DEF Commit
<1>2. /\ tail' = tail /\ ws' = ws /\ machine' = machine /\ istat' = istat
      /\ loose' = loose /\ UNCHANGED redisVars
  BY DEF Commit, cloudVars, sideVars
<1>3. p \in {"listing", "committed"} /\ p \in Phase
  BY DEF Phase
<1>4. Turns(r, p)
  BY <1>1, <1>3, RequestFacts, GotoTurns
<1>5. In(r, Early \cup {"letgo", "drop"})
  BY <1>1 DEF In, Early
<1>6. tail[r] = "none"
  BY <1>5, RouteTail
<1>7. Follows(r, p)
  <2>1. req[r].op # "setup"
    BY <1>1, RequestFacts DEF PlaceOf, In
  <2> QED
    BY <1>1, <1>3, <2>1 DEF Follows, In, LockPhases, HostOwning, Early
<1>8. RouteWrites(req[r].op) \in (HostStatus \ {"absent"}) \cup {"keep"}
  BY DEF RouteWrites, HostStatus, Transitional
<1>9. RowKept /\ stranded' \in BOOLEAN
  BY <1>1, <1>8, RequestFacts, SetHostEffect DEF RowKept
<1>10. OthersTyped
  BY <1>2, <1>9, RequestFacts DEF OthersTyped, RestTyped
<1> HIDE DEF p
<1> QED
  BY <1>2, <1>3, <1>4, <1>6, <1>7, <1>9, <1>10, StatusStep DEF Turns

LEMMA RevertInv ==
  ASSUME HostInv, NEW r \in Token, Revert(r)
  PROVE  Advance
<1>1. In(r, {"revert"}) /\ SetHost(req[r].seen) /\ Goto(r, "letgo")
  BY DEF Revert
<1>2. /\ tail' = tail /\ ws' = ws /\ machine' = machine /\ istat' = istat
      /\ loose' = loose /\ UNCHANGED redisVars
  BY DEF Revert, cloudVars, sideVars
<1>3. Turns(r, "letgo")
  BY <1>1, RequestFacts, GotoTurns DEF Phase
<1>4. tail[r] = "none"
  BY <1>1, RouteTail DEF In, Early
<1>5. req[r].op \in {"rerun", "resize"} /\ req[r].seen \in {"active", "error"}
  BY <1>1, RequestFacts DEF PlaceOf, In
<1>6. Follows(r, "letgo")
  BY <1>1, <1>5 DEF Follows, In, LockPhases, HostOwning, Early
<1>7. req[r].seen \in (HostStatus \ {"absent"}) \cup {"keep"}
  BY <1>5 DEF HostStatus, Transitional
<1>8. RowKept /\ stranded' \in BOOLEAN
  BY <1>1, <1>7, RequestFacts, SetHostEffect DEF RowKept
<1>9. OthersTyped
  BY <1>2, <1>8, RequestFacts DEF OthersTyped, RestTyped
<1> QED
  BY <1>2, <1>3, <1>4, <1>6, <1>8, <1>9, StatusStep DEF Turns

LEMMA DropInv ==
  ASSUME HostInv, NEW r \in Token, Drop(r)
  PROVE  Advance
<1>1. In(r, {"drop"}) /\ End(r, "done") /\ UNCHANGED redisVars
  BY DEF Drop
<1>2. /\ tail' = tail /\ ws' = ws /\ machine' = machine /\ loose' = loose
      /\ hstat' = "absent" /\ istat' = NoSnap /\ stranded' = FALSE
  BY DEF Drop, cloudVars, sideVars
<1>3. DataTyped
  BY <1>2, NoSnapType, RequestFacts DEF DataTyped, RestTyped, HostStatus
<1>4. ~ws
  BY <1>1, RequestFacts DEF PlaceOf, CloudOf, In, Parked, Over, InstancePhases
<1>5. Cloud'
  BY <1>2, <1>4, RequestFacts DEF Cloud
<1>6. KeysKept(r) /\ lock' = lock
  BY <1>1, UnchangedKept, RequestFacts
<1>7. \A e \in Entity : lock'[e] # r
  BY <1>1, <1>6, AskerLockless DEF In
<1>8. NoYoung(r)
  BY <1>1, AtWorkAlone DEF In
<1> QED
  BY <1>1, <1>2, <1>3, <1>5, <1>6, <1>7, <1>8, EndStep

LEMMA WebCrashInv ==
  ASSUME HostInv, NEW r \in Token, WebCrash(r)
  PROVE  Advance
<1>1. End(r, "gone") /\ StrandBy(r) /\ UNCHANGED redisVars
  BY DEF WebCrash
<1>2. /\ tail' = tail /\ ws' = ws /\ machine' = machine /\ loose' = loose
      /\ hstat' = hstat /\ istat' = istat
  BY DEF WebCrash, cloudVars, sideVars
<1>3. stranded' \in BOOLEAN
  BY <1>1, RequestFacts DEF StrandBy
<1>4. DataTyped /\ Cloud'
  BY <1>2, <1>3, RequestFacts DEF DataTyped, RestTyped, Cloud
<1>5. KeysKept(r)
  BY <1>1, UnchangedKept, RequestFacts
<1> QED
  BY <1>1, <1>2, <1>4, <1>5, EndStep

\* A deletion that found its host stuck takes the lock from whoever has it. No
\* new host is being made then.
LEMMA ForceReleaseInv ==
  ASSUME HostInv, NEW r \in Token, ForceRelease(r)
  PROVE  Advance
<1>1. /\ In(r, {"checked"}) /\ req[r].op = "delete"
      /\ req[r].seen \in StaleTransitional /\ ForceReleaseEntity(Host) /\ Robs(r)
  BY DEF ForceRelease, FoundStuck
<1>2. ~Bystander(r) /\ ~Young(r)
  BY <1>1 DEF Bystander, Young, In, Parked, Over, InstancePhases
<1>3. \A s \in Token : ~Young(s)
  BY <1>2, OutsiderAlone DEF NoYoung
<1>4. /\ hstat' = hstat /\ ws' = ws /\ machine' = machine /\ tail' = tail
      /\ istat' = istat /\ loose' = loose /\ stranded' = stranded
  BY DEF ForceRelease, cloudVars, sideVars
<1>5. ASSUME NEW s \in Token
      PROVE  /\ req'[s] \in Request
             /\ req'[s].phase = req[s].phase /\ req'[s].op = req[s].op
             /\ req'[s].held = req[s].held /\ req'[s].inst = req[s].inst
             /\ s # r => req'[s].seen = req[s].seen
             /\ req'[s].robbed <=> req[s].robbed \/ (lock[Host] = s /\ In(s, HostOwning))
  <2> DEFINE n == IF s = r THEN "absent" ELSE req[s].seen
             b == req[s].robbed \/ (lock[Host] = s /\ In(s, HostOwning))
             q == [req[s] EXCEPT !.seen = n, !.robbed = b]
  <2>1. req[s] \in Request /\ n \in HostStatus /\ b \in BOOLEAN
    BY RequestFacts DEF Request, HostStatus
  <2>2. req'[s] = q
    BY <1>1 DEF Robs
  <2>3. s # r => n = req[s].seen
    OBVIOUS
  <2> HIDE DEF n
  <2>4. b <=> req[s].robbed \/ (lock[Host] = s /\ In(s, HostOwning))
    OBVIOUS
  <2> HIDE DEF b
  <2>5. /\ q \in Request /\ q.phase = req[s].phase /\ q.op = req[s].op
        /\ q.held = req[s].held /\ q.inst = req[s].inst /\ q.seen = n /\ q.robbed = b
    BY <2>1 DEF Request
  <2> HIDE DEF q
  <2> QED
    BY <2>2, <2>3, <2>4, <2>5
<1>6. req' \in [Token -> Request]
  BY <1>1, <1>5 DEF Robs
<1>7. \A s \in Token : \A P : In(s, P)' <=> In(s, P)
  BY <1>5 DEF In
<1>8. /\ RedisInv' /\ lock'[Host] = None
      /\ \A f \in Entity : f # Host => lock'[f] = lock[f]
  BY <1>1, RequestFacts, HostOpsAssumption, ForceReleaseEntityInv
     DEF ForceReleaseEntity, RedisInv, RedisTypeOK
<1>9. RestTyped'
  BY <1>4, <1>6, <1>8, RequestFacts DEF RestTyped, RedisInv
<1>10. \A s \in Token : ~Young(s)'
  BY <1>3, <1>5, <1>7 DEF Young
<1>11. ASSUME NEW s \in Token
       PROVE  PlaceOf(s)' /\ HostOf(s)' /\ CloudOf(s)'
  <2>1. PlaceOf(s) /\ CloudOf(s)
    BY RequestFacts
  <2>2. In(s, {"checked"}) \/ req[s].op = "provision" => ~req'[s].robbed
    <3>1. In(s, {"checked"}) => ~In(s, HostOwning)
      BY DEF In, HostOwning
    <3>2. req[s].op = "provision" => ~In(s, HostOwning)
      BY <1>3, <2>1 DEF Young, In, PlaceOf
    <3> QED
      BY <1>5, <2>1, <3>1, <3>2 DEF PlaceOf
  <2>3. PlaceOf(s)'
    BY <1>1, <1>4, <1>5, <1>7, <2>1, <2>2 DEF PlaceOf
  <2> QED
    BY <1>4, <1>5, <1>7, <1>10, <2>1, <2>3 DEF HostOf, CloudOf
<1>12. ASSUME NEW s \in Token
       PROVE  Holds(s)' = Holds(s) \ {Host} /\ (Host \in Holds(s) => lock[Host] = s)
  <2>1. LocksOf(s) /\ PlaceOf(s) /\ req[s] \in Request
    BY RequestFacts
  <2>2. CASE In(s, HostOwning)
    <3>0. ~In(s, InstanceOwning)
      BY <2>2 DEF In, HostOwning, InstanceOwning
    <3>1. Host \notin req[s].held
      BY <2>1 DEF Request, Instances
    <3>2. Holds(s) = (IF req[s].robbed THEN {} ELSE {Host}) \cup req[s].held
      BY <2>2, <3>0 DEF Holds
    <3>3. Holds(s)' = (IF req'[s].robbed THEN {} ELSE {Host}) \cup req[s].held
      BY <1>5, <1>7, <2>2, <3>0 DEF Holds
    <3>4. Host \in Holds(s) => lock[Host] = s
      BY <2>1 DEF LocksOf
    <3>5. req'[s].robbed <=> req[s].robbed \/ lock[Host] = s
      BY <1>5, <2>2
    <3> QED
      BY <3>1, <3>2, <3>3, <3>4, <3>5
  <2>3. CASE In(s, InstanceOwning) /\ ~In(s, HostOwning)
    <3>1. req[s].inst # Host
      BY <2>1, <2>3 DEF PlaceOf, In, InstanceOwning, InstancePhases, Instances
    <3>2. Holds(s) = {req[s].inst} /\ Holds(s)' = {req[s].inst}
      BY <1>5, <1>7, <2>3 DEF Holds
    <3> QED
      BY <3>1, <3>2
  <2>4. CASE ~In(s, InstanceOwning) /\ ~In(s, HostOwning)
    BY <1>7, <2>4 DEF Holds
  <2> QED
    BY <2>2, <2>3, <2>4
<1>13. ASSUME NEW s \in Token
       PROVE  LocksOf(s)'
  <2>1. LocksOf(s) /\ Holds(s) \subseteq Entity
    BY RequestFacts, HoldsEntities
  <2>2. \A e \in Holds(s)' : lock'[e] = s
    BY <1>8, <1>12, <2>1 DEF LocksOf
  <2>3. \A e \in Entity : lock'[e] = s => lock[e] = s
    BY <1>8, NoneAssumption
  <2> QED
    BY <1>5, <1>7, <2>1, <2>2, <2>3 DEF LocksOf
<1>14. NewHostAlone' /\ Cloud' /\ YoungKept
  BY <1>4, <1>10, RequestFacts DEF NewHostAlone, Cloud, YoungKept
<1>15. ExStep
  <2> DEFINE W == [s \in Token |-> Holds(s)]
  <2>1. CASE \A s \in Token : Host \notin Holds(s)
    <3>1. \A s \in Token : Holds(s)' = Holds(s)
      BY <1>12, <2>1
    <3>2. W' = W
      BY <3>1
    <3> QED
      BY <3>2 DEF ExStep, Exclusion!exclusionVars
  <2>2. ASSUME NEW h \in Token, Host \in Holds(h)
        PROVE  ExStep
    <3>1. ASSUME NEW s \in Token \ {h}
          PROVE  Holds(s)' = Holds(s)
      <4>1. Host \notin Holds(s)
        BY <1>12, <2>2
      <4> QED
        BY <1>12, <4>1
    <3>2. W' = [W EXCEPT ![h] = @ \ {Host}]
      BY <1>12, <3>1
    <3>3. Exclusion!Finish(h, {Host})
      BY <2>2, <3>2 DEF Exclusion!Finish
    <3> QED
      BY <3>3, HostOpsAssumption DEF ExStep, Exclusion!Next
  <2> QED
    BY <2>1, <2>2
<1> QED
  BY <1>8, <1>9, <1>11, <1>13, <1>14, <1>15 DEF HostInv, Advance

LEMMA RouteInv ==
  ASSUME HostInv, NEW r \in Token, RouteStep(r)
  PROVE  Advance
<1>1. ASSUME List(r)
      PROVE  Advance
  <2>1. In(r, {"listing"}) /\ req[r].op = "rerun"
    BY <1>1, RequestFacts DEF List, PlaceOf, In
  <2>2. Turns(r, "taking")
    <3>1. "taking" \in Phase /\ Present \in SUBSET Instances
      BY DEF Phase, Present
    <3> QED
      BY <1>1, <3>1, RequestFacts, TodoTurns DEF List
  <2>3. Follows(r, "taking")
    BY <2>1 DEF Follows, In, LockPhases, HostOwning, Early
  <2> QED
    BY <1>1, <2>2, <2>3, RouteMove DEF List, Turns
<1>2. ASSUME NEW i \in Instances, TakeRefused(r, i)
      PROVE  Advance
  <2>1. In(r, {"taking"}) /\ req[r].op = "rerun" /\ UNCHANGED redisVars
    BY <1>2, RequestFacts DEF TakeRefused, PlaceOf, In, EntityRefused
  <2>2. Turns(r, "backoff")
    <3>1. "backoff" \in Phase /\ {} \in SUBSET Instances
      BY DEF Phase
    <3>2. req' = [req EXCEPT ![r].phase = "backoff", ![r].todo = {}]
      BY <1>2 DEF TakeRefused
    <3> QED
      BY <3>1, <3>2, RequestFacts, TodoTurns
  <2>3. Follows(r, "backoff")
    BY <2>1 DEF Follows, In, LockPhases, HostOwning, Early
  <2> QED
    BY <1>2, <2>1, <2>2, <2>3, RouteMove DEF TakeRefused, Turns
<1>3. ASSUME TakenAll(r)
      PROVE  Advance
  <2>1. In(r, {"taking"}) /\ req[r].op = "rerun"
    BY <1>3, RequestFacts DEF TakenAll, PlaceOf, In
  <2>2. Turns(r, "committed")
    BY <1>3, RequestFacts, GotoTurns DEF TakenAll, Phase
  <2>3. Follows(r, "committed")
    BY <2>1 DEF Follows, In, LockPhases, HostOwning, Early
  <2> QED
    BY <1>3, <2>2, <2>3, RouteMove DEF TakenAll, Turns
<1>4. ASSUME BackedOff(r)
      PROVE  Advance
  <2>1. In(r, {"backoff"}) /\ req[r].op = "rerun"
    BY <1>4, RequestFacts DEF BackedOff, PlaceOf, In
  <2>2. Turns(r, "revert")
    BY <1>4, RequestFacts, GotoTurns DEF BackedOff, Phase
  <2>3. Follows(r, "revert")
    BY <2>1 DEF Follows, In, LockPhases, HostOwning, Early
  <2> QED
    BY <1>4, <2>2, <2>3, RouteMove DEF BackedOff, Turns
<1>5. ASSUME Unlock(r)
      PROVE  Advance
  <2>1. In(r, LockPhases)
    BY <1>5 DEF Unlock, In, LockPhases, HostOwning
  <2>2. stranded' \in BOOLEAN
    BY <1>5, RequestFacts DEF Unlock
  <2> QED
    BY <1>5, <2>1, <2>2, DoneStep DEF Unlock
<1>6. ASSUME Enqueue(r)
      PROVE  Advance
  <2>1. In(r, {"committed"})
    BY <1>6 DEF Enqueue
  <2>2. Carries(r) /\ req'[r].phase = "queued"
    <3>1. "queued" \in Phase /\ "absent" \in HostStatus
      BY DEF Phase, HostStatus
    <3> QED
      BY <1>6, <3>1, SeenCarries, RequestFacts DEF Enqueue
  <2>3. Follows(r, "queued")
    BY <2>1, RequestFacts DEF Follows, In, LockPhases, HostOwning, Early, PlaceOf
  <2>4. "queued" \notin Early
    BY DEF Early
  <2> QED
    BY <1>6, <2>2, <2>3, <2>4, RouteMove DEF Enqueue
<1> QED
  BY <1>1, <1>2, <1>3, <1>4, <1>5, <1>6, ForceReleaseInv, AcquireInv, RefusedInv,
     CommitInv, TakeInv, ReleaseHeldInv, RevertInv, EnqueueFailsInv, DropInv DEF RouteStep

-----------------------------------------------------------------------------
(* Operations on instances, restarts without a lock, and lost keys.        *)

LEMMA ICheckInv ==
  ASSUME HostInv, NEW r \in Token, NEW o \in InstanceOp, NEW i \in Instances,
         ICheck(r, o, i)
  PROVE  Advance
<1> DEFINE p == IF o = "create" THEN "iadmitted" ELSE "ichecked"
<1>1. Fresh(r) /\ UNCHANGED redisVars /\ tail' = tail
  BY DEF ICheck, sideVars
<1>2. /\ KeysKept(r) /\ \A e \in Entity : lock'[e] # r
      /\ tail' \in [Token -> {"none", "open"}] /\ tail'[r] = "none"
      /\ \A s \in Token \ {r} : tail'[s] = tail[s]
  BY <1>1, FreshFacts
<1>3. p \in {"iadmitted", "ichecked"}
  OBVIOUS
<1>4. /\ req' \in [Token -> Request] /\ \A s \in Token \ {r} : req'[s] = req[s]
      /\ req'[r].phase = p /\ req'[r].inst = i
      /\ req'[r].held = {} /\ req'[r].op = o
  <2>1. NoRequest \in Request
    BY DEF NoRequest, Request, Phase, NoSnap, InstanceStatus, HostStatus
  <2>2. p \in Phase
    BY PhaseMembers
  <2>3. [NoRequest EXCEPT !.phase = p, !.op = o, !.inst = i] \in Request
    BY <2>1, <2>2 DEF Request
  <2>4. req' = [req EXCEPT ![r] = [NoRequest EXCEPT !.phase = p, !.op = o, !.inst = i]]
    BY DEF ICheck
  <2> HIDE DEF p
  <2> QED
    BY <2>3, <2>4, RequestFacts DEF Request, NoRequest
<1>5. /\ hstat' = hstat /\ ws' = ws /\ machine' = machine
      /\ istat' = istat /\ loose' = loose /\ stranded' = stranded
  BY DEF ICheck, cloudVars, sideVars
<1>6. OthersTyped
  BY <1>5, RequestFacts DEF OthersTyped, RestTyped
<1>7. p \in InstancePhases /\ p \notin InstanceOwning
  BY <1>3 DEF InstancePhases, InstanceOwning
<1> HIDE DEF p
<1> QED
  BY <1>2, <1>4, <1>5, <1>6, <1>7, InstanceMove

\* What is known of an operation on an instance.
LEMMA InstanceFacts ==
  ASSUME HostInv, NEW r \in Token, In(r, InstancePhases)
  PROVE  /\ req[r].inst \in Instances /\ req[r].inst \in Entity
         /\ req[r].inst # Host
         /\ tail[r] = "none" /\ req[r].op \in InstanceOp /\ req[r].held = {}
         /\ In(r, InstanceOwning) => lock[req[r].inst] = r
         /\ \A e \in Entity : lock[e] = r =>
              In(r, {"ilocked", "iworking", "ifinishing"}) /\ e = req[r].inst
<1>0. req[r].inst \in Instances /\ req[r].op \in InstanceOp
  BY RequestFacts DEF PlaceOf
<1>1. req[r].op # "setup" /\ req[r].op # "rerun"
  BY <1>0 DEF InstanceOp
<1>2. ~In(r, Over) /\ ~In(r, LockPhases) /\ ~In(r, HostOwning)
  BY DEF In, InstancePhases, Over, LockPhases, HostOwning
<1>3. tail[r] = "none" /\ req[r].held = {}
  BY <1>1, <1>2, RequestFacts DEF PlaceOf, RestTyped
<1>4. In(r, InstanceOwning) => lock[req[r].inst] = r
  <2>1. In(r, InstanceOwning) => Holds(r) = {req[r].inst}
    BY <1>2 DEF Holds
  <2> QED
    BY <2>1, RequestFacts DEF LocksOf
<1>5. \A e \in Entity : lock[e] = r =>
        In(r, {"ilocked", "iworking", "ifinishing"}) /\ e = req[r].inst
  BY <1>2, RequestFacts DEF LocksOf, In, Over
<1> QED
  BY <1>0, <1>3, <1>4, <1>5 DEF Instances

\* It goes on.
LEMMA InstanceTurn ==
  ASSUME HostInv, NEW r \in Token, In(r, InstancePhases), NEW p \in InstancePhases,
         Goto(r, p), KeysKept(r), OthersTyped,
         p \in InstanceOwning => lock'[req[r].inst] = r,
         p \in InstanceOwning => In(r, InstanceOwning) \/ lock[req[r].inst] = None,
         \A e \in Entity : lock'[e] = r =>
            p \in {"ilocked", "iworking", "ifinishing"} /\ e = req[r].inst,
         UNCHANGED <<hstat, cloudVars, sideVars>>
  PROVE  Advance
<1>1. p \in Phase
  BY PhaseMembers DEF InstancePhases
<1>2. Turns(r, p)
  BY <1>1, RequestFacts, GotoTurns
<1>3. hstat' = hstat /\ ws' = ws /\ machine' = machine /\ tail' = tail
  BY DEF cloudVars, sideVars
<1>4. tail' \in [Token -> {"none", "open"}]
  BY <1>3, RequestFacts DEF RestTyped
<1> QED
  BY <1>2, <1>3, <1>4, InstanceFacts, InstanceMove DEF Turns, Carries

\* It ends, with no lock left.
LEMMA InstanceEnd ==
  ASSUME HostInv, NEW r \in Token, In(r, InstancePhases), End(r, "done"),
         KeysKept(r), \A e \in Entity : lock'[e] # r,
         UNCHANGED <<hstat, istat, cloudVars, sideVars, stranded>>
  PROVE  Advance
<1>1. /\ hstat' = hstat /\ ws' = ws /\ machine' = machine /\ tail' = tail
      /\ istat' = istat /\ loose' = loose /\ stranded' = stranded
  BY DEF cloudVars, sideVars
<1>2. DataTyped /\ Cloud'
  BY <1>1, RequestFacts DEF DataTyped, RestTyped, Cloud
<1> QED
  BY <1>1, <1>2, EndStep

LEMMA InstanceInv ==
  ASSUME HostInv, NEW r \in Token, InstanceStep(r)
  PROVE  Advance
<1> DEFINE i == req[r].inst
<1>0. RedisInv /\ istat \in [Instances -> InstanceStatus]
      /\ loose \in [Instances -> {"none", "queued", "running"}] /\ stranded \in BOOLEAN
  BY RequestFacts DEF RestTyped
<1>a. In(r, InstancePhases)
  BY DEF InstanceStep, IInsert, IAcquire, IRefused, ICommit, IRecord, IFinish, In,
         InstancePhases
<1>b. /\ i \in Instances /\ i \in Entity
      /\ \A e \in Entity : lock[e] = r =>
            In(r, {"ilocked", "iworking", "ifinishing"}) /\ e = i
      /\ In(r, InstanceOwning) => lock[i] = r
  BY <1>a, InstanceFacts
<1>c. {"ichecked", "ilocked", "iworking", "ifinishing"} \subseteq InstancePhases
  BY DEF InstancePhases
<1>d. {"absent", "busy", "deleting", "settled", "stopped"} \subseteq InstanceStatus
  BY DEF InstanceStatus
<1>1. ASSUME IInsert(r)
      PROVE  Advance
  <2>1. KeysKept(r) /\ \A e \in Entity : lock'[e] # r
    BY <1>0, <1>1, <1>b, UnchangedKept DEF IInsert, In
  <2>2. CASE istat[i] = "absent"
    <3>1. OthersTyped
      BY <1>0, <1>1, <1>d, <2>2 DEF IInsert, OthersTyped, sideVars
    <3> QED
      BY <1>1, <1>a, <1>c, <2>1, <2>2, <3>1, InstanceTurn DEF IInsert, InstanceOwning
  <2>3. CASE istat[i] # "absent"
    BY <1>1, <1>a, <2>1, <2>3, InstanceEnd DEF IInsert
  <2> QED
    BY <2>2, <2>3
<1>2. ASSUME IAcquire(r)
      PROVE  Advance
  <2>1. /\ KeysKept(r) /\ lock[i] = None /\ lock'[i] = r
        /\ \A f \in Entity : f # i => lock'[f] = lock[f]
    BY <1>0, <1>2, <1>b, AcquireKept DEF IAcquire
  <2>2. \A e \in Entity : lock'[e] = r => e = i
    BY <1>2, <1>b, <2>1 DEF IAcquire, In
  <2>3. OthersTyped
    BY <1>0, <1>2 DEF IAcquire, OthersTyped, sideVars
  <2> QED
    BY <1>2, <1>a, <1>c, <2>1, <2>2, <2>3, InstanceTurn DEF IAcquire
<1>3. ASSUME IRefused(r)
      PROVE  Advance
  <2>1. KeysKept(r) /\ \A e \in Entity : lock'[e] # r
    BY <1>0, <1>3, <1>b, UnchangedKept DEF IRefused, EntityRefused, In
  <2> QED
    BY <1>3, <1>a, <2>1, InstanceEnd DEF IRefused
<1>4. ASSUME ICommit(r)
      PROVE  Advance
  <2>1. KeysKept(r) /\ lock' = lock
    BY <1>0, <1>4, UnchangedKept DEF ICommit
  <2>2. In(r, InstanceOwning) /\ lock[i] = r
    BY <1>4, <1>b DEF ICommit, In, InstanceOwning
  <2>3. OthersTyped
    BY <1>0, <1>4, <1>d, SetInstanceType DEF ICommit, OthersTyped, sideVars
  <2>4. Goto(r, "ifinishing") \/ Goto(r, "iworking")
    BY <1>4 DEF ICommit
  <2>5. \A e \in Entity : lock[e] = r => e = i
    BY <1>b
  <2> QED
    BY <1>4, <1>a, <1>c, <2>1, <2>2, <2>3, <2>4, <2>5, InstanceTurn DEF ICommit
<1>5. ASSUME IRecord(r)
      PROVE  Advance
  <2>1. KeysKept(r) /\ lock' = lock
    BY <1>0, <1>5, UnchangedKept DEF IRecord
  <2>2. "ifinishing" \notin InstanceOwning
    BY DEF InstanceOwning
  <2>3. OthersTyped
    BY <1>0, <1>5, <1>d, SetInstanceType DEF IRecord, OthersTyped, sideVars
  <2>4. \A e \in Entity : lock[e] = r => e = i
    BY <1>b
  <2> QED
    BY <1>5, <1>a, <1>c, <2>1, <2>2, <2>3, <2>4, InstanceTurn DEF IRecord
<1>6. ASSUME IFinish(r)
      PROVE  Advance
  <2>1. /\ KeysKept(r) /\ lock'[i] # r
        /\ \A f \in Entity : f # i => lock'[f] = lock[f]
    BY <1>0, <1>6, <1>b, ReleaseKept DEF IFinish
  <2>2. \A e \in Entity : lock'[e] # r
    BY <1>b, <2>1
  <2> QED
    BY <1>6, <1>a, <2>1, <2>2, InstanceEnd DEF IFinish
<1> QED
  BY <1>1, <1>2, <1>3, <1>4, <1>5, <1>6 DEF InstanceStep

\* While a request works, nobody's patience ends and no TTL runs out.
LEMMA LostKeyInv ==
  ASSUME HostInv, NEW e \in Entity, NEW h \in Token, lock[e] = h, e \notin Holds(h),
         RedisInv', \A f \in Entity : f # e => lock'[f] = lock[f], lock'[e] = None,
         UNCHANGED <<hstat, istat, cloudVars, req, sideVars, stranded>>
  PROVE  Advance
<1>1. /\ hstat' = hstat /\ ws' = ws /\ machine' = machine /\ tail' = tail
      /\ istat' = istat /\ loose' = loose /\ stranded' = stranded /\ req' = req
  BY DEF cloudVars, sideVars
<1>2. DataTyped
  BY <1>1, RequestFacts DEF DataTyped, RestTyped, HostInv
<1>3. \A f \in Entity, s \in Token : lock'[f] = s => lock[f] = s
  BY NoneAssumption
<1>4. ASSUME NEW s \in Token, NEW f \in Holds(s), lock[f] = s
      PROVE  lock'[f] = s
  <2>1. f # e
    BY <1>4
  <2>2. f \in Entity
    BY <1>4, HostOpsAssumption
       DEF Holds, HostInv, RestTyped, Request, Instances, PlaceOf, In, InstanceOwning,
           InstancePhases
  <2> QED
    BY <1>4, <2>1, <2>2
<1> QED
  BY <1>1, <1>2, <1>3, <1>4, QuietStep

LEMMA ExpireInv ==
  ASSUME HostInv, Punctual, NEW e \in Entity, Expire(e)
  PROVE  Advance
<1>1. PICK h \in Token : lock[e] = h /\ e \notin Holds(h)
  BY DEF Expire, Punctual
<1>2. ExpireEntity(e) /\ RedisInv
  BY DEF Expire, HostInv
<1>3. RedisInv'
  BY <1>2, ExpireEntityInv
<1>4. lock'[e] = None /\ \A f \in Entity : f # e => lock'[f] = lock[f]
  BY <1>2 DEF ExpireEntity, RedisInv, RedisTypeOK
<1> QED
  BY <1>1, <1>3, <1>4, LostKeyInv DEF Expire

LEMMA LooseInv ==
  ASSUME HostInv, NEW i \in Instances, LooseStep(i)
  PROVE  Advance
<1>1. /\ hstat' = hstat /\ ws' = ws /\ machine' = machine /\ tail' = tail
      /\ stranded' = stranded /\ req' = req /\ UNCHANGED redisVars
  BY DEF LooseStep, LooseStart, LooseEnd, cloudVars
<1>2. RestTyped /\ RedisInv
  BY DEF HostInv
<1>3. "busy" \in InstanceStatus /\ "settled" \in InstanceStatus
  BY DEF InstanceStatus
<1>4. istat' \in [Instances -> InstanceStatus]
  BY <1>2, <1>3, SetInstanceType DEF LooseStep, LooseStart, LooseEnd, RestTyped
<1>5. loose' \in [Instances -> {"none", "queued", "running"}]
  BY <1>2 DEF LooseStep, LooseStart, LooseEnd, RestTyped
<1>6. DataTyped
  BY <1>1, <1>2, <1>4, <1>5 DEF DataTyped, RestTyped
<1>7. RedisInv' /\ lock' = lock
  BY <1>1, <1>2, RedisUnchangedInv DEF redisVars
<1> QED
  BY <1>1, <1>6, <1>7, QuietStep

-----------------------------------------------------------------------------
(* The jobs.                                                               *)

LEMMA StartInv ==
  ASSUME HostInv, NEW r \in Token, Start(r)
  PROVE  Advance
<1> DEFINE o == req[r].op
<1>0. In(r, {"queued"}) /\ In(r, LockPhases) /\ In(r, HostOwning)
  BY DEF Start, In, LockPhases, HostOwning
<1>1. /\ tail' = tail /\ ws' = ws /\ machine' = machine /\ istat' = istat
      /\ loose' = loose /\ UNCHANGED redisVars
  BY DEF Start, cloudVars, sideVars
<1>2. CASE hstat \in Expects(o)
  <2> DEFINE p == CASE o = "provision" -> "started"
                    [] o = "workshop" -> "marking"
                    [] OTHER -> "running"
             t == IF o = "workshop" THEN Present ELSE {}
  <2>1. SetHost(JobWrites(o)) /\ req' = [req EXCEPT ![r].phase = p, ![r].todo = t]
    BY <1>2 DEF Start
  <2>2. /\ p \in {"started", "marking", "running"}
        /\ (p = "started" <=> o = "provision") /\ (p = "marking" => o = "workshop")
        /\ o = "setup" => p = "running"
    OBVIOUS
  <2>3. p \in Phase /\ t \in SUBSET Instances
    BY <2>2 DEF Phase, Present
  <2> HIDE DEF p, t
  <2>4. Turns(r, p)
    BY <2>1, <2>3, RequestFacts, TodoTurns
  <2>5. Follows(r, p)
    BY <1>0, <2>2 DEF Follows, LockPhases, HostOwning, Early
  <2>6. JobWrites(o) \in (HostStatus \ {"absent"}) \cup {"keep"}
    BY DEF JobWrites, HostStatus, Transitional
  <2>7. RowKept /\ stranded' \in BOOLEAN
    BY <2>1, <2>6, RequestFacts, SetHostEffect DEF RowKept
  <2>8. hstat' = hstat \/ tail[r] # "open"
    <3>1. CASE o = "setup"
      <4>1. JobWrites(o) = "keep"
        BY <3>1 DEF JobWrites
      <4> QED
        BY <2>1, <4>1 DEF SetHost
    <3>2. CASE o # "setup"
      BY <1>0, <3>2, JobTail
    <3> QED
      BY <3>1, <3>2
  <2>9. OthersTyped
    BY <1>1, <2>7, RequestFacts DEF OthersTyped, RestTyped
  <2>10. p \notin Early /\ p \notin {"handoff", "ok"} /\ (p = "running" => o # "provision")
    BY <2>2 DEF Early
  <2> QED
    BY <1>1, <2>4, <2>5, <2>7, <2>8, <2>9, <2>10, StatusStep DEF Turns
<1>3. CASE hstat \notin Expects(o)
  <2>1. /\ Goto(r, "finishing")
        /\ IF o = "resize" THEN SetHost("error") ELSE UNCHANGED <<hstat, stranded>>
    BY <1>3 DEF Start
  <2>2. Turns(r, "finishing")
    BY <2>1, RequestFacts, GotoTurns DEF Phase
  <2>3. Follows(r, "finishing")
    BY <1>0 DEF Follows, LockPhases, HostOwning, Early
  <2>4. "error" \in (HostStatus \ {"absent"}) \cup {"keep"}
    BY DEF HostStatus
  <2>5. RowKept /\ stranded' \in BOOLEAN
    BY <2>1, <2>4, RequestFacts, SetHostEffect DEF RowKept
  <2>6. OthersTyped
    BY <1>1, <2>5, RequestFacts DEF OthersTyped, RestTyped
  <2>7. "finishing" \notin Early /\ "finishing" \notin HostOwning
    BY DEF Early, HostOwning
  <2> QED
    BY <1>1, <2>2, <2>3, <2>5, <2>6, <2>7, StatusStep DEF Turns
<1> QED
  BY <1>2, <1>3

LEMMA RecordWorkspaceInv ==
  ASSUME HostInv, NEW r \in Token, RecordWorkspace(r)
  PROVE  Advance
<1>1. /\ In(r, {"started"}) /\ ws' = TRUE /\ Goto(r, "running")
      /\ tail' = tail /\ hstat' = hstat /\ machine' = machine /\ istat' = istat
      /\ loose' = loose /\ stranded' = stranded /\ UNCHANGED redisVars
  BY DEF RecordWorkspace, sideVars
<1>2. req[r].op = "provision" /\ In(r, LockPhases) /\ In(r, HostOwning)
  BY <1>1, RequestFacts DEF PlaceOf, In, LockPhases, HostOwning
<1>3. Turns(r, "running")
  BY <1>1, RequestFacts, GotoTurns DEF Phase
<1>4. Follows(r, "running")
  BY <1>2 DEF Follows, LockPhases, HostOwning, Early
<1>5. tail[r] = "none"
  BY <1>2, JobTail
<1>6. Young(r)
  BY <1>2, RequestFacts DEF Young, In, PlaceOf
<1>7. hstat # "absent"
  BY <1>6, RequestFacts DEF HostOf
<1>8. Cloud'
  BY <1>1, <1>7 DEF Cloud
<1>9. CloudOf(r)'
  BY <1>1, <1>2, <1>3 DEF CloudOf, Turns, Carries
<1>10. KeysKept(r) /\ lock' = lock
  BY <1>1, UnchangedKept, RequestFacts
<1>11. OthersTyped /\ hstat' \in HostStatus /\ machine' \in BOOLEAN /\ ws' \in BOOLEAN
  BY <1>1, RequestFacts DEF OthersTyped, RestTyped
<1>12. "running" \notin Early
  BY DEF Early
<1> QED
  BY <1>1, <1>3, <1>4, <1>5, <1>6, <1>8, <1>9, <1>10, <1>11, <1>12, WorkStep DEF Turns

\* What terraform does, the host's workspace accounts for.
LEMMA MachineEffect ==
  ASSUME HostInv, NEW r \in Token, In(r, {"running"}), NEW ok \in BOOLEAN,
         machine' \in MachineAfter(req[r].op, ok)
  PROVE  /\ machine' \in BOOLEAN
         /\ machine' => ws \/ "mistaken" \in Faults
         /\ Young(r) \/ (machine' => machine)
         /\ req[r].op = "delete" /\ ok /\ "mistaken" \notin Faults => ~machine'
         /\ req[r].op = "setup" => machine' = machine
<1>0. machine \in BOOLEAN /\ ws \in BOOLEAN /\ (machine => ws \/ "mistaken" \in Faults)
  BY RequestFacts DEF RestTyped, Cloud
<1>1. CASE req[r].op = "provision"
  <2>1. machine' = machine \/ machine' = TRUE
    BY <1>1 DEF MachineAfter
  <2>2. ws
    BY <1>1, RequestFacts DEF CloudOf
  <2>3. In(r, LockPhases)
    BY DEF In, LockPhases, HostOwning
  <2>4. tail[r] = "none"
    BY <1>1, <2>3, JobTail
  <2>5. Young(r)
    BY <1>1, RequestFacts DEF Young, In, HostOwning, PlaceOf
  <2> QED
    BY <1>0, <1>1, <2>1, <2>2, <2>5
<1>2. CASE req[r].op = "delete" /\ ws
  <2>1. machine' = machine \/ machine' = FALSE
    BY <1>2 DEF MachineAfter
  <2>2. ok /\ "mistaken" \notin Faults => machine' = FALSE
    BY <1>2 DEF MachineAfter
  <2>3. machine' \in BOOLEAN /\ (machine' => machine)
    <3>1. CASE machine' = machine
      BY <1>0, <3>1
    <3>2. CASE machine' = FALSE
      BY <3>2
    <3> QED
      BY <2>1, <3>1, <3>2
  <2>4. req[r].op # "setup"
    BY <1>2
  <2> QED
    BY <1>0, <2>2, <2>3, <2>4
<1>3. CASE req[r].op # "provision" /\ ~(req[r].op = "delete" /\ ws)
  <2>1. machine' = machine
    BY <1>3 DEF MachineAfter
  <2> QED
    BY <1>0, <1>3, <2>1
<1> QED
  BY <1>1, <1>2, <1>3

LEMMA RunInv ==
  ASSUME HostInv, NEW r \in Token, Run(r)
  PROVE  Advance
<1>1. /\ In(r, {"running"})
      /\ tail' = tail /\ hstat' = hstat /\ ws' = ws /\ istat' = istat
      /\ loose' = loose /\ stranded' = stranded /\ UNCHANGED redisVars
  BY DEF Run, sideVars
<1>2. PICK ok \in BOOLEAN : /\ machine' \in MachineAfter(req[r].op, ok)
                            /\ Goto(r, IF ok THEN "ok" ELSE "bad")
  BY DEF Run
<1> DEFINE p == IF ok THEN "ok" ELSE "bad"
<1>3. Turns(r, p)
  BY <1>2, RequestFacts, GotoTurns DEF Phase
<1>4. Follows(r, p)
  <2>1. In(r, LockPhases) /\ In(r, HostOwning)
    BY <1>1 DEF In, LockPhases, HostOwning
  <2> QED
    BY <2>1 DEF Follows, LockPhases, HostOwning, Early
<1>5. /\ machine' \in BOOLEAN
      /\ machine' => ws \/ "mistaken" \in Faults
      /\ Young(r) \/ (machine' => machine)
      /\ req[r].op = "delete" /\ ok /\ "mistaken" \notin Faults => ~machine'
  BY <1>1, <1>2, MachineEffect
<1>6. Cloud' /\ ws' \in BOOLEAN
  BY <1>1, <1>5, RequestFacts DEF Cloud, RestTyped
<1>7. CloudOf(r)'
  <2>1. ~In(r, Parked)
    BY <1>1 DEF In, Parked, Over, InstancePhases
  <2> QED
    BY <1>1, <1>3, <1>5, <2>1, RequestFacts DEF CloudOf, Turns, Carries, In
<1>8. KeysKept(r) /\ lock' = lock
  BY <1>1, UnchangedKept, RequestFacts
<1>9. OthersTyped /\ hstat' \in HostStatus
  BY <1>1, RequestFacts DEF OthersTyped, RestTyped
<1>10. p \notin Early /\ p # "handoff"
  BY DEF Early
<1>11. tail[r] = "open" /\ Young(r)' => hstat' = "pending_setup"
  <2>1. Young(r)' => Young(r)
    BY <1>1, <1>3 DEF Young, In, HostOwning, Turns, Carries
  <2> QED
    BY <1>1, <2>1, RequestFacts DEF HostOf
<1> HIDE DEF p
<1> QED
  BY <1>1, <1>3, <1>4, <1>5, <1>6, <1>7, <1>8, <1>9, <1>10, <1>11, WorkStep DEF Turns

LEMMA RecordDeletedInv ==
  ASSUME HostInv, NEW r \in Token, RecordDeleted(r)
  PROVE  Advance
<1>1. /\ In(r, {"ok"}) /\ req[r].op = "delete" /\ Goto(r, "finishing")
      /\ hstat' = "absent" /\ istat' = NoSnap /\ ws' = FALSE /\ stranded' = FALSE
      /\ tail' = tail /\ machine' = machine /\ loose' = loose /\ UNCHANGED redisVars
  BY DEF RecordDeleted, sideVars
<1>2. Turns(r, "finishing")
  BY <1>1, RequestFacts, GotoTurns DEF Phase
<1>3. In(r, LockPhases)
  BY <1>1 DEF In, LockPhases, HostOwning
<1>4. Follows(r, "finishing")
  BY <1>1, <1>3 DEF Follows, LockPhases, HostOwning, Early
<1>5. Cloud'
  BY <1>1, RequestFacts DEF CloudOf, Cloud
<1>6. CloudOf(r)'
  BY <1>1, <1>2 DEF CloudOf, Turns, Carries, In
<1>7. KeysKept(r) /\ lock' = lock
  BY <1>1, UnchangedKept, RequestFacts
<1>8. OthersTyped /\ hstat' \in HostStatus /\ machine' \in BOOLEAN /\ ws' \in BOOLEAN
  BY <1>1, NoSnapType, RequestFacts DEF OthersTyped, RestTyped, HostStatus
<1>9. "finishing" \notin Early /\ "finishing" \notin HostOwning
  BY DEF Early, HostOwning
<1>10. ~Young(r)' /\ machine' = machine /\ (ws' => ws)
  BY <1>1, <1>2 DEF Young, Turns, Carries
<1> QED
  BY <1>1, <1>2, <1>4, <1>5, <1>6, <1>7, <1>8, <1>9, <1>10, WorkStep DEF Turns

LEMMA RecordInv ==
  ASSUME HostInv, NEW r \in Token, Record(r)
  PROVE  Advance
<1> DEFINE o == req[r].op
           p == CASE o = "provision" /\ In(r, {"ok"}) /\ hstat # "absent" -> "handoff"
                  [] o \in {"workshop", "plugins"} /\ In(r, {"ok"}) -> "settling"
                  [] o = "workshop" /\ In(r, {"bad"}) -> "undoing"
                  [] OTHER -> "finishing"
           t == CASE o \in {"workshop", "plugins"} /\ In(r, {"ok"}) -> Present
                  [] o = "workshop" /\ In(r, {"bad"}) -> Marked(r)
                  [] OTHER -> {}
           s == Concludes(o, In(r, {"ok"}))
<1>1. /\ In(r, {"ok", "bad"}) /\ SetHost(s)
      /\ req' = [req EXCEPT ![r].phase = p, ![r].todo = t]
      /\ tail' = tail /\ ws' = ws /\ machine' = machine /\ istat' = istat
      /\ loose' = loose /\ UNCHANGED redisVars
  BY DEF Record, cloudVars, sideVars
<1>2. /\ p \in {"handoff", "settling", "undoing", "finishing"}
      /\ p = "handoff" => o = "provision" /\ In(r, {"ok"}) /\ hstat # "absent"
      /\ o = "setup" => p = "finishing"
  BY <1>1 DEF In
<1>3. p \in Phase /\ t \in SUBSET Instances
  BY <1>2 DEF Phase, Present, Marked
<1>4. s \in (HostStatus \ {"absent"}) \cup {"keep"}
  BY DEF Concludes, HostStatus, Transitional
<1>5. p = "handoff" => s = "pending_setup"
  BY <1>2 DEF Concludes
<1> HIDE DEF p, t, s
<1>6. Turns(r, p)
  BY <1>1, <1>3, RequestFacts, TodoTurns
<1>7. Follows(r, p)
  <2>1. In(r, LockPhases) /\ In(r, HostOwning)
    BY <1>1 DEF In, LockPhases, HostOwning
  <2> QED
    BY <1>2, <2>1 DEF Follows, LockPhases, HostOwning, Early
<1>8. /\ RowKept /\ stranded' \in BOOLEAN
      /\ hstat # "absent" /\ s # "keep" => hstat' = s
  BY <1>1, <1>4, RequestFacts, SetHostEffect DEF RowKept
<1>9. p = "handoff" => hstat' = "pending_setup"
  BY <1>2, <1>5, <1>8
<1>10. tail[r] # "open" \/ p \notin HostOwning
  <2>1. CASE o = "setup"
    BY <1>2, <2>1 DEF HostOwning
  <2>2. CASE o # "setup"
    BY <1>7, <2>2, JobTail DEF Follows
  <2> QED
    BY <2>1, <2>2
<1>11. OthersTyped
  BY <1>1, <1>8, RequestFacts DEF OthersTyped, RestTyped
<1>12. p \notin Early /\ p \notin {"running", "ok"}
  BY <1>2 DEF Early
<1> QED
  BY <1>1, <1>6, <1>7, <1>8, <1>9, <1>10, <1>11, <1>12, StatusStep DEF Turns

\* The setup job inherits the token, and the lock with it.
LEMMA HandedOver ==
  ASSUME HostInv, NEW r \in Token, In(r, {"handoff"}),
         req' = [req EXCEPT ![r].phase = "queued", ![r].op = "setup"],
         tail' = [tail EXCEPT ![r] = "open"],
         UNCHANGED <<redisVars, hstat, istat, cloudVars, loose, stranded>>
  PROVE  Advance
<1>1. /\ req[r].op = "provision" /\ In(r, LockPhases) /\ In(r, HostOwning)
      /\ ~req[r].robbed
  BY RequestFacts DEF PlaceOf, In, LockPhases, HostOwning
<1>2. /\ req' \in [Token -> Request] /\ \A s \in Token \ {r} : req'[s] = req[s]
      /\ req'[r].phase = "queued" /\ req'[r].op = "setup"
      /\ req'[r].held = req[r].held /\ req'[r].robbed = req[r].robbed
  <2>1. "queued" \in Phase /\ req[r] \in Request
    BY RequestFacts DEF Phase
  <2> DEFINE q == [req[r] EXCEPT !.phase = "queued", !.op = "setup"]
  <2>2. q \in Request /\ q.phase = "queued" /\ q.op = "setup" /\ q.held = req[r].held
        /\ q.robbed = req[r].robbed
    BY <2>1 DEF Request
  <2>3. req' = [req EXCEPT ![r] = q]
    OBVIOUS
  <2> HIDE DEF q
  <2> QED
    BY <2>2, <2>3, Becomes, RequestFacts
<1>3. /\ tail' \in [Token -> {"none", "open"}] /\ tail'[r] = "open"
      /\ \A s \in Token \ {r} : tail'[s] = tail[s]
  BY RequestFacts DEF RestTyped
<1>4. /\ hstat' = hstat /\ ws' = ws /\ machine' = machine /\ istat' = istat
      /\ loose' = loose /\ stranded' = stranded /\ UNCHANGED redisVars
  BY DEF cloudVars
<1>5. OthersKept(r) /\ DataTyped
  BY <1>2, <1>3, <1>4, RequestFacts DEF OthersKept, DataTyped, RestTyped
<1>6. KeysKept(r) /\ lock' = lock
  BY <1>4, UnchangedKept, RequestFacts
<1>7. NoYoung(r)
  BY <1>1, AtWorkAlone DEF In
<1>8. tail[r] = "none" /\ req[r].held = {}
  BY <1>1, JobTail, RequestFacts DEF PlaceOf
<1>9. Young(r)
  BY <1>1 DEF Young, In
<1>10. PlaceOf(r)'
  BY <1>2, <1>8 DEF PlaceOf, In, InstancePhases
<1>11. HostOf(r)'
  BY <1>4, <1>9, RequestFacts DEF HostOf
<1>12. CloudOf(r)' /\ Cloud'
  BY <1>2, <1>4, RequestFacts DEF CloudOf, Cloud
<1>13. LocksOf(r)' /\ Keeps(r)
  <2>1. Holds(r) = {Host} \cup req[r].held
    BY <1>1 DEF Holds, In, HostOwning, InstanceOwning
  <2>2. In(r, HostOwning)' /\ ~In(r, InstanceOwning)' /\ ~req'[r].robbed
    BY <1>1, <1>2 DEF In, HostOwning, InstanceOwning
  <2>3. Holds(r)' = {Host} \cup req'[r].held
    BY <2>2 DEF Holds
  <2>4. In(r, LockPhases)' /\ ~In(r, {"gone", "lost", "ilocked", "iworking", "ifinishing"})
    BY <1>1, <1>2 DEF In, LockPhases, HostOwning
  <2> QED
    BY <1>2, <1>6, <2>1, <2>3, <2>4, RequestFacts DEF LocksOf, Keeps, In
<1>14. ~In(r, {"checked"})' /\ (Young(r)' => Young(r))
  BY <1>2, <1>9 DEF In
<1>15. \A q \in Token \ {r} : Young(q) =>
          Bystander(r)' /\ (In(q, {"checked"}) => In(r, Parked)')
  BY <1>7 DEF NoYoung
<1> QED
  BY <1>4, <1>5, <1>6, <1>7, <1>10, <1>11, <1>12, <1>13, <1>14, <1>15, RequestStep

LEMMA HandoffInv ==
  ASSUME HostInv, NEW r \in Token, Handoff(r)
  PROVE  Advance
<1>1. CASE /\ req' = [req EXCEPT ![r].phase = "queued", ![r].op = "setup"]
           /\ tail' = [tail EXCEPT ![r] = "open"]
           /\ UNCHANGED <<hstat, stranded>>
  BY <1>1, HandedOver DEF Handoff
<1>2. CASE SetHost("error") /\ Goto(r, "finishing") /\ tail' = tail
  <2>1. /\ In(r, {"handoff"}) /\ ws' = ws /\ machine' = machine /\ istat' = istat
        /\ loose' = loose /\ UNCHANGED redisVars
    BY DEF Handoff, cloudVars
  <2>2. Turns(r, "finishing")
    BY <1>2, RequestFacts, GotoTurns DEF Phase
  <2>3. Follows(r, "finishing")
    BY <2>1 DEF Follows, In, LockPhases, HostOwning, Early
  <2>4. "error" \in (HostStatus \ {"absent"}) \cup {"keep"}
    BY DEF HostStatus
  <2>5. RowKept /\ stranded' \in BOOLEAN
    BY <1>2, <2>4, RequestFacts, SetHostEffect DEF RowKept
  <2>6. OthersTyped
    BY <2>1, <2>5, RequestFacts DEF OthersTyped, RestTyped
  <2>7. "finishing" \notin Early /\ "finishing" \notin HostOwning
    BY DEF Early, HostOwning
  <2> QED
    BY <1>2, <2>1, <2>2, <2>3, <2>5, <2>6, <2>7, StatusStep DEF Turns
<1> QED
  BY <1>1, <1>2 DEF Handoff

\* The end of provisioning, behind the setup job's back: the request stays
\* where it is, and loses no lock it still relies on, unless it is robbed.
LEMMA TailStep ==
  ASSUME HostInv, NEW r \in Token, tail[r] = "open",
         tail' = [tail EXCEPT ![r] = "none"],
         req' \in [Token -> Request], \A s \in Token \ {r} : req'[s] = req[s],
         req'[r].phase = req[r].phase, req'[r].op = req[r].op,
         req'[r].held = req[r].held, req'[r].inst = req[r].inst,
         req'[r].seen = req[r].seen,
         req'[r].robbed => req[r].robbed \/ In(r, HostOwning),
         UNCHANGED redisVars \/ ReleaseEntity(Host, r),
         In(r, HostOwning) =>
            req'[r].robbed \/ (UNCHANGED redisVars /\ ~req[r].robbed),
         RowKept, stranded' \in BOOLEAN, UNCHANGED <<istat, cloudVars, loose>>
  PROVE  Advance
<1>1. /\ tail' \in [Token -> {"none", "open"}] /\ tail'[r] = "none"
      /\ \A s \in Token \ {r} : tail'[s] = tail[s]
  BY RequestFacts DEF RestTyped
<1>2. ws' = ws /\ machine' = machine /\ istat' = istat /\ loose' = loose
  BY DEF cloudVars
<1>3. OthersKept(r) /\ DataTyped
  BY <1>1, <1>2, RequestFacts DEF OthersKept, DataTyped, RestTyped, RowKept
<1>4. /\ KeysKept(r)
      /\ \A e \in Entity : lock'[e] = r => lock[e] = r
      /\ UNCHANGED redisVars => lock' = lock
  <2>1. CASE UNCHANGED redisVars
    BY <2>1, UnchangedKept, RequestFacts
  <2>2. CASE ReleaseEntity(Host, r)
    BY <2>2, ReleaseKept, RequestFacts, HostOpsAssumption DEF redisVars
  <2> QED
    BY <2>1, <2>2
<1>5. NoYoung(r)
  BY AtWorkAlone
<1>6. req[r].op = "setup" \/ In(r, Over)
  BY RequestFacts DEF PlaceOf
<1>7. PlaceOf(r)'
  <2>1. In(r, HostOwning) => req[r].op = "setup" /\ ~In(r, {"checked"})
    BY <1>6 DEF In, Over, HostOwning
  <2>2. (In(r, {"checked"}) \/ req[r].op = "provision") => ~req'[r].robbed
    BY <2>1, RequestFacts DEF PlaceOf
  <2> QED
    BY <1>1, <1>6, <2>2, RequestFacts DEF PlaceOf, In
<1>8. Young(r)' => Young(r)
  <2>1. ~In(r, {"checked"})
    BY <1>6, RequestFacts DEF PlaceOf, In, Over
  <2>2. Young(r)' => ~req[r].robbed
    BY <2>1 DEF Young, In
  <2> QED
    BY <2>2 DEF Young, In
<1>9. HostOf(r)'
  <2>1. ~In(r, {"handoff"})
    BY <1>6, RequestFacts DEF PlaceOf, In, Over
  <2>2. Young(r)' => hstat' # "absent"
    BY <1>8, RequestFacts DEF HostOf, RowKept
  <2> QED
    BY <1>1, <2>1, <2>2 DEF HostOf, In
<1>10. CloudOf(r)' /\ Cloud'
  BY <1>2, RequestFacts DEF CloudOf, Cloud, RowKept, In
<1>11. ~In(r, InstanceOwning) /\ (In(r, HostOwning) => req[r].held = {})
  <2>1. In(r, HostOwning) => req[r].op = "setup"
    BY <1>6 DEF In, Over, HostOwning
  <2>2. ~In(r, InstanceOwning)
    BY <1>6, RequestFacts DEF PlaceOf, In, Over, InstanceOwning
  <2> QED
    BY <2>1, <2>2, RequestFacts DEF PlaceOf
<1>12. LocksOf(r)' /\ Keeps(r)
  <2>1. CASE In(r, HostOwning) /\ ~req'[r].robbed
    <3>1. lock' = lock
      BY <1>4, <2>1
    <3>2. Holds(r)' = Holds(r)
      BY <1>11, <2>1 DEF Holds, In
    <3> QED
      BY <3>1, <3>2, RequestFacts DEF LocksOf, Keeps, In
  <2>2. CASE req'[r].robbed \/ ~In(r, HostOwning)
    <3>1. Holds(r)' = {}
      BY <1>11, <2>2 DEF Holds, In
    <3> QED
      BY <1>4, <3>1, RequestFacts DEF LocksOf, Keeps, In
  <2> QED
    BY <2>1, <2>2
<1>13. \A q \in Token \ {r} : Young(q) =>
          Bystander(r)' /\ (In(q, {"checked"}) => In(r, Parked)')
  BY <1>5 DEF NoYoung
<1>14. Young(r)' => Young(r) /\ (In(r, {"checked"})' => In(r, {"checked"}))
  BY <1>8 DEF In
<1> QED
  BY <1>2, <1>3, <1>4, <1>5, <1>7, <1>9, <1>10, <1>12, <1>13, <1>14, RequestStep

LEMMA TailReadsInv ==
  ASSUME HostInv, NEW r \in Token, TailReads(r)
  PROVE  Advance
<1>1. In(r, HostOwning) => req[r].robbed \/ hstat = "pending_setup"
  <2>1. ASSUME In(r, HostOwning), ~req[r].robbed
        PROVE  Young(r)
    <3>1. ~In(r, Over)
      BY <2>1 DEF In, HostOwning, Over
    <3>2. req[r].op = "setup"
      BY <3>1, RequestFacts DEF PlaceOf, TailReads
    <3> QED
      BY <2>1, <3>2 DEF Young, In, TailReads
  <2> QED
    BY <2>1, RequestFacts DEF HostOf, TailReads
<1>2. UNCHANGED redisVars \/ ReleaseEntity(Host, r)
  BY DEF TailReads
<1>3. In(r, HostOwning) => req[r].robbed \/ (UNCHANGED redisVars /\ ~req[r].robbed)
  BY <1>1 DEF TailReads
<1>4. RowKept /\ stranded' \in BOOLEAN /\ req' = req
  BY RequestFacts DEF TailReads, RowKept
<1> QED
  BY <1>2, <1>3, <1>4, RequestFacts, TailStep DEF TailReads

LEMMA TailFailsInv ==
  ASSUME HostInv, NEW r \in Token, TailFails(r)
  PROVE  Advance
<1>1. "error" \in (HostStatus \ {"absent"}) \cup {"keep"}
  BY DEF HostStatus
<1>2. SetHost("error") \/ UNCHANGED <<hstat, stranded>>
  BY DEF TailFails
<1>3. RowKept /\ stranded' \in BOOLEAN
  BY <1>1, <1>2, RequestFacts, SetHostEffect DEF RowKept
<1>4. /\ req' \in [Token -> Request] /\ \A s \in Token \ {r} : req'[s] = req[s]
      /\ req'[r].phase = req[r].phase /\ req'[r].op = req[r].op
      /\ req'[r].held = req[r].held /\ req'[r].inst = req[r].inst
      /\ req'[r].seen = req[r].seen /\ req'[r].robbed = In(r, HostOwning)
  <2>1. req[r] \in Request /\ In(r, HostOwning) \in BOOLEAN
    BY RequestFacts DEF In
  <2> DEFINE b == In(r, HostOwning)
             q == [req[r] EXCEPT !.robbed = b]
  <2>2. req' = [req EXCEPT ![r] = q]
    BY DEF TailFails
  <2> HIDE DEF b
  <2>3. q \in Request /\ q.phase = req[r].phase /\ q.op = req[r].op
        /\ q.held = req[r].held /\ q.inst = req[r].inst
        /\ q.seen = req[r].seen /\ q.robbed = b
    BY <2>1 DEF Request, b
  <2> HIDE DEF q
  <2> QED
    BY <2>2, <2>3, Becomes, RequestFacts DEF b
<1>5. /\ tail[r] = "open" /\ tail' = [tail EXCEPT ![r] = "none"]
      /\ ReleaseEntity(Host, r) /\ UNCHANGED <<istat, cloudVars, loose>>
  BY DEF TailFails
<1> QED
  BY <1>3, <1>4, <1>5, TailStep

\* A re-run, a workshop or a plugin update moves on among the instances.
InPhases == {"reconciling", "marking", "settling", "undoing"}

LEMMA AmongInstances ==
  ASSUME HostInv, NEW r \in Token, In(r, {"ok"} \cup InPhases),
         NEW p \in InPhases \cup {"running", "finishing", "unwinding"},
         req[r].op # "setup", p = "marking" => In(r, {"marking"}),
         p = "running" => req[r].op # "provision",
         Carries(r), req'[r].phase = p, OthersTyped,
         UNCHANGED redisVars, tail' = tail, ws' = ws, machine' = machine, RowKept
  PROVE  Advance
<1>1. Follows(r, p)
  <2>1. p = "marking" => req[r].op = "workshop"
    BY RequestFacts DEF PlaceOf
  <2> QED
    BY <2>1 DEF Follows, In, InPhases, LockPhases, HostOwning, Early
<1>2. tail[r] = "none"
  BY <1>1, JobTail DEF Follows
<1>3. p \notin Early /\ p \notin {"ok", "handoff"}
  BY DEF Early, InPhases
<1> QED
  BY <1>1, <1>2, <1>3, StatusStep

\* Which request is among the instances, and what it changes there.
LEMMA AmongFacts ==
  ASSUME HostInv, NEW r \in Token
  PROVE  /\ In(r, InPhases) => req[r].op # "setup"
         /\ istat \in [Instances -> InstanceStatus]
         /\ loose \in [Instances -> {"none", "queued", "running"}]
         /\ {"absent", "busy", "settled", "stopped"} \subseteq InstanceStatus
         /\ \A i \in Instances : req[r].snap[i] \in InstanceStatus
         /\ req[r].todo \in SUBSET Instances /\ Marked(r) \in SUBSET Instances
         /\ (hstat' = hstat => RowKept)
<1>1. In(r, InPhases) => req[r].op # "setup"
  BY RequestFacts DEF PlaceOf, In, InPhases
<1>2. /\ istat \in [Instances -> InstanceStatus]
      /\ loose \in [Instances -> {"none", "queued", "running"}]
  BY RequestFacts DEF RestTyped
<1>3. {"absent", "busy", "settled", "stopped"} \subseteq InstanceStatus
  BY DEF InstanceStatus
<1>4. req[r] \in Request
  BY RequestFacts
<1>5. req[r].snap \in [Instances -> InstanceStatus] /\ req[r].todo \in SUBSET Instances
  BY <1>4 DEF Request
<1> QED
  BY <1>1, <1>2, <1>3, <1>5, RequestFacts DEF Marked, RowKept

LEMMA TodoKept ==
  ASSUME HostInv, NEW r \in Token, NEW i,
         req' = [req EXCEPT ![r].todo = @ \ {i}]
  PROVE  Carries(r) /\ req'[r].phase = req[r].phase
<1>1. req[r].todo \ {i} \in SUBSET Instances
  BY AmongFacts
<1> QED
  BY <1>1, RequestFacts, TodoType DEF Turns

LEMMA SnapshotInv ==
  ASSUME HostInv, NEW r \in Token, Snapshot(r)
  PROVE  Advance
<1>1. /\ In(r, {"ok"}) /\ req[r].op = "rerun" /\ hstat' = hstat
      /\ tail' = tail /\ ws' = ws /\ machine' = machine /\ istat' = istat
      /\ loose' = loose /\ stranded' = stranded /\ UNCHANGED redisVars
  BY DEF Snapshot, cloudVars, sideVars
<1>2. Carries(r) /\ req'[r].phase = "reconciling"
  <2>1. "reconciling" \in Phase /\ Present \in SUBSET Instances
    BY DEF Phase, Present
  <2>2. istat \in [Instances -> InstanceStatus] /\ req[r] \in Request
    BY AmongFacts, RequestFacts
  <2> DEFINE q == [req[r] EXCEPT !.phase = "reconciling", !.snap = istat, !.todo = Present]
  <2>3. q \in Request /\ q.phase = "reconciling" /\ q.op = req[r].op
        /\ q.held = req[r].held /\ q.inst = req[r].inst /\ q.robbed = req[r].robbed
    BY <2>1, <2>2 DEF Request
  <2>4. req' = [req EXCEPT ![r] = q]
    BY DEF Snapshot
  <2> HIDE DEF q
  <2> QED
    BY <2>3, <2>4, Becomes, RequestFacts DEF Carries
<1>3. OthersTyped /\ RowKept
  BY <1>1, RequestFacts, AmongFacts DEF OthersTyped
<1> QED
  BY <1>1, <1>2, <1>3, AmongInstances DEF In, InPhases

LEMMA ReconcileInv ==
  ASSUME HostInv, NEW r \in Token, NEW i \in Instances, Reconcile(r, i)
  PROVE  Advance
<1>1. /\ In(r, {"reconciling"}) /\ hstat' = hstat /\ UNCHANGED redisVars
      /\ tail' = tail /\ ws' = ws /\ machine' = machine
      /\ loose' = loose /\ stranded' = stranded
      /\ req' = [req EXCEPT ![r].todo = @ \ {i}]
  BY DEF Reconcile, cloudVars, sideVars
<1>2. SetInstance(i, "stopped") \/ SetInstance(i, "settled")
  BY DEF Reconcile
<1>3. OthersTyped /\ RowKept
  BY <1>1, <1>2, RequestFacts, AmongFacts, SetInstanceType DEF OthersTyped
<1>4. Carries(r) /\ req'[r].phase = "reconciling"
  BY <1>1, TodoKept DEF In
<1> QED
  BY <1>1, <1>3, <1>4, AmongFacts, AmongInstances DEF In, InPhases

LEMMA MarkInv ==
  ASSUME HostInv, NEW r \in Token, NEW i \in Instances, Mark(r, i)
  PROVE  Advance
<1>1. /\ In(r, {"marking"}) /\ hstat' = hstat /\ UNCHANGED redisVars
      /\ tail' = tail /\ ws' = ws /\ machine' = machine
      /\ loose' = loose /\ stranded' = stranded
  BY DEF Mark, cloudVars, sideVars
<1>2. RowKept /\ req[r].op # "setup"
  BY <1>1, AmongFacts DEF In, InPhases
<1>3. CASE istat[i] = "absent"
  <2>1. Forget(r, "unwinding") /\ istat' = istat
    BY <1>3 DEF Mark
  <2>2. Turns(r, "unwinding")
    BY <2>1, RequestFacts, ForgetTurns DEF Phase
  <2>3. OthersTyped
    BY <1>1, <2>1, RequestFacts, AmongFacts DEF OthersTyped
  <2> QED
    BY <1>1, <1>2, <2>2, <2>3, AmongInstances DEF In, InPhases, Turns
<1>4. CASE istat[i] # "absent"
  <2>1. /\ SetInstance(i, "busy")
        /\ req' = [req EXCEPT ![r].todo = @ \ {i}, ![r].snap[i] = istat[i]]
    BY <1>4 DEF Mark
  <2>2. OthersTyped
    BY <1>1, <2>1, RequestFacts, AmongFacts, SetInstanceType DEF OthersTyped
  <2>3. Carries(r) /\ req'[r].phase = "marking"
    <3> DEFINE n == [req[r].snap EXCEPT ![i] = istat[i]]
               q == [req[r] EXCEPT !.todo = @ \ {i}, !.snap = n]
    <3>1. req[r] \in Request /\ istat[i] \in InstanceStatus
      BY RequestFacts, AmongFacts
    <3>2. n \in [Instances -> InstanceStatus]
      BY <3>1 DEF Request
    <3>3. req' = [req EXCEPT ![r] = q]
      BY <2>1
    <3> HIDE DEF n
    <3>4. q \in Request /\ q.phase = req[r].phase /\ q.op = req[r].op
          /\ q.held = req[r].held /\ q.inst = req[r].inst /\ q.robbed = req[r].robbed
      BY <3>1, <3>2 DEF Request
    <3> HIDE DEF q
    <3> QED
      BY <1>1, <3>3, <3>4, Becomes, RequestFacts DEF Carries, In
  <2> QED
    BY <1>1, <1>2, <2>2, <2>3, AmongInstances DEF In, InPhases
<1> QED
  BY <1>3, <1>4

LEMMA SettleInv ==
  ASSUME HostInv, NEW r \in Token, NEW i \in Instances, Settle(r, i)
  PROVE  Advance
<1>1. /\ In(r, {"settling"}) /\ UNCHANGED redisVars
      /\ tail' = tail /\ ws' = ws /\ machine' = machine
  BY DEF Settle, cloudVars
<1>2. req[r].op # "setup"
  BY <1>1, AmongFacts DEF In, InPhases
<1>3. ASSUME NEW s \in InstanceStatus, SetInstance(i, s),
             req' = [req EXCEPT ![r].todo = @ \ {i}],
             loose' \in [Instances -> {"none", "queued", "running"}],
             UNCHANGED <<hstat, stranded>>
      PROVE  Advance
  <2>1. OthersTyped /\ RowKept
    BY <1>3, RequestFacts, AmongFacts, SetInstanceType DEF OthersTyped
  <2>2. Carries(r) /\ req'[r].phase = "settling"
    BY <1>1, <1>3, TodoKept DEF In
  <2> QED
    BY <1>1, <1>2, <2>1, <2>2, AmongInstances DEF In, InPhases
<1>4. ASSUME SetHost("error"), istat' = istat, loose' = loose,
             req' = [req EXCEPT ![r].phase = "undoing", ![r].todo = Marked(r)]
      PROVE  Advance
  <2>1. "error" \in (HostStatus \ {"absent"}) \cup {"keep"} /\ "undoing" \in Phase
    BY DEF HostStatus, Phase
  <2>2. RowKept /\ stranded' \in BOOLEAN
    BY <1>4, <2>1, RequestFacts, SetHostEffect DEF RowKept
  <2>3. OthersTyped
    BY <1>4, <2>2, AmongFacts DEF OthersTyped
  <2>4. Turns(r, "undoing")
    BY <1>4, <2>1, RequestFacts, AmongFacts, TodoTurns
  <2> QED
    BY <1>1, <1>2, <2>2, <2>3, <2>4, AmongInstances DEF In, InPhases, Turns
<1>5. QueueLoose(i) => loose' \in [Instances -> {"none", "queued", "running"}]
  BY AmongFacts DEF QueueLoose
<1>6. {"busy", "stopped", "settled", "absent", istat[i]} \subseteq InstanceStatus
  BY AmongFacts
<1>7. loose' = loose => loose' \in [Instances -> {"none", "queued", "running"}]
  BY AmongFacts
<1>8. CASE /\ SetInstance(i, "busy") /\ QueueLoose(i)
           /\ req' = [req EXCEPT ![r].todo = @ \ {i}]
           /\ UNCHANGED <<hstat, stranded>>
  BY <1>3, <1>5, <1>6, <1>8
<1>9. CASE \E s \in {"stopped", "settled", "absent", istat[i]} :
              /\ SetInstance(i, s) /\ req' = [req EXCEPT ![r].todo = @ \ {i}]
              /\ UNCHANGED <<loose, hstat, stranded>>
  BY <1>3, <1>6, <1>7, <1>9
<1> QED
  BY <1>4, <1>8, <1>9 DEF Settle

LEMMA UndoInv ==
  ASSUME HostInv, NEW r \in Token, NEW i \in Instances, Undo(r, i)
  PROVE  Advance
<1>1. /\ In(r, {"undoing"}) /\ hstat' = hstat /\ UNCHANGED redisVars
      /\ tail' = tail /\ ws' = ws /\ machine' = machine
      /\ loose' = loose /\ stranded' = stranded
      /\ SetInstance(i, req[r].snap[i])
      /\ req' = [req EXCEPT ![r].todo = @ \ {i}]
  BY DEF Undo, cloudVars, sideVars
<1>2. OthersTyped /\ RowKept
  BY <1>1, RequestFacts, AmongFacts, SetInstanceType DEF OthersTyped
<1>3. Carries(r) /\ req'[r].phase = "undoing"
  BY <1>1, TodoKept DEF In
<1> QED
  BY <1>1, <1>2, <1>3, AmongFacts, AmongInstances DEF In, InPhases

\* ReconciledAll, MarkedAll, SettledAll and UndoneAll.
LEMMA AllThroughInv ==
  ASSUME HostInv, NEW r \in Token, In(r, InPhases),
         NEW p \in {"running", "finishing", "unwinding"},
         p = "running" => In(r, {"marking"}),
         Goto(r, p) \/ Forget(r, p),
         (hstat' = hstat /\ stranded' = stranded) \/ SetHost("active"),
         UNCHANGED <<redisVars, istat, cloudVars, sideVars>>
  PROVE  Advance
<1>1. /\ tail' = tail /\ ws' = ws /\ machine' = machine /\ istat' = istat
      /\ loose' = loose /\ UNCHANGED redisVars
  BY DEF cloudVars, sideVars
<1>2. p \in Phase /\ "active" \in (HostStatus \ {"absent"}) \cup {"keep"}
  BY DEF Phase, HostStatus
<1>3. Turns(r, p)
  BY <1>2, RequestFacts, GotoTurns, ForgetTurns
<1>4. RowKept /\ stranded' \in BOOLEAN
  BY <1>2, RequestFacts, SetHostEffect DEF RowKept
<1>5. OthersTyped
  BY <1>1, <1>4, AmongFacts DEF OthersTyped
<1>6. p = "running" => req[r].op # "provision"
  BY RequestFacts DEF PlaceOf
<1> QED
  BY <1>1, <1>3, <1>4, <1>5, <1>6, AmongFacts, AmongInstances DEF Turns, In, InPhases

-----------------------------------------------------------------------------
(* The end of a job.                                                       *)

\* A job ends badly and keeps its locks for its handler, if it has one.
LEMMA DiesInv ==
  ASSUME HostInv, NEW r \in Token, In(r, InWorker), Dies(r),
         UNCHANGED redisVars, hstat' = hstat, istat' = istat, ws' = ws,
         tail' = tail, loose' = loose,
         machine' \in BOOLEAN, machine' => ws \/ "mistaken" \in Faults,
         Young(r) \/ (machine' => machine),
         req[r].op = "setup" => machine' = machine
  PROVE  Advance
<1>1. KeysKept(r) /\ lock' = lock
  BY UnchangedKept, RequestFacts
<1>2. Cloud'
  BY RequestFacts DEF Cloud
<1>3. In(r, LockPhases)
  BY DEF In, InWorker, LockPhases, HostOwning
<1>4. CASE req[r].op = "setup"
  <2>1. End(r, "lost") /\ StrandBy(r) /\ machine' = machine
    BY <1>4 DEF Dies
  <2>2. stranded' \in BOOLEAN
    BY <2>1, RequestFacts DEF StrandBy
  <2>3. DataTyped
    BY <2>2, RequestFacts DEF DataTyped, RestTyped
  <2> QED
    BY <1>1, <1>2, <2>1, <2>3, EndStep
<1>5. CASE req[r].op # "setup"
  <2>1. Forget(r, "failed") /\ stranded' = stranded
    BY <1>5 DEF Dies
  <2>2. Turns(r, "failed")
    BY <2>1, RequestFacts, ForgetTurns DEF Phase
  <2>3. Follows(r, "failed")
    BY <1>3, <1>5 DEF Follows, LockPhases, HostOwning, Early
  <2>4. OthersTyped /\ hstat' \in HostStatus /\ ws' \in BOOLEAN
    BY <2>1, RequestFacts DEF OthersTyped, RestTyped
  <2>5. CloudOf(r)'
    <3>1. ~In(r, Parked)
      BY DEF In, InWorker, Parked, Over, InstancePhases
    <3> QED
      BY <2>2, <3>1, RequestFacts DEF CloudOf, Turns, Carries, In
  <2>6. "failed" \notin HostOwning /\ "failed" \notin Early
    BY DEF HostOwning, Early
  <2>7. tail[r] = "none"
    BY <1>3, <1>5, JobTail
  <2>8. Young(r) \/ ((machine' => machine) /\ (ws' => ws))
    OBVIOUS
  <2> QED
    BY <1>1, <1>2, <2>2, <2>3, <2>4, <2>5, <2>6, <2>7, <2>8, WorkStep DEF Turns
<1> QED
  BY <1>4, <1>5

LEMMA WorkerCrashInv ==
  ASSUME HostInv, NEW r \in Token, WorkerCrash(r)
  PROVE  Advance
<1>1. /\ In(r, InWorker) /\ Dies(r) /\ UNCHANGED redisVars
      /\ hstat' = hstat /\ istat' = istat /\ ws' = ws /\ tail' = tail /\ loose' = loose
  BY DEF WorkerCrash, sideVars
<1>2. CASE In(r, {"running"})
  <2>1. machine' \in MachineAfter(req[r].op, FALSE)
    BY <1>2 DEF WorkerCrash
  <2> QED
    BY <1>1, <1>2, <2>1, MachineEffect, DiesInv
<1>3. CASE ~In(r, {"running"})
  <2>1. machine' = machine
    BY <1>3 DEF WorkerCrash
  <2>2. machine \in BOOLEAN /\ (machine => ws \/ "mistaken" \in Faults)
    BY RequestFacts DEF RestTyped, Cloud
  <2> QED
    BY <1>1, <2>1, <2>2, DiesInv
<1> QED
  BY <1>2, <1>3

\* A job goes on towards its end, with its locks or without the host's.
LEMMA LeaveStep ==
  ASSUME HostInv, NEW r \in Token, In(r, LockPhases),
         NEW p \in {"unwinding", "failed", "handling", "cleanup"},
         req[r].op # "setup", Carries(r), req'[r].phase = p, RowKept,
         KeysKept(r), \A e \in Entity : lock'[e] = r => lock[e] = r,
         stranded' \in BOOLEAN, UNCHANGED <<istat, cloudVars, sideVars>>
  PROVE  Advance
<1>1. tail' = tail /\ ws' = ws /\ machine' = machine /\ istat' = istat /\ loose' = loose
  BY DEF cloudVars, sideVars
<1>2. /\ p \notin HostOwning /\ p \notin Early
      /\ p \notin {"started", "handoff", "listing", "taking", "backoff", "revert", "marking"}
  BY DEF HostOwning, Early
<1>3. Follows(r, p)
  BY <1>2 DEF Follows, LockPhases
<1>4. OthersTyped /\ hstat' \in HostStatus /\ machine' \in BOOLEAN /\ ws' \in BOOLEAN
  BY <1>1, RequestFacts DEF OthersTyped, RestTyped, RowKept
<1>5. Cloud'
  BY <1>1, RequestFacts DEF Cloud, RowKept
<1>6. CloudOf(r)'
  <2>1. ~In(r, Parked)
    BY DEF In, LockPhases, HostOwning, Parked, Over, InstancePhases
  <2> QED
    BY <1>1, <2>1, RequestFacts DEF CloudOf, Carries, In
<1>7. tail[r] = "none"
  BY JobTail
<1> QED
  BY <1>1, <1>2, <1>3, <1>4, <1>5, <1>6, <1>7, WorkStep

LEMMA JobFailsInv ==
  ASSUME HostInv, NEW r \in Token, JobFails(r)
  PROVE  Advance
<1>1. /\ UNCHANGED redisVars /\ hstat' = hstat /\ istat' = istat /\ ws' = ws
      /\ machine' = machine /\ tail' = tail /\ loose' = loose
      /\ UNCHANGED <<istat, cloudVars, sideVars>>
  BY DEF JobFails, cloudVars, sideVars
<1>2. CASE In(r, {"finishing"}) /\ Dies(r)
  <2>1. machine \in BOOLEAN /\ (machine => ws \/ "mistaken" \in Faults)
    BY RequestFacts DEF RestTyped, Cloud
  <2>2. In(r, InWorker)
    BY <1>2 DEF In, InWorker
  <2> QED
    BY <1>1, <1>2, <2>1, <2>2, DiesInv
<1>3. CASE /\ In(r, {"running", "ok", "bad"})
           /\ req[r].op \in {"resize", "timer", "filter", "refresh"}
           /\ Goto(r, "unwinding") /\ stranded' = stranded
  <2>1. In(r, LockPhases) /\ req[r].op # "setup"
    BY <1>3 DEF In, LockPhases, HostOwning
  <2>2. Turns(r, "unwinding")
    BY <1>3, RequestFacts, GotoTurns DEF Phase
  <2>3. KeysKept(r) /\ lock' = lock /\ RowKept /\ stranded' \in BOOLEAN
    BY <1>1, <1>3, UnchangedKept, RequestFacts DEF RowKept
  <2> QED
    BY <1>1, <2>1, <2>2, <2>3, LeaveStep DEF Turns
<1> QED
  BY <1>2, <1>3 DEF JobFails

LEMMA UnwoundInv ==
  ASSUME HostInv, NEW r \in Token, Unwound(r)
  PROVE  Advance
<1>1. In(r, LockPhases) /\ req[r].op # "setup"
  BY RequestFacts DEF Unwound, PlaceOf, In, LockPhases
<1>2. Turns(r, "failed")
  BY RequestFacts, GotoTurns DEF Unwound, Phase
<1>3. KeysKept(r) /\ \A e \in Entity : lock'[e] # r
  BY <1>1, LastLock DEF Unwound
<1>4. RowKept /\ stranded' \in BOOLEAN
  BY RequestFacts DEF Unwound, RowKept
<1> QED
  BY <1>1, <1>2, <1>3, <1>4, LeaveStep DEF Unwound, Turns

LEMMA HandlerReadsInv ==
  ASSUME HostInv, NEW r \in Token, HandlerReads(r)
  PROVE  Advance
<1>1. /\ In(r, {"failed"}) /\ UNCHANGED redisVars
      /\ UNCHANGED <<hstat, istat, cloudVars, sideVars, stranded>>
  BY DEF HandlerReads
<1>2. KeysKept(r) /\ lock' = lock
  BY <1>1, UnchangedKept, RequestFacts
<1>3. CASE hstat = "absent"
  <2>1. End(r, "gone")
    BY <1>3 DEF HandlerReads
  <2>2. tail' = tail /\ hstat' = hstat /\ ws' = ws /\ machine' = machine /\ istat' = istat
        /\ loose' = loose /\ stranded' = stranded
    BY <1>1 DEF cloudVars, sideVars
  <2>3. DataTyped /\ Cloud'
    BY <2>2, RequestFacts DEF DataTyped, RestTyped, Cloud
  <2> QED
    BY <1>2, <2>1, <2>2, <2>3, EndStep
<1>4. CASE hstat # "absent"
  <2>1. req' = [req EXCEPT ![r].phase = "handling", ![r].seen = hstat]
    BY <1>4 DEF HandlerReads
  <2>2. Carries(r) /\ req'[r].phase = "handling"
    <3>1. "handling" \in Phase
      BY DEF Phase
    <3> QED
      BY <2>1, <3>1, SeenCarries, RequestFacts
  <2>3. In(r, LockPhases) /\ req[r].op # "setup"
    BY <1>1, RequestFacts DEF PlaceOf, In, LockPhases
  <2>4. RowKept /\ stranded' \in BOOLEAN
    BY <1>1, RequestFacts DEF RowKept
  <2> QED
    BY <1>1, <1>2, <2>2, <2>3, <2>4, LeaveStep
<1> QED
  BY <1>3, <1>4

LEMMA HandlerWritesInv ==
  ASSUME HostInv, NEW r \in Token, HandlerWrites(r)
  PROVE  Advance
<1>1. /\ In(r, {"handling"}) /\ UNCHANGED redisVars
      /\ UNCHANGED <<istat, cloudVars, sideVars>>
  BY DEF HandlerWrites
<1>2. KeysKept(r) /\ lock' = lock
  BY <1>1, UnchangedKept, RequestFacts
<1>3. "error" \in (HostStatus \ {"absent"}) \cup {"keep"}
  BY DEF HostStatus
<1>4. SetHost("error") \/ UNCHANGED <<hstat, stranded>>
  BY DEF HandlerWrites
<1>5. RowKept /\ stranded' \in BOOLEAN
  BY <1>3, <1>4, RequestFacts, SetHostEffect DEF RowKept
<1>6. CASE End(r, "gone") /\ hstat = "absent"
  <2>1. tail' = tail /\ hstat' = hstat /\ ws' = ws /\ machine' = machine /\ istat' = istat
        /\ loose' = loose
    BY <1>1, <1>5, <1>6 DEF cloudVars, sideVars, RowKept
  <2>2. DataTyped /\ Cloud'
    BY <1>5, <2>1, RequestFacts DEF DataTyped, RestTyped, Cloud
  <2> QED
    BY <1>2, <1>6, <2>1, <2>2, EndStep
<1>7. CASE Goto(r, "cleanup")
  <2>1. Turns(r, "cleanup")
    BY <1>7, RequestFacts, GotoTurns DEF Phase
  <2>2. In(r, LockPhases) /\ req[r].op # "setup"
    BY <1>1, RequestFacts DEF PlaceOf, In, LockPhases
  <2> QED
    BY <1>1, <1>2, <1>5, <2>1, <2>2, LeaveStep DEF Turns
<1> QED
  BY <1>6, <1>7 DEF HandlerWrites

LEMMA JobInv ==
  ASSUME HostInv, NEW r \in Token, JobStep(r)
  PROVE  Advance
<1>1. ASSUME Finish(r)
      PROVE  Advance
  <2>1. In(r, LockPhases) /\ stranded' \in BOOLEAN
    BY <1>1, RequestFacts DEF Finish, In, LockPhases
  <2> QED
    BY <1>1, <2>1, DoneStep DEF Finish
<1>2. ASSUME ReconciledAll(r)
      PROVE  Advance
  BY <1>2, AllThroughInv DEF ReconciledAll, In, InPhases
<1>3. ASSUME MarkedAll(r)
      PROVE  Advance
  <2>1. In(r, InPhases) /\ In(r, {"marking"}) /\ Goto(r, "running")
    BY <1>3 DEF MarkedAll, In, InPhases
  <2> QED
    BY <1>3, <2>1, AllThroughInv DEF MarkedAll
<1>4. ASSUME SettledAll(r) \/ UndoneAll(r)
      PROVE  Advance
  <2>1. In(r, InPhases)
    BY <1>4 DEF SettledAll, UndoneAll, In, InPhases
  <2>2. Forget(r, "finishing") \/ Forget(r, "unwinding")
    BY <1>4 DEF SettledAll, UndoneAll
  <2>3. /\ hstat' = hstat /\ stranded' = stranded
        /\ UNCHANGED <<redisVars, istat, cloudVars, sideVars>>
    BY <1>4 DEF SettledAll, UndoneAll
  <2> QED
    BY <2>1, <2>2, <2>3, AllThroughInv
<1> QED
  BY <1>1, <1>2, <1>3, <1>4, StartInv, RecordWorkspaceInv, RunInv, RecordDeletedInv,
     RecordInv, HandoffInv, TailReadsInv, SnapshotInv, ReconcileInv, MarkInv,
     SettleInv, UndoInv, UnwoundInv, HandlerReadsInv, HandlerWritesInv DEF JobStep

-----------------------------------------------------------------------------
(* The invariant holds.                                                    *)

\* A host can only grow stuck while nobody works on it.
LEMMA AgeInv ==
  ASSUME HostInv, Punctual, Age
  PROVE  Advance /\ AgedInv'
<1>1. /\ hstat' = hstat /\ ws' = ws /\ machine' = machine /\ tail' = tail
      /\ istat' = istat /\ loose' = loose /\ stranded' = stranded
      /\ req' = req /\ UNCHANGED redisVars /\ lock' = lock /\ aged' = TRUE
  BY DEF Age, cloudVars, sideVars, redisVars
<1>2. DataTyped /\ RedisInv'
  BY <1>1, RedisUnchangedInv DEF DataTyped, HostInv, RestTyped
<1>3. Advance
  BY <1>1, <1>2, QuietStep
<1>4. \A q \in Token : ~Young(q)
  <2>1. \A q \in Token : In(q, Over \cup InstancePhases \cup {"failed"})
    BY DEF Age, Idle, Punctual
  <2> QED
    BY <2>1 DEF Young, In, Over, InstancePhases, HostOwning
<1>5. AgedInv'
  BY <1>1, <1>4 DEF AgedInv, Age, Young, In
<1> QED
  BY <1>3, <1>5

\* Every other step leaves the host as stuck as it was, or moves it.
Settled == aged' \in BOOLEAN /\ (aged' => aged /\ (hstat' = hstat \/ hstat = "absent"))

LEMMA SetHostSettled ==
  ASSUME AgedInv, NEW s, SetHost(s)
  PROVE  Settled
<1>1. CASE s = "keep"
  BY <1>1 DEF SetHost, AgedInv, Settled
<1>2. CASE s # "keep"
  BY <1>2 DEF SetHost, Settled
<1> QED
  BY <1>1, <1>2

LEMMA RouteSettled ==
  ASSUME AgedInv, NEW r \in Token, RouteStep(r)
  PROVE  Settled
<1>1. CASE UNCHANGED <<hstat, aged>>
  BY <1>1 DEF Settled, AgedInv
<1>2. CASE Commit(r) \/ Revert(r)
  BY <1>2, SetHostSettled DEF Commit, Revert
<1>3. CASE Drop(r)
  BY <1>3 DEF Drop, Settled
<1> QED
  BY <1>1, <1>2, <1>3
     DEF RouteStep, ForceRelease, Acquire, Refused, List, Take, TakeRefused, TakenAll,
         ReleaseHeld, BackedOff, Unlock, Enqueue, EnqueueFails

LEMMA JobSettled ==
  ASSUME AgedInv, NEW r \in Token, JobStep(r)
  PROVE  Settled
<1>1. ASSUME UNCHANGED <<hstat, aged>>
      PROVE  Settled
  BY <1>1 DEF Settled, AgedInv
<1>2. CASE Start(r) \/ Record(r) \/ Handoff(r) \/ ReconciledAll(r) \/ HandlerWrites(r)
           \/ \E i \in Instances : Settle(r, i)
  <2>1. (\E s : SetHost(s)) \/ UNCHANGED <<hstat, aged>>
    BY <1>2 DEF Start, Record, Handoff, ReconciledAll, HandlerWrites, Settle
  <2> QED
    BY <1>1, <2>1, SetHostSettled
<1>3. CASE RecordDeleted(r)
  BY <1>3 DEF RecordDeleted, Settled
<1> QED
  BY <1>1, <1>2, <1>3
     DEF JobStep, RecordWorkspace, Run, TailReads, Snapshot, Reconcile, Mark, Undo,
         MarkedAll, SettledAll, UndoneAll, Finish, Unwound, HandlerReads

LEMMA OthersSettled ==
  ASSUME AgedInv,
         \/ UNCHANGED vars \/ Admission
         \/ \E r \in Token : InstanceStep(r) \/ Disturbance(r)
         \/ \E i \in Instances : LooseStep(i)
         \/ \E e \in Entity : Expire(e)
  PROVE  Settled
<1>1. ASSUME UNCHANGED <<hstat, aged>>
      PROVE  Settled
  BY <1>1 DEF Settled, AgedInv
<1>2. CASE Admission
  <2>1. ASSUME NEW r \in Token, NEW o \in Ops, Check(r, o)
        PROVE  Settled
    BY <2>1 DEF Check, Admits, Settled, AgedInv
  <2> QED
    BY <1>1, <1>2, <2>1 DEF Admission, ICheck
<1>3. ASSUME NEW r \in Token, Disturbance(r)
      PROVE  Settled
  <2>1. SetHost("error") \/ UNCHANGED <<hstat, aged>>
    BY <1>3 DEF Disturbance, WebCrash, TailFails, JobFails, WorkerCrash
  <2> QED
    BY <1>1, <2>1, SetHostSettled
<1>4. ASSUME NEW r \in Token, InstanceStep(r)
      PROVE  Settled
  BY <1>1, <1>4 DEF InstanceStep, IInsert, IAcquire, IRefused, ICommit, IRecord, IFinish
<1> QED
  BY <1>1, <1>2, <1>3, <1>4 DEF vars, LooseStep, LooseStart, LooseEnd, Expire

LEMMA NextInv ==
  ASSUME HostInv, AgedInv, Punctual, [Next]_vars
  PROVE  Advance /\ AgedInv'
<1>1. CASE Age
  BY <1>1, AgeInv
<1>2. CASE ~Age
  <2>1. ASSUME UNCHANGED vars
        PROVE  Advance /\ Settled
    <3>1. /\ hstat' = hstat /\ ws' = ws /\ machine' = machine /\ tail' = tail
          /\ istat' = istat /\ loose' = loose /\ stranded' = stranded
          /\ req' = req /\ UNCHANGED redisVars /\ lock' = lock
      BY <2>1 DEF vars, redisVars
    <3>2. DataTyped /\ RedisInv'
      BY <3>1, RedisUnchangedInv DEF DataTyped, HostInv, RestTyped
    <3> QED
      BY <2>1, <3>1, <3>2, QuietStep, OthersSettled
  <2>2. ASSUME Admission
        PROVE  Advance /\ Settled
    BY <2>2, CheckInv, ICheckInv, OthersSettled DEF Admission
  <2>3. ASSUME NEW r \in Token, Disturbance(r)
        PROVE  Advance /\ Settled
    BY <2>3, WebCrashInv, TailFailsInv, JobFailsInv, WorkerCrashInv, OthersSettled
       DEF Disturbance
  <2>4. Advance /\ Settled
    BY <1>2, <2>1, <2>2, <2>3, RouteInv, RouteSettled, JobInv, JobSettled, InstanceInv,
       LooseInv, ExpireInv, OthersSettled DEF Next
  <2>5. AgedInv'
    BY <2>4 DEF Advance, YoungKept, AgedInv, Settled, StaleTransitional, Transitional
  <2> QED
    BY <2>4, <2>5
<1> QED
  BY <1>1, <1>2

LEMMA InvAlways ==
  ASSUME Punctual
  PROVE  Spec => [](HostInv /\ AgedInv)
<1>1. Init => HostInv /\ AgedInv
  BY InitInv DEF Init, AgedInv
<1>2. HostInv /\ AgedInv /\ [Next]_vars => (HostInv /\ AgedInv)'
  BY NextInv DEF Advance
<1> QED
  BY <1>1, <1>2, PTL DEF Spec

-----------------------------------------------------------------------------
(* What follows from it.                                                   *)

\* Whatever the routes and jobs do, the statuses, keys and records stay within
\* the program's vocabulary.
THEOREM HostTypes ==
  ASSUME Punctual
  PROVE  Spec => []TypeOK
<1>1. HostInv /\ AgedInv => TypeOK
  BY DEF HostInv, RestTyped, AgedInv, TypeOK
<1> QED
  BY <1>1, InvAlways, PTL

\* If no TTL runs out under a working operation, whatever else fails, every
\* operation on a host has the keys it relies on, from the route that took them
\* to the end of its job, through the handover from provisioning to setup: its
\* own for the host, and for a re-run those of all the host's instances. The
\* lock of the host is promised to an operation only until it is robbed of it:
\* by the provision job behind a setup that died, or failed at its last write,
\* after handing over (TailFails), or by a deletion whose request had read the
\* row while the host was stuck, and which takes the lock from whoever has it by
\* then (ForceRelease). The locks of instances nothing takes away.
THEOREM LocksAreHeld ==
  ASSUME Punctual
  PROVE  Spec => []HoldersLocked
<1>1. HostInv => HoldersLocked
  BY DEF HostInv, LocksOf, HoldersLocked
<1> QED
  BY <1>1, InvAlways, PTL

\* An operation that came to an orderly end, with success or without, has given
\* back every lock it took, those of the instances, too.
THEOREM LocksAreReturned ==
  ASSUME Punctual
  PROVE  Spec => []LocksReturned
<1>1. HostInv => LocksReturned
  BY DEF HostInv, LocksOf, LocksReturned, In, LockPhases, HostOwning
<1> QED
  BY <1>1, InvAlways, PTL

\* If terraform's failures are not mistaken for a machine that is gone already,
\* no machine runs on for a host that is deleted, whatever fails or dies when.
THEOREM NoMachineForgotten ==
  ASSUME Punctual, "mistaken" \notin Faults
  PROVE  Spec => []NoOrphanMachine
<1>1. HostInv => NoOrphanMachine
  BY DEF HostInv, Cloud, NoOrphanMachine
<1> QED
  BY <1>1, InvAlways, PTL

\* Under the same conditions the work under the locks is what the locks
\* promise: one operation at a time works on the host, and on each instance,
\* though a re-run works on many and provisioning hands its work over. Two may
\* work on the host at once only when one of them was robbed of its lock, as
\* above; the one robbed is not counted.
THEOREM HostWorkExcludes ==
  ASSUME Punctual
  PROVE  Spec => OneAtATime
<1>1. Init => Exclusion!Init
  BY DEF Init, Exclusion!Init, NoRequest, Holds, In, HostOwning, InstanceOwning
<1>2. HostInv /\ AgedInv /\ [Next]_vars => ExStep
  BY NextInv DEF Advance
<1> QED
  BY <1>1, <1>2, InvAlways, PTL DEF Spec, OneAtATime, Exclusion!Spec, ExStep
=============================================================================
