--------------------------- MODULE RconRoomsProofs ---------------------------
(***************************************************************************)
(* For any number of sessions, targets and handler threads: tickets are    *)
(* drawn once and kept in order, a session owns what it is in the room of, *)
(* the service holds a connection for every room that has somebody in it,  *)
(* and a closed session has left nothing behind.                           *)
(***************************************************************************)
EXTENDS RconRooms, TLAPS

Queued(queue, x) == \E i \in DOMAIN queue : queue[i] = x

\* The handler holds the lock of its target's gate: what it does there comes
\* in several steps (Working), and before and after them it waits or leaves.
Working == {"connect", "publish", "published", "unpublished", "leaveroom", "count"}
Inside == Working \cup {"out"}

InGate(x, t) == th[x].pc \in Inside \cup {"gated"} /\ th[x].target = t
Amid(x, t) == th[x].pc \in Working /\ th[x].target = t
InFleet(x, s) == th[x].op = "fleet" /\ th[x].sid = s

-----------------------------------------------------------------------------
(* The inductive invariant.                                                *)

\* Tickets: one per handler that waits or works, and who works is the first.
TargetGates ==
    /\ \A t \in Target, x \in Thread : Queued(gate[t], x) <=> InGate(x, t)
    /\ \A x \in Thread : th[x].pc \in Inside =>
          gate[th[x].target] # <<>> /\ Head(gate[th[x].target]) = x

FleetGates ==
    /\ \A s \in Sid, x \in Thread : Queued(fleetGate[s], x) <=> InFleet(x, s)
    /\ \A x \in Thread : th[x].op = "fleet" /\ th[x].pc # "fleetgated" =>
          fleetGate[th[x].sid] # <<>> /\ Head(fleetGate[th[x].sid]) = x

GateInv == TargetGates /\ FleetGates

\* Which operations reach which places of the handlers.
PlaceOK(h) ==
    /\ (h.pc = "idle") <=> (h.op = "none")
    /\ h.pc = "fleetgated" => h.op = "fleet"
    /\ h.pc = "drain" => h.op = "close"
    /\ h.pc = "next" => h.op \in {"fleet", "close"}
    /\ h.pc \in {"connect", "publish", "published", "unpublished"} => h.op \in {"join", "fleet"}
    /\ h.op = "close" => h.add = {} /\ (h.pc # "drain" => h.mode = "del")

PlaceInv == \A x \in Thread : PlaceOK(th[x])

\* A session is closed by one handler, which has it to itself once it drained
\* the others, and which has on its list whatever the session still owns.
SessionInv ==
    /\ \A x \in Thread : th[x].op = "close" => session[th[x].sid] = "closing"
    /\ \A x, y \in Thread : th[x].op = "close" /\ th[y].op = "close"
          /\ th[x].sid = th[y].sid => x = y
    /\ \A x \in Thread : th[x].op = "close" /\ th[x].pc # "drain" =>
          /\ Active(th[x].sid) = {}
          /\ \A t \in Target : owners[th[x].sid][t] # {} =>
                t \in th[x].del \/ (th[x].pc = "gated" /\ th[x].target = t)
    /\ \A x \in Thread : th[x].op # "none" => session[th[x].sid] # "closed"
    /\ ClosedOwnsNothing

\* Ownership and rooms, but for the handler that is between the two, and
\* connection states only of what is owned.
RoomInv ==
    /\ \A s \in Sid, t \in Target :
          (\A x \in Thread : ~(th[x].pc = "leaveroom" /\ th[x].sid = s /\ th[x].target = t)) =>
              (owners[s][t] # {} <=> s \in room[t])
    /\ \A s \in Sid, t \in Target : conn[s][t] # "none" => owners[s][t] # {}

\* What the service was told agrees with the room when nobody is at work, ...
Settled(t) == ~apart[t] => (Told(t) <=> room[t] # {})
SettledInv == \A t \in Target : (\A x \in Thread : ~Amid(x, t)) => Settled(t)

\* ... and what the handler at work has still to make it agree with.
Rest(x, s, t) == owners[s][t] \ (IF th[x].changed THEN {OwnerOf(x)} ELSE {})

Joining(x, s, t) ==
    /\ th[x].pc \in {"connect", "publish", "published", "unpublished"} =>
          OwnerOf(x) \in owners[s][t] /\ s \in room[t]
    /\ th[x].pc \in {"connect", "publish", "unpublished"} /\ ~apart[t] =>
          (Told(t) <=> room[t] \ (IF Rest(x, s, t) = {} THEN {s} ELSE {}) # {})
    /\ th[x].pc = "connect" /\ Rest(x, s, t) = {} => conn[s][t] = "none"
    /\ th[x].pc \in {"publish", "published", "unpublished"} => conn[s][t] = x
    /\ th[x].pc = "published" => Told(t)

Leaving(x, s, t) ==
    /\ th[x].pc \in {"leaveroom", "count"} => owners[s][t] = {} /\ (Told(t) \/ apart[t])
    /\ th[x].pc = "leaveroom" => s \in room[t]
    /\ th[x].pc = "count" => s \notin room[t]

WorkOK(x) == Joining(x, th[x].sid, th[x].target) /\ Leaving(x, th[x].sid, th[x].target)
WorkInv == \A x \in Thread : WorkOK(x)

DataInv == RoomInv /\ SettledInv /\ WorkInv
RconInv == TypeOK /\ GateInv /\ PlaceInv /\ SessionInv /\ DataInv

-----------------------------------------------------------------------------
(* Queues of tickets.                                                      *)

\* A new ticket is drawn behind the others.
LEMMA DrawTicket ==
  ASSUME NEW S, NEW q \in Seq(S), NEW x \in S, IsInjective(q), ~Queued(q, x)
  PROVE  /\ Append(q, x) \in Seq(S)
         /\ IsInjective(Append(q, x))
         /\ Append(q, x) # <<>>
         /\ \A y : Queued(Append(q, x), y) <=> (Queued(q, y) \/ y = x)
         /\ q # <<>> => Head(Append(q, x)) = Head(q)
<1> DEFINE n == Len(q)
<1>1. /\ n \in Nat /\ DOMAIN q = 1..n
      /\ Append(q, x) \in Seq(S)
      /\ Len(Append(q, x)) = n + 1 /\ DOMAIN Append(q, x) = 1..(n + 1)
      /\ \A i \in 1..n : Append(q, x)[i] = q[i]
      /\ Append(q, x)[n + 1] = x
  OBVIOUS
<1>2. Append(q, x) # <<>>
  <2>1. Len(<<>>) = 0 /\ n + 1 # 0
    BY <1>1
  <2> QED
    BY <2>1, <1>1
<1> HIDE DEF n
<1>3. IsInjective(Append(q, x))
  <2> SUFFICES ASSUME NEW i \in 1..(n + 1), NEW j \in 1..(n + 1),
                      Append(q, x)[i] = Append(q, x)[j]
               PROVE  i = j
    BY <1>1 DEF IsInjective
  <2>1. CASE i \in 1..n /\ j \in 1..n
    BY <2>1, <1>1 DEF IsInjective
  <2>2. CASE i = n + 1 /\ j \in 1..n
    BY <2>2, <1>1 DEF Queued
  <2>3. CASE j = n + 1 /\ i \in 1..n
    BY <2>3, <1>1 DEF Queued
  <2> QED
    BY <2>1, <2>2, <2>3, <1>1
<1>4. ASSUME NEW y
      PROVE  Queued(Append(q, x), y) <=> (Queued(q, y) \/ y = x)
  <2>1. \A i \in 1..n : i \in 1..(n + 1)
    BY <1>1
  <2>2. \A i \in 1..(n + 1) : i \in 1..n \/ i = n + 1
    BY <1>1
  <2>3. n + 1 \in 1..(n + 1)
    BY <1>1
  <2> QED
    BY <2>1, <2>2, <2>3, <1>1 DEF Queued
<1>5. q # <<>> => Head(Append(q, x)) = Head(q)
  OBVIOUS
<1> QED
  BY <1>1, <1>2, <1>3, <1>4, <1>5

\* Giving back the ticket of the first.
LEMMA ReturnTicket ==
  ASSUME NEW S, NEW q \in Seq(S), NEW x \in S, IsInjective(q), q # <<>>, Head(q) = x
  PROVE  /\ Without(q, x) \in Seq(S)
         /\ IsInjective(Without(q, x))
         /\ \A y : Queued(Without(q, x), y) <=> (Queued(q, y) /\ y # x)
<1> DEFINE n == Len(q)
           r == Tail(q)
<1>1. /\ n \in Nat /\ n > 0 /\ DOMAIN q = 1..n
      /\ q[1] = x
      /\ r \in Seq(S) /\ Len(r) = n - 1 /\ DOMAIN r = 1..(n - 1)
      /\ \A i \in 1..(n - 1) : r[i] = q[i + 1]
  OBVIOUS
<1>2. (CHOOSE i \in DOMAIN q : q[i] = x) = 1
  <2>1. 1 \in DOMAIN q /\ \A i \in DOMAIN q : q[i] = x => i = 1
    BY <1>1 DEF IsInjective
  <2> QED
    BY <2>1, <1>1
<1>3. Without(q, x) = SubSeq(q, 1, 1 - 1) \o SubSeq(q, 1 + 1, Len(q))
  BY <1>2 DEF Without, RemoveAt
<1>4. Without(q, x) = r
  <2>1. SubSeq(q, 1, 1 - 1) = <<>> /\ SubSeq(q, 1 + 1, Len(q)) = r
    BY <1>1
  <2> QED
    BY <2>1, <1>1, <1>3
<1> HIDE DEF n, r
<1>5. IsInjective(r)
  <2> SUFFICES ASSUME NEW i \in 1..(n - 1), NEW j \in 1..(n - 1), r[i] = r[j]
               PROVE  i = j
    BY <1>1 DEF IsInjective
  <2>1. i + 1 \in 1..n /\ j + 1 \in 1..n /\ q[i + 1] = q[j + 1]
    BY <1>1
  <2>2. i + 1 = j + 1
    BY <2>1, <1>1 DEF IsInjective
  <2> QED
    BY <2>2
<1>6. ASSUME NEW y
      PROVE  Queued(r, y) <=> (Queued(q, y) /\ y # x)
  <2>1. ASSUME Queued(r, y)
        PROVE  Queued(q, y) /\ y # x
    <3>1. PICK i \in 1..(n - 1) : r[i] = y
      BY <2>1, <1>1 DEF Queued
    <3>2. i + 1 \in 1..n /\ i + 1 # 1 /\ q[i + 1] = y
      BY <3>1, <1>1
    <3> QED
      BY <3>2, <1>1 DEF Queued, IsInjective
  <2>2. ASSUME Queued(q, y), y # x
        PROVE  Queued(r, y)
    <3>1. PICK i \in 1..n : q[i] = y
      BY <2>2, <1>1 DEF Queued
    <3>2. i - 1 \in 1..(n - 1) /\ (i - 1) + 1 = i
      BY <3>1, <2>2, <1>1
    <3>3. r[i - 1] = y
      BY <3>1, <3>2, <1>1
    <3> QED
      BY <3>2, <3>3, <1>1 DEF Queued
  <2> QED
    BY <2>1, <2>2
<1> QED
  BY <1>1, <1>4, <1>5, <1>6

-----------------------------------------------------------------------------
(* What the service will hold once it has read its messages.               *)

Message == {"connect", "disconnect", "command"}

Commands(c, from) == \A j \in from..Len(c) : c[j] = "command"
Holds(c, v) ==
    \/ \E i \in DOMAIN c : c[i] = "connect" /\ Commands(c, i + 1)
    \/ v /\ Commands(c, 1)

LEMMA ToldHolds ==
  \A t \in Target : (Told(t) <=> Holds(chan[t], svc[t])) /\ (Told(t)' <=> Holds(chan'[t], svc'[t]))
BY DEF Told, Holds, OnlyCommands, Commands

LEMMA HoldsAppend ==
  ASSUME NEW c \in Seq(Message), NEW v \in BOOLEAN
  PROVE  /\ Holds(Append(c, "connect"), v)
         /\ ~Holds(Append(c, "disconnect"), v)
         /\ Holds(Append(c, "command"), v) <=> Holds(c, v)
<1>1. ASSUME NEW m \in Message
      PROVE  /\ Len(c) \in Nat /\ DOMAIN c = 1..Len(c)
             /\ Append(c, m) \in Seq(Message)
             /\ Len(Append(c, m)) = Len(c) + 1
             /\ DOMAIN Append(c, m) = 1..(Len(c) + 1)
             /\ \A i \in 1..Len(c) : Append(c, m)[i] = c[i]
             /\ Append(c, m)[Len(c) + 1] = m
  OBVIOUS
<1>2. Holds(Append(c, "connect"), v)
  <2>1. "connect" \in Message
    BY DEF Message
  <2>2. Commands(Append(c, "connect"), Len(c) + 1 + 1)
    BY <1>1, <2>1 DEF Commands
  <2>3. Len(c) + 1 \in 1..(Len(c) + 1)
    BY <1>1, <2>1
  <2> QED
    BY <1>1, <2>1, <2>2, <2>3 DEF Holds
<1>3. ~Holds(Append(c, "disconnect"), v)
  <2> DEFINE d == Append(c, "disconnect")
  <2>1. "disconnect" \in Message
    BY DEF Message
  <2>2. d[Len(c) + 1] = "disconnect" /\ Len(d) = Len(c) + 1 /\ DOMAIN d = 1..(Len(c) + 1)
    BY <1>1, <2>1
  <2> HIDE DEF d
  <2>3. \A k \in 1..(Len(c) + 1) : ~Commands(d, k)
    BY <2>2, <1>1, <2>1 DEF Commands
  <2>4. 1 \in 1..(Len(c) + 1)
    BY <1>1, <2>1
  <2>5. ASSUME NEW i \in 1..(Len(c) + 1), d[i] = "connect"
        PROVE  i + 1 \in 1..(Len(c) + 1)
    BY <2>5, <2>2, <1>1, <2>1
  <2>6. ~Holds(d, v)
    BY <2>2, <2>3, <2>4, <2>5 DEF Holds
  <2> QED
    BY <2>6 DEF d
<1>4. Holds(Append(c, "command"), v) <=> Holds(c, v)
  <2> DEFINE d == Append(c, "command")
  <2>1. "command" \in Message
    BY DEF Message
  <2>2. /\ Len(c) \in Nat /\ DOMAIN c = 1..Len(c)
        /\ Len(d) = Len(c) + 1 /\ DOMAIN d = 1..(Len(c) + 1)
        /\ \A i \in 1..Len(c) : d[i] = c[i]
        /\ d[Len(c) + 1] = "command"
    BY <1>1, <2>1
  <2> HIDE DEF d
  <2>3. ASSUME NEW k \in 1..(Len(c) + 1)
        PROVE  Commands(d, k) <=> Commands(c, k)
    BY <2>2 DEF Commands
  <2>4. 1 \in 1..(Len(c) + 1) /\ \A i \in 1..Len(c) : i + 1 \in 1..(Len(c) + 1)
    BY <2>2
  <2>5. ASSUME NEW i \in 1..(Len(c) + 1), d[i] = "connect"
        PROVE  i \in 1..Len(c)
    BY <2>5, <2>2
  <2>6. \A i \in 1..Len(c) : i \in 1..(Len(c) + 1)
    BY <2>2
  <2>7. Holds(d, v) <=> Holds(c, v)
    BY <2>2, <2>3, <2>4, <2>5, <2>6 DEF Holds
  <2> QED
    BY <2>7 DEF d
<1> QED
  BY <1>2, <1>3, <1>4

\* The service reads a message.
LEMMA HoldsTail ==
  ASSUME NEW c \in Seq(Message), c # <<>>, NEW v \in BOOLEAN
  PROVE  Holds(Tail(c), IF Head(c) = "command" THEN v ELSE Head(c) = "connect") <=> Holds(c, v)
<1> DEFINE n == Len(c)
           r == Tail(c)
           w == IF Head(c) = "command" THEN v ELSE Head(c) = "connect"
<1>1. /\ n \in Nat /\ n > 0 /\ DOMAIN c = 1..n
      /\ r \in Seq(Message) /\ Len(r) = n - 1 /\ DOMAIN r = 1..(n - 1)
      /\ \A i \in 1..(n - 1) : r[i] = c[i + 1]
      /\ Head(c) = c[1]
  OBVIOUS
<1>2. w = (IF c[1] = "command" THEN v ELSE c[1] = "connect") /\ Len(c) = n
  BY <1>1
<1> HIDE DEF n, r, w
<1>3. ASSUME NEW k \in 1..n
      PROVE  Commands(r, k) <=> Commands(c, k + 1)
  <2>1. ASSUME Commands(r, k), NEW j \in (k + 1)..n
        PROVE  c[j] = "command"
    <3>1. j - 1 \in k..(n - 1) /\ j - 1 \in 1..(n - 1) /\ (j - 1) + 1 = j
      BY <1>1
    <3> QED
      BY <3>1, <2>1, <1>1 DEF Commands
  <2>2. ASSUME Commands(c, k + 1), NEW j \in k..(n - 1)
        PROVE  r[j] = "command"
    <3>1. j + 1 \in (k + 1)..n /\ j \in 1..(n - 1)
      BY <1>1
    <3> QED
      BY <3>1, <2>2, <1>1, <1>2 DEF Commands
  <2> QED
    BY <2>1, <2>2, <1>1, <1>2 DEF Commands
<1>4. Commands(c, 1) <=> c[1] = "command" /\ Commands(c, 2)
  BY <1>1, <1>2 DEF Commands
<1>5. Commands(r, 1) <=> Commands(c, 2)
  BY <1>3, <1>1
<1>6. (\E i \in 1..(n - 1) : r[i] = "connect" /\ Commands(r, i + 1))
      <=> (\E i \in 2..n : c[i] = "connect" /\ Commands(c, i + 1))
  <2>1. ASSUME NEW i \in 1..(n - 1), r[i] = "connect", Commands(r, i + 1)
        PROVE  \E k \in 2..n : c[k] = "connect" /\ Commands(c, k + 1)
    <3>1. i + 1 \in 2..n /\ i + 1 \in 1..n /\ c[i + 1] = "connect"
      BY <2>1, <1>1
    <3>2. Commands(c, (i + 1) + 1)
      BY <2>1, <3>1, <1>3
    <3> QED
      BY <3>1, <3>2
  <2>2. ASSUME NEW i \in 2..n, c[i] = "connect", Commands(c, i + 1)
        PROVE  \E k \in 1..(n - 1) : r[k] = "connect" /\ Commands(r, k + 1)
    <3>1. i - 1 \in 1..(n - 1) /\ i \in 1..n /\ (i - 1) + 1 = i
      BY <1>1
    <3>2. r[i - 1] = "connect" /\ Commands(r, (i - 1) + 1)
      BY <2>2, <3>1, <1>1, <1>3
    <3> QED
      BY <3>1, <3>2
  <2> QED
    BY <2>1, <2>2
<1>7. (\E i \in 1..n : c[i] = "connect" /\ Commands(c, i + 1))
      <=> \/ c[1] = "connect" /\ Commands(c, 2)
          \/ \E i \in 2..n : c[i] = "connect" /\ Commands(c, i + 1)
  <2>1. 1 \in 1..n /\ (\A i \in 2..n : i \in 1..n) /\ (\A i \in 1..n : i = 1 \/ i \in 2..n)
    BY <1>1
  <2> QED
    BY <2>1
<1>8. Holds(r, w) <=> Holds(c, v)
  BY <1>1, <1>2, <1>4, <1>5, <1>6, <1>7 DEF Holds
<1> QED
  BY <1>8 DEF r, w

-----------------------------------------------------------------------------
(* Updates of the registry, of the handlers and of the channels.           *)

LEMMA Cell ==
  ASSUME NEW A, NEW f \in [Sid -> [Target -> A]], NEW s \in Sid, NEW t \in Target, NEW v \in A,
         NEW g, g = [f EXCEPT ![s][t] = v]
  PROVE  /\ g \in [Sid -> [Target -> A]]
         /\ g[s][t] = v
         /\ \A r \in Sid, u \in Target : r # s \/ u # t => g[r][u] = f[r][u]
OBVIOUS

LEMMA Row ==
  ASSUME NEW A, NEW f \in [Target -> A], NEW t \in Target, NEW v \in A,
         NEW g, g = [f EXCEPT ![t] = v]
  PROVE  /\ g \in [Target -> A]
         /\ g[t] = v
         /\ \A u \in Target : u # t => g[u] = f[u]
OBVIOUS

SameButPc(h, k) ==
    /\ h.op = k.op /\ h.sid = k.sid /\ h.target = k.target
    /\ h.add = k.add /\ h.del = k.del /\ h.mode = k.mode

LEMMA Moves ==
  ASSUME th \in [Thread -> Handler], NEW x \in Thread, NEW p \in Pc, Goto(x, p)
  PROVE  /\ th' \in [Thread -> Handler]
         /\ th'[x].pc = p /\ th'[x].changed = th[x].changed /\ SameButPc(th'[x], th[x])
         /\ \A y \in Thread : y # x => th'[y] = th[y]
<1>1. th[x] \in Handler /\ [th[x] EXCEPT !.pc = p] \in Handler
  BY DEF Handler
<1>2. th' = [th EXCEPT ![x] = [th[x] EXCEPT !.pc = p]]
  BY DEF Goto
<1>3. /\ th' \in [Thread -> Handler] /\ th'[x] = [th[x] EXCEPT !.pc = p]
      /\ \A y \in Thread : y # x => th'[y] = th[y]
  BY <1>1, <1>2
<1> QED
  BY <1>1, <1>3 DEF SameButPc, Handler

LEMMA Becomes ==
  ASSUME th \in [Thread -> Handler], NEW x \in Thread, NEW h \in Handler,
         th' = [th EXCEPT ![x] = h]
  PROVE  /\ th' \in [Thread -> Handler]
         /\ th'[x] = h
         /\ \A y \in Thread : y # x => th'[y] = th[y]
OBVIOUS

LEMMA IdleType == Idle \in Handler
<1>1. (CHOOSE s \in Sid : TRUE) \in Sid /\ (CHOOSE t \in Target : TRUE) \in Target
  BY RconAssumption
<1> QED
  BY <1>1 DEF Idle, Handler, Pc, Ops

LEMMA ToldSame ==
  ASSUME NEW t \in Target, chan'[t] = chan[t], svc'[t] = svc[t]
  PROVE  Told(t)' <=> Told(t)
BY ToldHolds

LEMMA Sends ==
  ASSUME TypeOK, NEW t \in Target, NEW m \in Message, Send(t, m), svc' = svc
  PROVE  /\ chan' \in [Target -> Seq(Message)]
         /\ apart' \in [Target -> BOOLEAN]
         /\ apart'[t] <=> (apart[t] /\ m = "command")
         /\ \A u \in Target : u # t => chan'[u] = chan[u] /\ apart'[u] = apart[u]
         /\ m = "connect" => Told(t)'
         /\ m = "disconnect" => ~Told(t)'
         /\ m = "command" => (Told(t)' <=> Told(t))
<1>1. /\ chan \in [Target -> Seq(Message)] /\ svc[t] \in BOOLEAN
      /\ apart \in [Target -> BOOLEAN]
  BY DEF TypeOK, Message
<1>2. Append(chan[t], m) \in Seq(Message)
  BY <1>1
<1>3. /\ chan' \in [Target -> Seq(Message)] /\ chan'[t] = Append(chan[t], m)
      /\ \A u \in Target : u # t => chan'[u] = chan[u]
  <2>1. chan' = [chan EXCEPT ![t] = Append(chan[t], m)]
    BY DEF Send
  <2> QED
    BY <2>1, <1>1, <1>2, Row
<1>4. /\ apart' \in [Target -> BOOLEAN] /\ apart'[t] = (apart[t] /\ m = "command")
      /\ \A u \in Target : u # t => apart'[u] = apart[u]
  <2>1. apart' = [apart EXCEPT ![t] = (apart[t] /\ m = "command")]
    BY DEF Send
  <2>2. (apart[t] /\ m = "command") \in BOOLEAN
    OBVIOUS
  <2> QED
    BY <2>1, <2>2, <1>1, Row
<1>5. (Told(t) <=> Holds(chan[t], svc[t])) /\ (Told(t)' <=> Holds(Append(chan[t], m), svc[t]))
  BY <1>3, ToldHolds
<1>6. /\ Holds(Append(chan[t], "connect"), svc[t])
      /\ ~Holds(Append(chan[t], "disconnect"), svc[t])
      /\ Holds(Append(chan[t], "command"), svc[t]) <=> Holds(chan[t], svc[t])
  BY <1>1, HoldsAppend
<1> QED
  BY <1>3, <1>4, <1>5, <1>6

-----------------------------------------------------------------------------
(* A step outside the gates: ownership, rooms and messages stay, and so do *)
(* the handlers that are at work.                                          *)

LEMMA DataKept ==
  ASSUME DataInv, th \in [Thread -> Handler], UNCHANGED <<owners, conn, room, apart>>,
         \A t \in Target : Told(t)' <=> Told(t),
         \A x \in Thread : th[x].pc \in Working \/ th'[x].pc \in Working => th'[x] = th[x]
  PROVE  DataInv'
<1>1. \A t \in Target : Settled(t)' <=> Settled(t)
  BY DEF Settled
<1>2. \A x \in Thread, t \in Target : Amid(x, t)' <=> Amid(x, t)
  BY DEF Amid
<1>3. RoomInv'
  BY DEF DataInv, RoomInv, Working
<1>4. SettledInv'
  BY <1>1, <1>2 DEF DataInv, SettledInv
<1>5. WorkInv'
  <2> SUFFICES ASSUME NEW x \in Thread
               PROVE  WorkOK(x)'
    BY DEF WorkInv
  <2>1. CASE th'[x].pc \notin Working
    BY <2>1 DEF WorkOK, Joining, Leaving, Working
  <2>2. CASE th'[x].pc \in Working
    <3> SUFFICES ASSUME NEW s \in Sid, NEW t \in Target, th[x].sid = s, th[x].target = t
                 PROVE  WorkOK(x)'
      BY DEF Handler
    <3>1. th'[x] = th[x] /\ Joining(x, s, t) /\ Leaving(x, s, t)
      BY <2>2 DEF DataInv, WorkInv, WorkOK
    <3>2. Joining(x, s, t)' /\ Leaving(x, s, t)'
      BY <3>1 DEF Joining, Leaving, Rest, OwnerOf
    <3> QED
      BY <3>1, <3>2 DEF WorkOK
  <2> QED
    BY <2>1, <2>2
<1> QED
  BY <1>3, <1>4, <1>5 DEF DataInv

-----------------------------------------------------------------------------
(* A step of the handler whose turn it is at its target's gate.            *)

GateFrame(x, s, t) ==
    /\ th[x].sid = s /\ th[x].target = t /\ th[x].pc \in Inside \cup {"gated"}
    /\ gate[t] # <<>> /\ Head(gate[t]) = x
    /\ th'[x].pc \in Inside /\ SameButPc(th'[x], th[x])
    /\ \A y \in Thread : y # x => th'[y] = th[y]
    /\ session' = session /\ gate' = gate /\ fleetGate' = fleetGate /\ svc' = svc
    /\ \A r \in Sid, u \in Target : r # s \/ u # t =>
          /\ owners'[r][u] = owners[r][u] /\ conn'[r][u] = conn[r][u]
          /\ r \in room'[u] <=> r \in room[u]
    /\ \A u \in Target : u # t => chan'[u] = chan[u] /\ apart'[u] = apart[u]

\* What is left to show of such a step.
GateResult(x, s, t) ==
    /\ th'[x].pc \in {"connect", "publish", "published", "unpublished"} => th[x].op \in {"join", "fleet"}
    /\ th[x].op = "close" => owners'[s][t] = {}
    /\ th'[x].pc # "leaveroom" => (owners'[s][t] # {} <=> s \in room'[t])
    /\ conn'[s][t] # "none" => owners'[s][t] # {}
    /\ th'[x].pc = "out" => Settled(t)'
    /\ Joining(x, s, t)' /\ Leaving(x, s, t)'

\* Two handlers cannot both have their turn.
LEMMA OneTurn ==
  ASSUME GateInv, NEW x \in Thread, NEW t \in Target, Head(gate[t]) = x,
         NEW y \in Thread, y # x, th[y].pc \in Inside
  PROVE  th[y].target # t
BY DEF GateInv, TargetGates, FleetGates

LEMMA GateStepGates ==
  ASSUME RconInv, NEW x \in Thread, NEW s \in Sid, NEW t \in Target, GateFrame(x, s, t)
  PROVE  GateInv'
<1>1. /\ GateInv /\ gate' = gate /\ fleetGate' = fleetGate
      /\ SameButPc(th'[x], th[x]) /\ th[x].pc \in Inside \cup {"gated"} /\ th'[x].pc \in Inside
      /\ th[x].target = t /\ gate[t] # <<>> /\ Head(gate[t]) = x
      /\ \A y \in Thread : y # x => th'[y] = th[y]
  BY DEF RconInv, GateFrame
<1>2. \A y \in Thread, u \in Target : InGate(y, u)' <=> InGate(y, u)
  BY <1>1 DEF InGate, SameButPc
<1>3. \A y \in Thread, r \in Sid : InFleet(y, r)' <=> InFleet(y, r)
  BY <1>1 DEF InFleet, SameButPc
<1>4. \A y \in Thread : th'[y].pc \in Inside =>
          gate[th'[y].target] # <<>> /\ Head(gate[th'[y].target]) = y
  BY <1>1 DEF GateInv, TargetGates, FleetGates, SameButPc
<1>5. \A y \in Thread : th'[y].op = "fleet" /\ th'[y].pc # "fleetgated" =>
          fleetGate[th'[y].sid] # <<>> /\ Head(fleetGate[th'[y].sid]) = y
  <2>1. th[x].pc # "fleetgated"
    BY <1>1 DEF Inside, Working
  <2> QED
    BY <1>1, <2>1 DEF GateInv, TargetGates, FleetGates, SameButPc
<1> QED
  BY <1>1, <1>2, <1>3, <1>4, <1>5 DEF GateInv, TargetGates, FleetGates, Queued

LEMMA GateStepSessions ==
  ASSUME RconInv, NEW x \in Thread, NEW s \in Sid, NEW t \in Target, GateFrame(x, s, t),
         th[x].op = "close" => owners'[s][t] = {}
  PROVE  SessionInv'
<1>1. /\ SessionInv /\ PlaceInv /\ session' = session
      /\ th[x].sid = s /\ th[x].target = t
      /\ SameButPc(th'[x], th[x]) /\ th[x].pc \in Inside \cup {"gated"} /\ th'[x].pc \in Inside
      /\ \A y \in Thread : y # x => th'[y] = th[y]
  BY DEF RconInv, GateFrame
<1>2. \A r \in Sid, u \in Target : r # s \/ u # t =>
          /\ owners'[r][u] = owners[r][u] /\ conn'[r][u] = conn[r][u]
          /\ r \in room'[u] <=> r \in room[u]
  BY DEF GateFrame
<1>3. th[x].pc # "drain" /\ th[x].op # "none"
  BY <1>1 DEF PlaceInv, PlaceOK, Inside, Working
<1>4. \A y \in Thread : th'[y].op = th[y].op /\ th'[y].sid = th[y].sid
  BY <1>1 DEF SameButPc
<1>6. session[s] # "closed"
  BY <1>1, <1>3 DEF SessionInv
<1>7. ClosedOwnsNothing'
  BY <1>1, <1>2, <1>6 DEF SessionInv, ClosedOwnsNothing
<1>8. ASSUME NEW y \in Thread, th'[y].op = "close", th'[y].pc # "drain"
      PROVE  /\ Active(th[y].sid)' = {}
             /\ \A u \in Target : owners'[th'[y].sid][u] # {} =>
                   u \in th'[y].del \/ (th'[y].pc = "gated" /\ th'[y].target = u)
  <2>1. th[y].sid \in Sid
    BY DEF RconInv, TypeOK, Handler
  <2>2. th[y].op = "close" /\ th[y].pc # "drain" /\ th'[y].del = th[y].del
    BY <1>8, <1>1, <1>3, <1>4 DEF SameButPc
  <2>3. /\ Active(th[y].sid) = {}
        /\ \A u \in Target : owners[th[y].sid][u] # {} =>
              u \in th[y].del \/ (th[y].pc = "gated" /\ th[y].target = u)
    BY <2>2, <1>1 DEF SessionInv
  <2>4. Active(th[y].sid)' = {}
    BY <2>1, <2>3, <1>4 DEF Active
  <2>5. CASE y = x
    BY <2>5, <2>2, <2>3, <1>1, <1>2, <1>4, <2>4
  <2>6. CASE y # x
    <3>1. th[y].sid # s
      <4>1. th[y].sid = s => x \notin Active(s)
        BY <2>3
      <4>2. th[y].sid = s /\ th[x].op = "close" => x = y
        BY <2>2, <1>1 DEF SessionInv
      <4> QED
        BY <4>1, <4>2, <2>6, <1>1, <1>3 DEF Active
    <3> QED
      BY <3>1, <2>1, <2>3, <2>4, <2>6, <1>1, <1>2
  <2> QED
    BY <2>5, <2>6
<1>9. /\ \A y \in Thread : th'[y].op = "close" => session'[th'[y].sid] = "closing"
      /\ \A y, z \in Thread : th'[y].op = "close" /\ th'[z].op = "close"
            /\ th'[y].sid = th'[z].sid => y = z
      /\ \A y \in Thread : th'[y].op # "none" => session'[th'[y].sid] # "closed"
  BY <1>1, <1>4 DEF SessionInv
<1> QED
  BY <1>7, <1>8, <1>9 DEF SessionInv

LEMMA GateStepData ==
  ASSUME RconInv, TypeOK', NEW x \in Thread, NEW s \in Sid, NEW t \in Target,
         GateFrame(x, s, t), GateResult(x, s, t)
  PROVE  DataInv'
<1>1. /\ GateInv /\ RoomInv /\ SettledInv /\ WorkInv
      /\ th \in [Thread -> Handler] /\ svc' = svc
      /\ th[x].sid = s /\ th[x].target = t /\ th'[x].sid = s /\ th'[x].target = t
      /\ Head(gate[t]) = x /\ th'[x].pc \in Inside
      /\ \A y \in Thread : y # x => th'[y] = th[y]
  BY DEF RconInv, DataInv, TypeOK, GateFrame, SameButPc
<1>2. \A r \in Sid, u \in Target : r # s \/ u # t =>
          /\ owners'[r][u] = owners[r][u] /\ conn'[r][u] = conn[r][u]
          /\ r \in room'[u] <=> r \in room[u]
  BY DEF GateFrame
<1>3. \A u \in Target : u # t => chan'[u] = chan[u] /\ apart'[u] = apart[u]
  BY DEF GateFrame
<1>4. RoomInv'
  <2>1. ASSUME NEW r \in Sid, NEW u \in Target,
               \A y \in Thread : ~(th'[y].pc = "leaveroom" /\ th'[y].sid = r /\ th'[y].target = u)
        PROVE  owners'[r][u] # {} <=> r \in room'[u]
    <3>1. CASE r = s /\ u = t
      BY <3>1, <2>1, <1>1 DEF GateResult
    <3>2. CASE r # s \/ u # t
      <4>1. \A y \in Thread : ~(th[y].pc = "leaveroom" /\ th[y].sid = r /\ th[y].target = u)
        BY <3>2, <2>1, <1>1
      <4>2. owners[r][u] # {} <=> r \in room[u]
        BY <4>1, <1>1 DEF RoomInv
      <4> QED
        BY <4>2, <3>2, <1>2
    <3> QED
      BY <3>1, <3>2
  <2>2. ASSUME NEW r \in Sid, NEW u \in Target, conn'[r][u] # "none"
        PROVE  owners'[r][u] # {}
    BY <2>2, <1>1, <1>2 DEF RoomInv, GateResult
  <2> QED
    BY <2>1, <2>2 DEF RoomInv
<1>5. ASSUME NEW u \in Target, u # t
      PROVE  (Told(u)' <=> Told(u)) /\ (\A r \in Sid : r \in room'[u] <=> r \in room[u])
  BY <1>5, <1>1, <1>2, <1>3, ToldSame
<1>rooms. \A u \in Target : room[u] \in SUBSET Sid /\ room'[u] \in SUBSET Sid
  BY DEF RconInv, TypeOK
<1>6. SettledInv'
  <2> SUFFICES ASSUME NEW u \in Target, \A y \in Thread : ~Amid(y, u)'
               PROVE  Settled(u)'
    BY DEF SettledInv
  <2>1. CASE u = t
    BY <2>1, <1>1 DEF GateResult, Amid, Inside
  <2>2. CASE u # t
    <3>1. \A y \in Thread : ~Amid(y, u)
      BY <2>2, <1>1 DEF Amid
    <3>2. Settled(u)
      BY <3>1, <1>1 DEF SettledInv
    <3> QED
      BY <2>2, <3>2, <1>3, <1>5, <1>rooms DEF Settled
  <2> QED
    BY <2>1, <2>2
<1>7. ASSUME NEW y \in Thread
      PROVE  WorkOK(y)'
  <2>1. CASE y = x
    BY <2>1, <1>1 DEF GateResult, WorkOK, Joining, Leaving, Rest, OwnerOf
  <2>2. CASE y # x /\ th[y].pc \notin Working
    BY <2>2, <1>1 DEF WorkOK, Joining, Leaving, Working
  <2>3. CASE y # x /\ th[y].pc \in Working
    <3> SUFFICES ASSUME NEW r \in Sid, NEW u \in Target, th[y].sid = r, th[y].target = u
                 PROVE  WorkOK(y)'
      BY <1>1 DEF Handler
    <3>1. th'[y] = th[y] /\ u # t
      BY <2>3, <1>1, OneTurn DEF Inside
    <3>2. Joining(y, r, u) /\ Leaving(y, r, u)
      BY <1>1 DEF WorkInv, WorkOK
    <3>3. /\ owners'[r][u] = owners[r][u] /\ conn'[r][u] = conn[r][u]
          /\ apart'[u] = apart[u] /\ (Told(u)' <=> Told(u))
          /\ room'[u] = room[u]
      <4>1. room[u] \in SUBSET Sid /\ room'[u] \in SUBSET Sid
        BY <3>1, <1>rooms
      <4>2. room'[u] = room[u]
        BY <4>1, <3>1, <1>5
      <4> QED
        BY <4>2, <3>1, <1>2, <1>3, <1>5
    <3>4. Joining(y, r, u)' /\ Leaving(y, r, u)'
      BY <3>1, <3>2, <3>3 DEF Joining, Leaving, Rest, OwnerOf
    <3> QED
      BY <3>1, <3>4 DEF WorkOK
  <2> QED
    BY <2>1, <2>2, <2>3
<1> QED
  BY <1>4, <1>6, <1>7 DEF DataInv, WorkInv

LEMMA GateStep ==
  ASSUME RconInv, TypeOK', NEW x \in Thread, NEW s \in Sid, NEW t \in Target,
         GateFrame(x, s, t), GateResult(x, s, t)
  PROVE  RconInv'
<1>1. PlaceInv'
  BY DEF RconInv, PlaceInv, PlaceOK, GateFrame, GateResult, SameButPc, Inside, Working
<1>2. GateInv'
  BY GateStepGates
<1>3. SessionInv'
  BY GateStepSessions DEF GateResult
<1>4. DataInv'
  BY GateStepData
<1> QED
  BY <1>1, <1>2, <1>3, <1>4 DEF RconInv

-----------------------------------------------------------------------------
(* The handlers' steps at the gate.                                        *)

\* Who is at work has its turn.
LEMMA HasTurn ==
  ASSUME RconInv, NEW x \in Thread, Turn(x) \/ th[x].pc \in Inside
  PROVE  gate[th[x].target] # <<>> /\ Head(gate[th[x].target]) = x
<1>1. CASE th[x].pc \in Inside
  BY <1>1 DEF RconInv, GateInv, TargetGates, FleetGates
<1>2. CASE Turn(x)
  <2>1. th[x].pc = "gated" /\ Head(gate[th[x].target]) = x /\ th[x].target \in Target
    BY <1>2 DEF Turn, At, RconInv, TypeOK, Handler
  <2>2. Queued(gate[th[x].target], x) /\ gate[th[x].target] \in Seq(Thread)
    BY <2>1 DEF RconInv, GateInv, TargetGates, FleetGates, InGate, TypeOK
  <2> QED
    BY <2>1, <2>2 DEF Queued
<1> QED
  BY <1>1, <1>2

\* Before and after the work of the handler whose turn it is, nobody is at work
\* on the target.
LEMMA AtRest ==
  ASSUME RconInv, NEW x \in Thread, NEW t \in Target, Head(gate[t]) = x, th[x].pc \notin Working
  PROVE  Settled(t) /\ \A s \in Sid : owners[s][t] # {} <=> s \in room[t]
<1>1. \A y \in Thread : th[y].pc \in Working => th[y].target # t
  BY OneTurn DEF RconInv, Inside
<1> QED
  BY <1>1 DEF RconInv, DataInv, SettledInv, RoomInv, Amid, Working

\* What every step at the gate knows of its handler.
LEMMA Handlers ==
  ASSUME RconInv, NEW x \in Thread
  PROVE  /\ th \in [Thread -> Handler]
         /\ th[x].sid \in Sid /\ th[x].target \in Target
         /\ th[x].pc \in Pc /\ th[x].op \in Ops /\ th[x].changed \in BOOLEAN
         /\ OwnerOf(x) \in Owner
         /\ owners \in [Sid -> [Target -> SUBSET Owner]]
         /\ conn \in [Sid -> [Target -> Thread \cup {"none", "established", "failed"}]]
         /\ room \in [Target -> SUBSET Sid]
         /\ apart \in [Target -> BOOLEAN]
         /\ PlaceOK(th[x]) /\ WorkOK(x)
BY DEF RconInv, TypeOK, Handler, OwnerOf, Owner, PlaceInv, DataInv, WorkInv

\* The types after a step at the gate.
LEMMA GateTypes ==
  ASSUME TypeOK, owners' \in [Sid -> [Target -> SUBSET Owner]],
         conn' \in [Sid -> [Target -> Thread \cup {"none", "established", "failed"}]],
         room' \in [Target -> SUBSET Sid], th' \in [Thread -> Handler],
         chan' \in [Target -> Seq(Message)], apart' \in [Target -> BOOLEAN],
         UNCHANGED <<session, gates, svc>>
  PROVE  TypeOK'
BY DEF TypeOK, gates, Message

LEMMA AcquireInv ==
  ASSUME RconInv, NEW x \in Thread, Acquire(x)
  PROVE  RconInv'
<1> SUFFICES ASSUME NEW s \in Sid, NEW t \in Target, th[x].sid = s, th[x].target = t
             PROVE  RconInv'
  BY Handlers
<1> DEFINE o == OwnerOf(x)
<1>1. /\ Turn(x) /\ th[x].pc = "gated" /\ th[x].op \in {"join", "fleet"}
      /\ UNCHANGED <<conn, session, gates, service>>
  BY DEF Acquire, Turn, At
<1>2. gate[t] # <<>> /\ Head(gate[t]) = x
  BY <1>1, HasTurn
<1>3. /\ TypeOK /\ th \in [Thread -> Handler] /\ o \in Owner
      /\ owners \in [Sid -> [Target -> SUBSET Owner]] /\ room \in [Target -> SUBSET Sid]
      /\ conn \in [Sid -> [Target -> Thread \cup {"none", "established", "failed"}]]
      /\ conn[s][t] # "none" => owners[s][t] # {}
      /\ Settled(t) /\ (owners[s][t] # {} <=> s \in room[t])
  BY <1>1, <1>2, Handlers, AtRest DEF RconInv, DataInv, RoomInv, Working
<1>4. Told(t)' <=> Told(t)
  BY <1>1, ToldSame DEF service
<1>5. ASSUME owners' = [owners EXCEPT ![s][t] = @ \cup {o}],
             room' = [room EXCEPT ![t] = IF owners[s][t] = {} THEN @ \cup {s} ELSE @],
             th' = [th EXCEPT ![x].pc = "connect", ![x].changed = o \notin owners[s][t]]
      PROVE  RconInv'
  <2>1. /\ owners' \in [Sid -> [Target -> SUBSET Owner]]
        /\ owners'[s][t] = owners[s][t] \cup {o}
        /\ \A r \in Sid, u \in Target : r # s \/ u # t => owners'[r][u] = owners[r][u]
    <3>1. owners[s][t] \cup {o} \in SUBSET Owner
      BY <1>3
    <3>2. owners' = [owners EXCEPT ![s][t] = owners[s][t] \cup {o}]
      BY <1>5
    <3> HIDE DEF o
    <3> QED
      BY <3>1, <3>2, <1>3, Cell
  <2>2. /\ room' \in [Target -> SUBSET Sid]
        /\ room'[t] = IF owners[s][t] = {} THEN room[t] \cup {s} ELSE room[t]
        /\ \A u \in Target : u # t => room'[u] = room[u]
    BY <1>3, <1>5
  <2>3. /\ th' \in [Thread -> Handler] /\ SameButPc(th'[x], th[x])
        /\ th'[x].pc = "connect" /\ th'[x].changed = (o \notin owners[s][t])
        /\ \A y \in Thread : y # x => th'[y] = th[y]
    <3> DEFINE h == [th[x] EXCEPT !.pc = "connect", !.changed = o \notin owners[s][t]]
    <3>1. th[x] \in Handler
      BY <1>3
    <3>2. /\ h \in Handler /\ SameButPc(h, th[x])
          /\ h.pc = "connect" /\ h.changed = (o \notin owners[s][t])
      BY <3>1 DEF Handler, SameButPc, Pc
    <3>3. th' = [th EXCEPT ![x] = h]
      BY <1>5
    <3> HIDE DEF h
    <3>4. /\ th' \in [Thread -> Handler] /\ th'[x] = h
          /\ \A y \in Thread : y # x => th'[y] = th[y]
      BY <3>2, <3>3, <1>3, Becomes
    <3> QED
      BY <3>2, <3>4
  <2>4. TypeOK'
    BY <2>1, <2>2, <2>3, <1>1, <1>3, GateTypes DEF service, TypeOK, Message
  <2>5. GateFrame(x, s, t)
    BY <2>1, <2>2, <2>3, <1>1, <1>2 DEF GateFrame, Inside, Working, gates, service
  <2>6. OwnerOf(x)' = o /\ Rest(x, s, t)' = owners[s][t]
    <3>1. OwnerOf(x)' = o
      BY <2>3 DEF OwnerOf, SameButPc
    <3>2. Rest(x, s, t)' = (owners[s][t] \cup {o}) \ (IF o \notin owners[s][t] THEN {o} ELSE {})
      BY <2>1, <2>3, <3>1 DEF Rest
    <3> QED
      BY <3>1, <3>2
  <2>7. /\ s \in room'[t] /\ owners'[s][t] # {} /\ o \in owners'[s][t]
        /\ room'[t] \ (IF owners[s][t] = {} THEN {s} ELSE {}) = room[t]
    BY <2>1, <2>2, <1>3
  <2>8. apart'[t] = apart[t] /\ conn'[s][t] = conn[s][t]
    BY <1>1 DEF service
  <2>9. GateResult(x, s, t)
    BY <2>3, <2>6, <2>7, <2>8, <1>1, <1>3, <1>4 DEF GateResult, Joining, Leaving, Settled
  <2> QED
    BY <2>4, <2>5, <2>9, GateStep
<1>6. ASSUME Goto(x, "out"), UNCHANGED <<owners, room>>
      PROVE  RconInv'
  <2>1. /\ th' \in [Thread -> Handler] /\ SameButPc(th'[x], th[x]) /\ th'[x].pc = "out"
        /\ \A y \in Thread : y # x => th'[y] = th[y]
    BY <1>3, <1>6, Moves DEF Pc
  <2>2. TypeOK'
    BY <2>1, <1>1, <1>3, <1>6, GateTypes DEF service, TypeOK, Message
  <2>3. GateFrame(x, s, t)
    BY <2>1, <1>1, <1>2, <1>6 DEF GateFrame, Inside, gates, service
  <2>4. GateResult(x, s, t)
    BY <2>1, <1>1, <1>3, <1>4, <1>6 DEF GateResult, Joining, Leaving, Settled, service
  <2> QED
    BY <2>2, <2>3, <2>4, GateStep
<1> QED
  BY <1>5, <1>6 DEF Acquire

\* The steps that leave rooms and messages as they are, and move the handler.
LEMMA MovedFrame ==
  ASSUME RconInv, NEW x \in Thread, NEW s \in Sid, NEW t \in Target, NEW p \in Inside,
         th[x].sid = s, th[x].target = t, Turn(x) \/ th[x].pc \in Inside, Goto(x, p),
         UNCHANGED <<session, gates, svc>>
  PROVE  /\ th' \in [Thread -> Handler] /\ SameButPc(th'[x], th[x])
         /\ th'[x].pc = p /\ th'[x].changed = th[x].changed
         /\ \A y \in Thread : y # x => th'[y] = th[y]
         /\ OwnerOf(x)' = OwnerOf(x)
         /\ (/\ \A r \in Sid, u \in Target : r # s \/ u # t =>
                   /\ owners'[r][u] = owners[r][u] /\ conn'[r][u] = conn[r][u]
                   /\ r \in room'[u] <=> r \in room[u]
             /\ \A u \in Target : u # t => chan'[u] = chan[u] /\ apart'[u] = apart[u])
            => GateFrame(x, s, t)
<1>1. th \in [Thread -> Handler] /\ p \in Pc
  BY Handlers DEF Inside, Working, Pc
<1>2. /\ th' \in [Thread -> Handler] /\ SameButPc(th'[x], th[x])
      /\ th'[x].pc = p /\ th'[x].changed = th[x].changed
      /\ \A y \in Thread : y # x => th'[y] = th[y]
  BY <1>1, Moves
<1>3. OwnerOf(x)' = OwnerOf(x)
  BY <1>2 DEF OwnerOf, SameButPc
<1>4. gate[t] # <<>> /\ Head(gate[t]) = x /\ th[x].pc \in Inside \cup {"gated"}
  BY HasTurn DEF Turn, At
<1> QED
  BY <1>2, <1>3, <1>4 DEF GateFrame, gates

LEMMA BeginConnectInv ==
  ASSUME RconInv, NEW x \in Thread, BeginConnect(x)
  PROVE  RconInv'
<1> SUFFICES ASSUME NEW s \in Sid, NEW t \in Target, th[x].sid = s, th[x].target = t
             PROVE  RconInv'
  BY Handlers
<1>1. /\ th[x].pc = "connect" /\ th[x].pc \in Inside
      /\ UNCHANGED <<owners, room, session, gates, service>>
  BY DEF BeginConnect, At, Inside, Working
<1>2. /\ TypeOK /\ th[x].op \in {"join", "fleet"}
      /\ owners \in [Sid -> [Target -> SUBSET Owner]] /\ room \in [Target -> SUBSET Sid]
      /\ conn \in [Sid -> [Target -> Thread \cup {"none", "established", "failed"}]]
      /\ Joining(x, s, t)
  BY <1>1, Handlers DEF RconInv, PlaceOK, WorkOK
<1>3. Told(t)' <=> Told(t)
  BY <1>1, ToldSame DEF service
<1>4. CASE conn[s][t] = "established"
  <2>1. Goto(x, "out") /\ conn' = conn
    BY <1>2, <1>4 DEF BeginConnect
  <2>2. "out" \in Inside
    BY DEF Inside
  <2>3. /\ th' \in [Thread -> Handler] /\ th'[x].pc = "out" /\ th'[x].op = th[x].op
        /\ GateFrame(x, s, t)
    BY <1>1, <2>1, <2>2, MovedFrame DEF SameButPc, service
  <2>4. Rest(x, s, t) # {}
    BY <1>1, <1>2, <1>4 DEF Joining
  <2>5. ~apart[t] => (Told(t) <=> room[t] # {})
    BY <1>1, <1>2, <2>4 DEF Joining
  <2>6. GateResult(x, s, t)
    BY <1>1, <1>2, <1>3, <2>1, <2>3, <2>5 DEF GateResult, Joining, Leaving, Settled, service
  <2>7. TypeOK'
    BY <2>1, <2>3, <1>1, <1>2, GateTypes DEF service, TypeOK, Message
  <2> QED
    BY <2>3, <2>6, <2>7, GateStep
<1>5. CASE conn[s][t] # "established"
  <2>1. Goto(x, "publish") /\ conn' = [conn EXCEPT ![s][t] = x]
    BY <1>1, <1>2, <1>5 DEF BeginConnect, Joining
  <2>2. "publish" \in Inside
    BY DEF Inside, Working
  <2>3. /\ conn' \in [Sid -> [Target -> Thread \cup {"none", "established", "failed"}]]
        /\ conn'[s][t] = x
        /\ \A r \in Sid, u \in Target : r # s \/ u # t => conn'[r][u] = conn[r][u]
    BY <2>1, <1>2, Cell
  <2>4. /\ th' \in [Thread -> Handler] /\ th'[x].pc = "publish" /\ th'[x].op = th[x].op
        /\ th'[x].changed = th[x].changed /\ OwnerOf(x)' = OwnerOf(x)
        /\ GateFrame(x, s, t)
    BY <1>1, <2>1, <2>2, <2>3, MovedFrame DEF SameButPc, service
  <2>5. Rest(x, s, t)' = Rest(x, s, t)
    BY <1>1, <2>4 DEF Rest
  <2>6. GateResult(x, s, t)
    BY <1>1, <1>2, <1>3, <2>3, <2>4, <2>5 DEF GateResult, Joining, Leaving, service
  <2>7. TypeOK'
    BY <2>3, <2>4, <1>1, <1>2, GateTypes DEF service, TypeOK, Message
  <2> QED
    BY <2>4, <2>6, <2>7, GateStep
<1> QED
  BY <1>4, <1>5

LEMMA PublishInv ==
  ASSUME RconInv, NEW x \in Thread, Publish(x)
  PROVE  RconInv'
<1> SUFFICES ASSUME NEW s \in Sid, NEW t \in Target, th[x].sid = s, th[x].target = t
             PROVE  RconInv'
  BY Handlers
<1>1. /\ th[x].pc = "publish" /\ th[x].pc \in Inside
      /\ UNCHANGED <<owners, conn, room, session, gates, svc>>
  BY DEF Publish, At, Inside, Working, registry
<1>2. /\ TypeOK /\ th[x].op \in {"join", "fleet"}
      /\ owners \in [Sid -> [Target -> SUBSET Owner]] /\ room \in [Target -> SUBSET Sid]
      /\ conn \in [Sid -> [Target -> Thread \cup {"none", "established", "failed"}]]
      /\ Joining(x, s, t)
  BY <1>1, Handlers DEF RconInv, PlaceOK, WorkOK
<1>3. CASE Send(t, "connect") /\ Goto(x, "published")
  <2>1. /\ chan' \in [Target -> Seq(Message)] /\ apart' \in [Target -> BOOLEAN]
        /\ \A u \in Target : u # t => chan'[u] = chan[u] /\ apart'[u] = apart[u]
        /\ Told(t)'
    BY <1>1, <1>2, <1>3, Sends DEF Message
  <2>2. "published" \in Inside
    BY DEF Inside, Working
  <2>3. /\ th' \in [Thread -> Handler] /\ th'[x].pc = "published" /\ th'[x].op = th[x].op
        /\ OwnerOf(x)' = OwnerOf(x) /\ GateFrame(x, s, t)
    BY <1>1, <1>3, <2>1, <2>2, MovedFrame DEF SameButPc
  <2>4. GateResult(x, s, t)
    BY <1>1, <1>2, <2>1, <2>3 DEF GateResult, Joining, Leaving
  <2>5. TypeOK'
    BY <2>1, <2>3, <1>1, <1>2, GateTypes
  <2> QED
    BY <2>3, <2>4, <2>5, GateStep
<1>4. CASE Goto(x, "unpublished") /\ UNCHANGED <<chan, apart>>
  <2>1. "unpublished" \in Inside
    BY DEF Inside, Working
  <2>2. /\ th' \in [Thread -> Handler] /\ th'[x].pc = "unpublished" /\ th'[x].op = th[x].op
        /\ th'[x].changed = th[x].changed /\ OwnerOf(x)' = OwnerOf(x)
        /\ GateFrame(x, s, t)
    BY <1>1, <1>4, <2>1, MovedFrame DEF SameButPc
  <2>3. Rest(x, s, t)' = Rest(x, s, t)
    BY <1>1, <2>2 DEF Rest
  <2>4. Told(t)' <=> Told(t)
    BY <1>1, <1>4, ToldSame
  <2>5. GateResult(x, s, t)
    BY <1>1, <1>2, <1>4, <2>2, <2>3, <2>4 DEF GateResult, Joining, Leaving
  <2>6. TypeOK'
    BY <2>2, <1>1, <1>2, <1>4, GateTypes DEF TypeOK, Message
  <2> QED
    BY <2>2, <2>5, <2>6, GateStep
<1> QED
  BY <1>3, <1>4 DEF Publish

LEMMA EstablishedInv ==
  ASSUME RconInv, NEW x \in Thread, Established(x)
  PROVE  RconInv'
<1> SUFFICES ASSUME NEW s \in Sid, NEW t \in Target, th[x].sid = s, th[x].target = t
             PROVE  RconInv'
  BY Handlers
<1>1. /\ th[x].pc = "published" /\ th[x].pc \in Inside /\ Goto(x, "out")
      /\ UNCHANGED <<owners, room, session, gates, svc>>
  BY DEF Established, At, Inside, Working
<1>2. /\ TypeOK /\ th[x].op \in {"join", "fleet"}
      /\ owners \in [Sid -> [Target -> SUBSET Owner]] /\ room \in [Target -> SUBSET Sid]
      /\ conn \in [Sid -> [Target -> Thread \cup {"none", "established", "failed"}]]
      /\ Joining(x, s, t)
  BY <1>1, Handlers DEF RconInv, PlaceOK, WorkOK
<1>3. conn' = [conn EXCEPT ![s][t] = "established"] /\ UNCHANGED <<chan, apart>>
  BY <1>1, <1>2 DEF Established, Joining
<1>4. /\ conn' \in [Sid -> [Target -> Thread \cup {"none", "established", "failed"}]]
      /\ \A r \in Sid, u \in Target : r # s \/ u # t => conn'[r][u] = conn[r][u]
  BY <1>2, <1>3, Cell
<1>5. "out" \in Inside
  BY DEF Inside
<1>6. /\ th' \in [Thread -> Handler] /\ th'[x].pc = "out" /\ th'[x].op = th[x].op
      /\ GateFrame(x, s, t)
  BY <1>1, <1>3, <1>4, <1>5, MovedFrame DEF SameButPc
<1>7. Told(t)' <=> Told(t)
  BY <1>1, <1>3, ToldSame
<1>8. GateResult(x, s, t)
  BY <1>1, <1>2, <1>6, <1>7 DEF GateResult, Joining, Leaving, Settled
<1>9. TypeOK'
  BY <1>4, <1>6, <1>1, <1>2, <1>3, GateTypes DEF TypeOK, Message
<1> QED
  BY <1>6, <1>8, <1>9, GateStep

LEMMA NotEstablishedInv ==
  ASSUME RconInv, NEW x \in Thread, NotEstablished(x)
  PROVE  RconInv'
<1> SUFFICES ASSUME NEW s \in Sid, NEW t \in Target, th[x].sid = s, th[x].target = t
             PROVE  RconInv'
  BY Handlers
<1> DEFINE rest == Rest(x, s, t)
           Conns == Thread \cup {"none", "established", "failed"}
<1>1. /\ th[x].pc = "unpublished" /\ th[x].pc \in Inside /\ Goto(x, "out")
      /\ UNCHANGED <<session, gates, chan, svc>>
  BY DEF NotEstablished, At, Inside, Working
<1>2. /\ TypeOK /\ th[x].op \in {"join", "fleet"}
      /\ owners \in [Sid -> [Target -> SUBSET Owner]] /\ room \in [Target -> SUBSET Sid]
      /\ conn \in [Sid -> [Target -> Conns]] /\ apart \in [Target -> BOOLEAN]
      /\ Joining(x, s, t)
  BY <1>1, Handlers DEF RconInv, PlaceOK, WorkOK
<1>3. /\ conn[s][t] = x /\ s \in room[t]
      /\ ~apart[t] => (Told(t) <=> room[t] \ (IF rest = {} THEN {s} ELSE {}) # {})
      /\ rest \in SUBSET Owner
  BY <1>1, <1>2 DEF Joining, Rest
<1>4. Told(t)' <=> Told(t)
  BY <1>1, ToldSame
<1>5. /\ conn' = [conn EXCEPT ![s][t] = IF rest = {} THEN "none" ELSE "failed"]
      /\ \/ /\ owners' = [owners EXCEPT ![s][t] = rest]
            /\ room' = [room EXCEPT ![t] = IF rest = {} THEN room[t] \ {s} ELSE room[t]]
            /\ apart' = apart
         \/ /\ rest = {} /\ apart' = [apart EXCEPT ![t] = TRUE]
            /\ UNCHANGED <<owners, room>>
  BY <1>3 DEF NotEstablished, Rest
<1> HIDE DEF rest, Conns
<1>6. /\ conn' \in [Sid -> [Target -> Conns]]
      /\ conn'[s][t] = IF rest = {} THEN "none" ELSE "failed"
      /\ \A r \in Sid, u \in Target : r # s \/ u # t => conn'[r][u] = conn[r][u]
  <2>1. (IF rest = {} THEN "none" ELSE "failed") \in Conns
    BY DEF Conns
  <2> QED
    BY <2>1, <1>2, <1>5, Cell
<1>7. "out" \in Inside
  BY DEF Inside
<1>8. chan \in [Target -> Seq(Message)]
  BY <1>2 DEF TypeOK, Message
<1>9. CASE /\ owners' = [owners EXCEPT ![s][t] = rest]
           /\ room' = [room EXCEPT ![t] = IF rest = {} THEN room[t] \ {s} ELSE room[t]]
           /\ apart' = apart
  <2>1. /\ owners' \in [Sid -> [Target -> SUBSET Owner]] /\ owners'[s][t] = rest
        /\ \A r \in Sid, u \in Target : r # s \/ u # t => owners'[r][u] = owners[r][u]
    BY <1>2, <1>3, <1>9, Cell
  <2>2. /\ room' \in [Target -> SUBSET Sid]
        /\ room'[t] = IF rest = {} THEN room[t] \ {s} ELSE room[t]
        /\ \A u \in Target : u # t => room'[u] = room[u]
    BY <1>2, <1>9
  <2>3. \A r \in Sid, u \in Target : r # s \/ u # t => (r \in room'[u] <=> r \in room[u])
    BY <2>2
  <2>4. /\ th' \in [Thread -> Handler] /\ th'[x].pc = "out" /\ th'[x].op = th[x].op
        /\ GateFrame(x, s, t)
    BY <1>1, <1>6, <1>7, <1>9, <2>1, <2>3, MovedFrame DEF SameButPc
  <2>5. GateResult(x, s, t)
    BY <1>2, <1>3, <1>4, <1>6, <1>9, <2>1, <2>2, <2>4 DEF GateResult, Joining, Leaving, Settled
  <2>6. TypeOK'
    BY <1>1, <1>2, <1>6, <1>8, <1>9, <2>1, <2>2, <2>4, GateTypes DEF Conns
  <2> QED
    BY <2>4, <2>5, <2>6, GateStep
<1>10. CASE rest = {} /\ apart' = [apart EXCEPT ![t] = TRUE] /\ UNCHANGED <<owners, room>>
  <2>1. /\ apart' \in [Target -> BOOLEAN] /\ apart'[t]
        /\ \A u \in Target : u # t => apart'[u] = apart[u]
    BY <1>2, <1>10
  <2>a. \A r \in Sid, u \in Target : r # s \/ u # t =>
            /\ owners'[r][u] = owners[r][u] /\ conn'[r][u] = conn[r][u]
            /\ r \in room'[u] <=> r \in room[u]
    BY <1>6, <1>10
  <2>2. /\ th' \in [Thread -> Handler] /\ th'[x].pc = "out" /\ th'[x].op = th[x].op
        /\ GateFrame(x, s, t)
    BY <1>1, <1>7, <2>a, <2>1, MovedFrame DEF SameButPc
  <2>3. OwnerOf(x) \in owners[s][t]
    BY <1>1, <1>2 DEF Joining
  <2>4. GateResult(x, s, t)
    BY <1>2, <1>3, <1>6, <1>10, <2>1, <2>2, <2>3 DEF GateResult, Joining, Leaving, Settled
  <2>5. TypeOK'
    BY <1>1, <1>2, <1>6, <1>8, <1>10, <2>1, <2>2, GateTypes DEF Conns
  <2> QED
    BY <2>2, <2>4, <2>5, GateStep
<1> QED
  BY <1>5, <1>9, <1>10

LEMMA CommandInv ==
  ASSUME RconInv, NEW x \in Thread, Command(x)
  PROVE  RconInv'
<1> SUFFICES ASSUME NEW s \in Sid, NEW t \in Target, th[x].sid = s, th[x].target = t
             PROVE  RconInv'
  BY Handlers
<1>1. /\ Turn(x) /\ th[x].op = "command" /\ th[x].pc = "gated" /\ Goto(x, "out")
      /\ UNCHANGED <<owners, conn, room, session, gates, svc>>
  BY DEF Command, Turn, At, registry
<1>2. /\ TypeOK /\ th \in [Thread -> Handler]
      /\ owners \in [Sid -> [Target -> SUBSET Owner]] /\ room \in [Target -> SUBSET Sid]
      /\ conn \in [Sid -> [Target -> Thread \cup {"none", "established", "failed"}]]
      /\ apart \in [Target -> BOOLEAN] /\ chan \in [Target -> Seq(Message)]
      /\ conn[s][t] # "none" => owners[s][t] # {}
  BY Handlers DEF RconInv, DataInv, RoomInv, TypeOK, Message
<1>3. Settled(t) /\ (owners[s][t] # {} <=> s \in room[t])
  BY <1>1, <1>2, HasTurn, AtRest DEF Working
<1>4. /\ chan' \in [Target -> Seq(Message)] /\ apart' \in [Target -> BOOLEAN]
      /\ apart'[t] <=> apart[t]
      /\ \A u \in Target : u # t => chan'[u] = chan[u] /\ apart'[u] = apart[u]
      /\ Told(t)' <=> Told(t)
  <2>1. CASE Send(t, "command")
    BY <2>1, <1>1, <1>2, Sends DEF Message
  <2>2. CASE UNCHANGED <<chan, apart>>
    BY <2>2, <1>1, <1>2, ToldSame
  <2> QED
    BY <2>1, <2>2 DEF Command
<1>5. "out" \in Inside
  BY DEF Inside
<1>6. /\ th' \in [Thread -> Handler] /\ th'[x].pc = "out" /\ th'[x].op = th[x].op
      /\ GateFrame(x, s, t)
  BY <1>1, <1>4, <1>5, MovedFrame DEF SameButPc
<1>7. GateResult(x, s, t)
  BY <1>1, <1>2, <1>3, <1>4, <1>6 DEF GateResult, Joining, Leaving, Settled
<1>8. TypeOK'
  BY <1>1, <1>2, <1>4, <1>6, GateTypes
<1> QED
  BY <1>6, <1>7, <1>8, GateStep

LEMMA ReleaseInv ==
  ASSUME RconInv, NEW x \in Thread, Release(x)
  PROVE  RconInv'
<1> SUFFICES ASSUME NEW s \in Sid, NEW t \in Target, th[x].sid = s, th[x].target = t
             PROVE  RconInv'
  BY Handlers
<1> DEFINE rest == IF th[x].op = "close" THEN {} ELSE owners[s][t] \ {OwnerOf(x)}
           final == owners[s][t] # {} /\ rest = {}
           Conns == Thread \cup {"none", "established", "failed"}
<1>1. /\ Turn(x) /\ th[x].pc = "gated" /\ UNCHANGED <<room, session, gates, service>>
  BY DEF Release, Turn, At
<1>2. /\ TypeOK /\ th \in [Thread -> Handler]
      /\ owners \in [Sid -> [Target -> SUBSET Owner]] /\ room \in [Target -> SUBSET Sid]
      /\ conn \in [Sid -> [Target -> Conns]]
      /\ apart \in [Target -> BOOLEAN] /\ chan \in [Target -> Seq(Message)]
      /\ conn[s][t] # "none" => owners[s][t] # {}
      /\ rest \in SUBSET Owner
  BY Handlers DEF RconInv, DataInv, RoomInv, TypeOK, Message
<1>3. Settled(t) /\ (owners[s][t] # {} <=> s \in room[t])
  BY <1>1, <1>2, HasTurn, AtRest DEF Working
<1>4. Told(t)' <=> Told(t)
  BY <1>1, ToldSame DEF service
<1>5. CASE th[x].op = "leave" /\ s \notin room[t]
  <2>1. UNCHANGED registry /\ Goto(x, "out")
    BY <1>5 DEF Release
  <2>2. "out" \in Inside
    BY DEF Inside
  <2>3. /\ th' \in [Thread -> Handler] /\ th'[x].pc = "out" /\ th'[x].op = th[x].op
        /\ GateFrame(x, s, t)
    BY <1>1, <2>1, <2>2, MovedFrame DEF SameButPc, registry, service
  <2>4. GateResult(x, s, t)
    BY <1>1, <1>2, <1>3, <1>4, <1>5, <2>1, <2>3
    DEF GateResult, Joining, Leaving, Settled, registry, service
  <2>5. TypeOK'
    BY <1>1, <1>2, <2>1, <2>3, GateTypes DEF registry, service
  <2> QED
    BY <2>3, <2>4, <2>5, GateStep
<1>6. CASE ~(th[x].op = "leave" /\ s \notin room[t])
  <2>1. /\ owners' = [owners EXCEPT ![s][t] = rest]
        /\ conn' = [conn EXCEPT ![s][t] = IF final THEN "none" ELSE conn[s][t]]
        /\ Goto(x, IF final THEN "leaveroom" ELSE "out")
    BY <1>6 DEF Release
  <2>2. "out" \in Inside /\ "leaveroom" \in Inside
    BY DEF Inside, Working
  <2>3. (th[x].op = "close" => rest = {}) /\ (rest = {} => rest # owners[s][t] \/ owners[s][t] = {})
    OBVIOUS
  <2>4. final <=> owners[s][t] # {} /\ rest = {}
    OBVIOUS
  <2>5. (IF final THEN "none" ELSE conn[s][t]) \in Conns
    BY <1>2
  <2>6. owners[s][t] = {} => rest = {}
    OBVIOUS
  <2> HIDE DEF rest, final, Conns
  <2>7. /\ owners' \in [Sid -> [Target -> SUBSET Owner]] /\ owners'[s][t] = rest
        /\ \A r \in Sid, u \in Target : r # s \/ u # t => owners'[r][u] = owners[r][u]
    BY <1>2, <2>1, Cell
  <2>8. /\ conn' \in [Sid -> [Target -> Conns]]
        /\ conn'[s][t] = IF final THEN "none" ELSE conn[s][t]
        /\ \A r \in Sid, u \in Target : r # s \/ u # t => conn'[r][u] = conn[r][u]
    BY <1>2, <2>1, <2>5, Cell
  <2>9. /\ th' \in [Thread -> Handler] /\ th'[x].pc = (IF final THEN "leaveroom" ELSE "out")
        /\ th'[x].op = th[x].op /\ GateFrame(x, s, t)
    BY <1>1, <2>1, <2>2, <2>7, <2>8, MovedFrame DEF SameButPc, service
  <2>10. CASE final
    <3>1. owners[s][t] # {} /\ rest = {} /\ s \in room[t] /\ (Told(t) \/ apart[t])
      BY <2>4, <2>10, <1>3 DEF Settled
    <3>2. GateResult(x, s, t)
      BY <1>1, <3>1, <1>4, <2>7, <2>8, <2>9, <2>10 DEF GateResult, Joining, Leaving, service
    <3>3. TypeOK'
      BY <1>1, <1>2, <2>7, <2>8, <2>9, GateTypes DEF Conns, service
    <3> QED
      BY <2>9, <3>2, <3>3, GateStep
  <2>11. CASE ~final
    <3>1. (rest # {} <=> owners[s][t] # {}) /\ (th[x].op = "close" => rest = {})
      BY <2>3, <2>4, <2>6, <2>11
    <3>2. GateResult(x, s, t)
      BY <1>1, <1>2, <1>3, <3>1, <1>4, <2>7, <2>8, <2>9, <2>11
      DEF GateResult, Joining, Leaving, Settled, service
    <3>3. TypeOK'
      BY <1>1, <1>2, <2>7, <2>8, <2>9, GateTypes DEF Conns, service
    <3> QED
      BY <2>9, <3>2, <3>3, GateStep
  <2> QED
    BY <2>10, <2>11
<1> QED
  BY <1>5, <1>6

LEMMA LeaveRoomInv ==
  ASSUME RconInv, NEW x \in Thread, LeaveRoom(x)
  PROVE  RconInv'
<1> SUFFICES ASSUME NEW s \in Sid, NEW t \in Target, th[x].sid = s, th[x].target = t
             PROVE  RconInv'
  BY Handlers
<1>1. /\ th[x].pc = "leaveroom" /\ th[x].pc \in Inside
      /\ UNCHANGED <<conn, session, gates, service>>
  BY DEF LeaveRoom, At, Inside, Working
<1>2. /\ TypeOK /\ th[x].op # "none"
      /\ owners \in [Sid -> [Target -> SUBSET Owner]] /\ room \in [Target -> SUBSET Sid]
      /\ conn \in [Sid -> [Target -> Thread \cup {"none", "established", "failed"}]]
      /\ apart \in [Target -> BOOLEAN] /\ chan \in [Target -> Seq(Message)]
      /\ conn[s][t] # "none" => owners[s][t] # {}
      /\ Leaving(x, s, t)
  BY <1>1, Handlers DEF RconInv, DataInv, RoomInv, TypeOK, Message, PlaceOK, WorkOK
<1>3. /\ owners[s][t] = {} /\ s \in room[t] /\ (Told(t) \/ apart[t]) /\ conn[s][t] = "none"
  BY <1>1, <1>2 DEF Leaving
<1>4. Told(t)' <=> Told(t)
  BY <1>1, ToldSame DEF service
<1>5. CASE room' = [room EXCEPT ![t] = @ \ {s}] /\ Goto(x, "count") /\ UNCHANGED owners
  <2>1. "count" \in Inside
    BY DEF Inside, Working
  <2>2. /\ room' \in [Target -> SUBSET Sid] /\ s \notin room'[t]
        /\ \A r \in Sid, u \in Target : r # s \/ u # t => (r \in room'[u] <=> r \in room[u])
    BY <1>2, <1>5
  <2>3. /\ th' \in [Thread -> Handler] /\ th'[x].pc = "count" /\ th'[x].op = th[x].op
        /\ GateFrame(x, s, t)
    BY <1>1, <1>5, <2>1, <2>2, MovedFrame DEF SameButPc, service
  <2>4. GateResult(x, s, t)
    BY <1>1, <1>3, <1>4, <1>5, <2>2, <2>3 DEF GateResult, Joining, Leaving, service
  <2>5. TypeOK'
    BY <1>1, <1>2, <1>5, <2>2, <2>3, GateTypes DEF service
  <2> QED
    BY <2>3, <2>4, <2>5, GateStep
<1>6. CASE /\ th[x].op = "fleet" /\ owners' = [owners EXCEPT ![s][t] = @ \cup {"fleet"}]
           /\ Goto(x, "out") /\ UNCHANGED room
  <2>1. "out" \in Inside
    BY DEF Inside
  <2>2. /\ owners' \in [Sid -> [Target -> SUBSET Owner]] /\ owners'[s][t] = {"fleet"}
        /\ \A r \in Sid, u \in Target : r # s \/ u # t => owners'[r][u] = owners[r][u]
    <3>1. owners' = [owners EXCEPT ![s][t] = {"fleet"}] /\ {"fleet"} \in SUBSET Owner
      BY <1>2, <1>3, <1>6 DEF Owner
    <3> QED
      BY <3>1, <1>2, Cell
  <2>3. /\ th' \in [Thread -> Handler] /\ th'[x].pc = "out" /\ th'[x].op = th[x].op
        /\ GateFrame(x, s, t)
    BY <1>1, <1>6, <2>1, <2>2, MovedFrame DEF SameButPc, service
  <2>4. GateResult(x, s, t)
    BY <1>1, <1>3, <1>4, <1>6, <2>2, <2>3 DEF GateResult, Joining, Leaving, Settled, service
  <2>5. TypeOK'
    BY <1>1, <1>2, <1>6, <2>2, <2>3, GateTypes DEF service
  <2> QED
    BY <2>3, <2>4, <2>5, GateStep
<1> QED
  BY <1>5, <1>6 DEF LeaveRoom

LEMMA CountInv ==
  ASSUME RconInv, NEW x \in Thread, Count(x)
  PROVE  RconInv'
<1> SUFFICES ASSUME NEW s \in Sid, NEW t \in Target, th[x].sid = s, th[x].target = t
             PROVE  RconInv'
  BY Handlers
<1>1. /\ th[x].pc = "count" /\ th[x].pc \in Inside /\ Goto(x, "out")
      /\ UNCHANGED <<owners, conn, room, session, gates, svc>>
  BY DEF Count, At, Inside, Working, registry
<1>2. /\ TypeOK /\ th[x].op # "none"
      /\ owners \in [Sid -> [Target -> SUBSET Owner]] /\ room \in [Target -> SUBSET Sid]
      /\ conn \in [Sid -> [Target -> Thread \cup {"none", "established", "failed"}]]
      /\ apart \in [Target -> BOOLEAN] /\ chan \in [Target -> Seq(Message)]
      /\ conn[s][t] # "none" => owners[s][t] # {}
      /\ Leaving(x, s, t)
  BY <1>1, Handlers DEF RconInv, DataInv, RoomInv, TypeOK, Message, PlaceOK, WorkOK
<1>3. owners[s][t] = {} /\ s \notin room[t] /\ (Told(t) \/ apart[t])
  BY <1>1, <1>2 DEF Leaving
<1>4. /\ chan' \in [Target -> Seq(Message)] /\ apart' \in [Target -> BOOLEAN]
      /\ \A u \in Target : u # t => chan'[u] = chan[u] /\ apart'[u] = apart[u]
      /\ ~apart'[t] => (Told(t)' <=> room[t] # {})
  <2>1. CASE room[t] # {} /\ UNCHANGED <<chan, apart>>
    BY <2>1, <1>1, <1>2, <1>3, ToldSame
  <2>2. CASE room[t] = {} /\ Send(t, "disconnect")
    BY <2>2, <1>1, <1>2, Sends DEF Message
  <2>3. CASE apart' = [apart EXCEPT ![t] = TRUE] /\ UNCHANGED chan
    BY <2>3, <1>2
  <2> QED
    BY <2>1, <2>2, <2>3, <1>3 DEF Count, EndConnection
<1>5. "out" \in Inside
  BY DEF Inside
<1>6. /\ th' \in [Thread -> Handler] /\ th'[x].pc = "out" /\ th'[x].op = th[x].op
      /\ GateFrame(x, s, t)
  BY <1>1, <1>4, <1>5, MovedFrame DEF SameButPc
<1>7. GateResult(x, s, t)
  BY <1>1, <1>2, <1>3, <1>4, <1>6 DEF GateResult, Joining, Leaving, Settled
<1>8. TypeOK'
  BY <1>1, <1>2, <1>4, <1>6, GateTypes
<1> QED
  BY <1>6, <1>7, <1>8, GateStep

-----------------------------------------------------------------------------
(* Steps outside the gates: tickets.                                       *)

OthersStay(x) == \A y \in Thread : y # x => th'[y] = th[y]

LEMMA TargetsKept ==
  ASSUME TargetGates, NEW x \in Thread, OthersStay(x), gate' = gate,
         th[x].pc \notin Inside \cup {"gated"}, th'[x].pc \notin Inside \cup {"gated"}
  PROVE  TargetGates'
<1>1. \A y \in Thread, u \in Target : InGate(y, u)' <=> InGate(y, u)
  BY DEF InGate, OthersStay
<1>2. \A y \in Thread : th'[y].pc \in Inside =>
          gate[th'[y].target] # <<>> /\ Head(gate[th'[y].target]) = y
  BY DEF TargetGates, OthersStay
<1> QED
  BY <1>1, <1>2 DEF TargetGates, Queued

LEMMA TargetDrawn ==
  ASSUME TypeOK, TargetGates, NEW x \in Thread, OthersStay(x), NEW t \in Target,
         th[x].pc \notin Inside \cup {"gated"}, th'[x].pc = "gated", th'[x].target = t,
         gate' = [gate EXCEPT ![t] = Append(@, x)]
  PROVE  /\ TargetGates'
         /\ gate' \in [Target -> Seq(Thread)] /\ \A u \in Target : IsInjective(gate'[u])
<1>1. /\ gate \in [Target -> Seq(Thread)] /\ \A u \in Target : IsInjective(gate[u])
      /\ \A u \in Target, y \in Thread : Queued(gate[u], y) <=> InGate(y, u)
      /\ th \in [Thread -> Handler]
  BY DEF TypeOK, TargetGates
<1>2. ~Queued(gate[t], x)
  BY <1>1 DEF InGate
<1>3. /\ Append(gate[t], x) \in Seq(Thread)
      /\ IsInjective(Append(gate[t], x))
      /\ Append(gate[t], x) # <<>>
      /\ \A y : Queued(Append(gate[t], x), y) <=> (Queued(gate[t], y) \/ y = x)
      /\ gate[t] # <<>> => Head(Append(gate[t], x)) = Head(gate[t])
  BY <1>1, <1>2, DrawTicket
<1>4. /\ gate' \in [Target -> Seq(Thread)] /\ gate'[t] = Append(gate[t], x)
      /\ \A u \in Target : u # t => gate'[u] = gate[u]
  BY <1>1, <1>3, Row
<1>5. \A u \in Target : IsInjective(gate'[u])
  <2>1. \A u \in Target : gate'[u] = gate[u] \/ gate'[u] = Append(gate[t], x)
    BY <1>4
  <2> QED
    BY <2>1, <1>1, <1>3
<1>6. ASSUME NEW u \in Target, NEW y \in Thread
      PROVE  Queued(gate'[u], y) <=> InGate(y, u)'
  <2>1. CASE u = t
    BY <2>1, <1>1, <1>3, <1>4 DEF InGate, OthersStay
  <2>2. CASE u # t
    BY <2>2, <1>1, <1>4 DEF InGate, OthersStay
  <2> QED
    BY <2>1, <2>2
<1>7. ASSUME NEW y \in Thread, th'[y].pc \in Inside
      PROVE  gate'[th'[y].target] # <<>> /\ Head(gate'[th'[y].target]) = y
  <2>1. y # x /\ th'[y] = th[y] /\ th[y].target \in Target
    BY <1>1, <1>7 DEF OthersStay, Inside, Working, Handler
  <2>2. gate[th[y].target] # <<>> /\ Head(gate[th[y].target]) = y
    BY <2>1, <1>7 DEF TargetGates
  <2>3. CASE th[y].target = t
    BY <2>1, <2>2, <2>3, <1>3, <1>4
  <2>4. CASE th[y].target # t
    BY <2>1, <2>2, <2>4, <1>4
  <2> QED
    BY <2>3, <2>4
<1> QED
  BY <1>4, <1>5, <1>6, <1>7 DEF TargetGates, Queued

LEMMA TargetReturned ==
  ASSUME TypeOK, TargetGates, NEW x \in Thread, OthersStay(x), NEW t \in Target,
         th[x].pc \in Inside, th[x].target = t, th'[x].pc \notin Inside \cup {"gated"},
         gate' = [gate EXCEPT ![t] = Without(@, x)]
  PROVE  /\ TargetGates'
         /\ gate' \in [Target -> Seq(Thread)] /\ \A u \in Target : IsInjective(gate'[u])
<1>1. /\ gate \in [Target -> Seq(Thread)] /\ \A u \in Target : IsInjective(gate[u])
      /\ \A u \in Target, y \in Thread : Queued(gate[u], y) <=> InGate(y, u)
      /\ th \in [Thread -> Handler] /\ gate[t] # <<>> /\ Head(gate[t]) = x
  BY DEF TypeOK, TargetGates
<1>2. /\ Without(gate[t], x) \in Seq(Thread)
      /\ IsInjective(Without(gate[t], x))
      /\ \A y : Queued(Without(gate[t], x), y) <=> (Queued(gate[t], y) /\ y # x)
  BY <1>1, ReturnTicket
<1>3. /\ gate' \in [Target -> Seq(Thread)] /\ gate'[t] = Without(gate[t], x)
      /\ \A u \in Target : u # t => gate'[u] = gate[u]
  BY <1>1, <1>2, Row
<1>4. \A u \in Target : IsInjective(gate'[u])
  <2>1. \A u \in Target : gate'[u] = gate[u] \/ gate'[u] = Without(gate[t], x)
    BY <1>3
  <2> QED
    BY <2>1, <1>1, <1>2
<1>5. ASSUME NEW u \in Target, NEW y \in Thread
      PROVE  Queued(gate'[u], y) <=> InGate(y, u)'
  <2>1. CASE u = t
    BY <2>1, <1>1, <1>2, <1>3 DEF InGate, OthersStay
  <2>2. CASE u # t
    BY <2>2, <1>1, <1>3 DEF InGate, OthersStay
  <2> QED
    BY <2>1, <2>2
<1>6. ASSUME NEW y \in Thread, th'[y].pc \in Inside
      PROVE  gate'[th'[y].target] # <<>> /\ Head(gate'[th'[y].target]) = y
  <2>1. y # x /\ th'[y] = th[y] /\ th[y].target \in Target
    BY <1>1, <1>6 DEF OthersStay, Handler
  <2>2. gate[th[y].target] # <<>> /\ Head(gate[th[y].target]) = y
    BY <2>1, <1>6 DEF TargetGates
  <2> QED
    BY <2>1, <2>2, <1>1, <1>3
<1> QED
  BY <1>3, <1>4, <1>5, <1>6 DEF TargetGates, Queued

LEMMA FleetsKept ==
  ASSUME FleetGates, NEW x \in Thread, OthersStay(x), fleetGate' = fleetGate,
         \/ th[x].op # "fleet" /\ th'[x].op # "fleet"
         \/ /\ th'[x].op = th[x].op /\ th'[x].sid = th[x].sid
            /\ th[x].pc # "fleetgated"
               \/ (fleetGate[th[x].sid] # <<>> /\ Head(fleetGate[th[x].sid]) = x)
  PROVE  FleetGates'
<1>1. \A y \in Thread, r \in Sid : InFleet(y, r)' <=> InFleet(y, r)
  BY DEF InFleet, OthersStay
<1>2. \A y \in Thread : th'[y].op = "fleet" /\ th'[y].pc # "fleetgated" =>
          fleetGate[th'[y].sid] # <<>> /\ Head(fleetGate[th'[y].sid]) = y
  BY DEF FleetGates, OthersStay
<1> QED
  BY <1>1, <1>2 DEF FleetGates, Queued

LEMMA FleetDrawn ==
  ASSUME TypeOK, FleetGates, NEW x \in Thread, OthersStay(x), NEW s \in Sid,
         th[x].op # "fleet", th'[x].pc = "fleetgated", th'[x].op = "fleet", th'[x].sid = s,
         fleetGate' = [fleetGate EXCEPT ![s] = Append(@, x)]
  PROVE  /\ FleetGates'
         /\ fleetGate' \in [Sid -> Seq(Thread)] /\ \A r \in Sid : IsInjective(fleetGate'[r])
<1>1. /\ fleetGate \in [Sid -> Seq(Thread)] /\ \A r \in Sid : IsInjective(fleetGate[r])
      /\ \A r \in Sid, y \in Thread : Queued(fleetGate[r], y) <=> InFleet(y, r)
      /\ th \in [Thread -> Handler]
  BY DEF TypeOK, FleetGates
<1>2. ~Queued(fleetGate[s], x)
  BY <1>1 DEF InFleet
<1>3. /\ Append(fleetGate[s], x) \in Seq(Thread)
      /\ IsInjective(Append(fleetGate[s], x))
      /\ Append(fleetGate[s], x) # <<>>
      /\ \A y : Queued(Append(fleetGate[s], x), y) <=> (Queued(fleetGate[s], y) \/ y = x)
      /\ fleetGate[s] # <<>> => Head(Append(fleetGate[s], x)) = Head(fleetGate[s])
  BY <1>1, <1>2, DrawTicket
<1>4. /\ fleetGate' \in [Sid -> Seq(Thread)] /\ fleetGate'[s] = Append(fleetGate[s], x)
      /\ \A r \in Sid : r # s => fleetGate'[r] = fleetGate[r]
  BY <1>1, <1>3
<1>5. \A r \in Sid : IsInjective(fleetGate'[r])
  <2>1. \A r \in Sid : fleetGate'[r] = fleetGate[r] \/ fleetGate'[r] = Append(fleetGate[s], x)
    BY <1>4
  <2> QED
    BY <2>1, <1>1, <1>3
<1>6. ASSUME NEW r \in Sid, NEW y \in Thread
      PROVE  Queued(fleetGate'[r], y) <=> InFleet(y, r)'
  <2>1. CASE r = s
    BY <2>1, <1>1, <1>3, <1>4 DEF InFleet, OthersStay
  <2>2. CASE r # s
    BY <2>2, <1>1, <1>4 DEF InFleet, OthersStay
  <2> QED
    BY <2>1, <2>2
<1>7. ASSUME NEW y \in Thread, th'[y].op = "fleet", th'[y].pc # "fleetgated"
      PROVE  fleetGate'[th'[y].sid] # <<>> /\ Head(fleetGate'[th'[y].sid]) = y
  <2>1. y # x /\ th'[y] = th[y] /\ th[y].sid \in Sid
    BY <1>1, <1>7 DEF OthersStay, Handler
  <2>2. fleetGate[th[y].sid] # <<>> /\ Head(fleetGate[th[y].sid]) = y
    BY <2>1, <1>7 DEF FleetGates
  <2>3. CASE th[y].sid = s
    BY <2>1, <2>2, <2>3, <1>3, <1>4
  <2>4. CASE th[y].sid # s
    BY <2>1, <2>2, <2>4, <1>4
  <2> QED
    BY <2>3, <2>4
<1> QED
  BY <1>4, <1>5, <1>6, <1>7 DEF FleetGates, Queued

LEMMA FleetReturned ==
  ASSUME TypeOK, FleetGates, NEW x \in Thread, OthersStay(x), NEW s \in Sid,
         th[x].op = "fleet", th[x].pc # "fleetgated", th[x].sid = s, th'[x].op # "fleet",
         fleetGate' = [fleetGate EXCEPT ![s] = Without(@, x)]
  PROVE  /\ FleetGates'
         /\ fleetGate' \in [Sid -> Seq(Thread)] /\ \A r \in Sid : IsInjective(fleetGate'[r])
<1>1. /\ fleetGate \in [Sid -> Seq(Thread)] /\ \A r \in Sid : IsInjective(fleetGate[r])
      /\ \A r \in Sid, y \in Thread : Queued(fleetGate[r], y) <=> InFleet(y, r)
      /\ th \in [Thread -> Handler] /\ fleetGate[s] # <<>> /\ Head(fleetGate[s]) = x
  BY DEF TypeOK, FleetGates
<1>2. /\ Without(fleetGate[s], x) \in Seq(Thread)
      /\ IsInjective(Without(fleetGate[s], x))
      /\ \A y : Queued(Without(fleetGate[s], x), y) <=> (Queued(fleetGate[s], y) /\ y # x)
  BY <1>1, ReturnTicket
<1>3. /\ fleetGate' \in [Sid -> Seq(Thread)] /\ fleetGate'[s] = Without(fleetGate[s], x)
      /\ \A r \in Sid : r # s => fleetGate'[r] = fleetGate[r]
  BY <1>1, <1>2
<1>4. \A r \in Sid : IsInjective(fleetGate'[r])
  <2>1. \A r \in Sid : fleetGate'[r] = fleetGate[r] \/ fleetGate'[r] = Without(fleetGate[s], x)
    BY <1>3
  <2> QED
    BY <2>1, <1>1, <1>2
<1>5. ASSUME NEW r \in Sid, NEW y \in Thread
      PROVE  Queued(fleetGate'[r], y) <=> InFleet(y, r)'
  <2>1. CASE r = s
    BY <2>1, <1>1, <1>2, <1>3 DEF InFleet, OthersStay
  <2>2. CASE r # s
    BY <2>2, <1>1, <1>3 DEF InFleet, OthersStay
  <2> QED
    BY <2>1, <2>2
<1>6. ASSUME NEW y \in Thread, th'[y].op = "fleet", th'[y].pc # "fleetgated"
      PROVE  fleetGate'[th'[y].sid] # <<>> /\ Head(fleetGate'[th'[y].sid]) = y
  <2>1. y # x /\ th'[y] = th[y] /\ th[y].sid \in Sid
    BY <1>1, <1>6 DEF OthersStay, Handler
  <2>2. fleetGate[th[y].sid] # <<>> /\ Head(fleetGate[th[y].sid]) = y
    BY <2>1, <1>6 DEF FleetGates
  <2> QED
    BY <2>1, <2>2, <1>1, <1>3
<1> QED
  BY <1>3, <1>4, <1>5, <1>6 DEF FleetGates, Queued

-----------------------------------------------------------------------------
(* Steps outside the gates: sessions.                                      *)

\* The step of a handler that goes on or ends.
LEMMA SessionsKept ==
  ASSUME SessionInv, NEW x \in Thread, OthersStay(x), UNCHANGED <<owners, conn, room, session>>,
         th'[x].op = "none" \/ (th'[x].op = th[x].op /\ th'[x].sid = th[x].sid),
         th'[x].op = "close" /\ th'[x].pc # "drain" =>
            /\ Active(th[x].sid) = {}
            /\ \A t \in Target : owners[th[x].sid][t] # {} =>
                  t \in th'[x].del \/ (th'[x].pc = "gated" /\ th'[x].target = t)
  PROVE  SessionInv'
<1>1. \A y \in Thread : th'[y].op # "none" => th'[y].op = th[y].op /\ th'[y].sid = th[y].sid
  BY DEF OthersStay
<1>2. ASSUME NEW r
      PROVE  {y \in Thread : th'[y].sid = r /\ th'[y].op \notin {"none", "close"}} \subseteq Active(r)
  BY <1>1 DEF Active
<1>3. ASSUME NEW y \in Thread, th'[y].op = "close", th'[y].pc # "drain"
      PROVE  /\ {z \in Thread : th'[z].sid = th'[y].sid /\ th'[z].op \notin {"none", "close"}} = {}
             /\ \A t \in Target : owners'[th'[y].sid][t] # {} =>
                   t \in th'[y].del \/ (th'[y].pc = "gated" /\ th'[y].target = t)
  <2>1. /\ Active(th[y].sid) = {} /\ th'[y].sid = th[y].sid
        /\ \A t \in Target : owners[th[y].sid][t] # {} =>
              t \in th'[y].del \/ (th'[y].pc = "gated" /\ th'[y].target = t)
    <3>1. CASE y = x
      BY <3>1, <1>1, <1>3
    <3>2. CASE y # x
      BY <3>2, <1>3 DEF SessionInv, OthersStay
    <3> QED
      BY <3>1, <3>2
  <2> QED
    BY <2>1, <1>2
<1>4. /\ \A y \in Thread : th'[y].op = "close" => session'[th'[y].sid] = "closing"
      /\ \A y, z \in Thread : th'[y].op = "close" /\ th'[z].op = "close"
            /\ th'[y].sid = th'[z].sid => y = z
      /\ \A y \in Thread : th'[y].op # "none" => session'[th'[y].sid] # "closed"
  BY <1>1 DEF SessionInv
<1>5. ClosedOwnsNothing'
  BY DEF SessionInv, ClosedOwnsNothing
<1> QED
  BY <1>3, <1>4, <1>5 DEF SessionInv, Active

\* A handler starts for an open session.
LEMMA SessionsEntered ==
  ASSUME SessionInv, NEW x \in Thread, OthersStay(x), UNCHANGED <<owners, conn, room, session>>,
         th[x].op = "none", th'[x].op \notin {"none", "close"}, session[th'[x].sid] = "open"
  PROVE  SessionInv'
<1>1. \A y \in Thread : th'[y].op = "close" => y # x /\ th'[y] = th[y] /\ th[y].sid # th'[x].sid
  BY DEF SessionInv, OthersStay
<1>2. ASSUME NEW y \in Thread, th'[y].op = "close"
      PROVE  {z \in Thread : th'[z].sid = th'[y].sid /\ th'[z].op \notin {"none", "close"}}
                = Active(th[y].sid)
  BY <1>1, <1>2 DEF Active, OthersStay
<1>3. /\ \A y \in Thread : th'[y].op = "close" => session'[th'[y].sid] = "closing"
      /\ \A y, z \in Thread : th'[y].op = "close" /\ th'[z].op = "close"
            /\ th'[y].sid = th'[z].sid => y = z
      /\ \A y \in Thread : th'[y].op # "none" => session'[th'[y].sid] # "closed"
  BY <1>1 DEF SessionInv, OthersStay
<1>4. ClosedOwnsNothing'
  BY DEF SessionInv, ClosedOwnsNothing
<1>5. ASSUME NEW y \in Thread, th'[y].op = "close", th'[y].pc # "drain"
      PROVE  /\ {z \in Thread : th'[z].sid = th'[y].sid /\ th'[z].op \notin {"none", "close"}} = {}
             /\ \A t \in Target : owners'[th'[y].sid][t] # {} =>
                   t \in th'[y].del \/ (th'[y].pc = "gated" /\ th'[y].target = t)
  <2>1. th'[y] = th[y]
    BY <1>1, <1>5
  <2>2. /\ Active(th[y].sid) = {}
        /\ \A t \in Target : owners[th[y].sid][t] # {} =>
              t \in th[y].del \/ (th[y].pc = "gated" /\ th[y].target = t)
    BY <1>5, <2>1 DEF SessionInv
  <2> QED
    BY <1>2, <1>5, <2>1, <2>2
<1> QED
  BY <1>3, <1>4, <1>5 DEF SessionInv, Active

-----------------------------------------------------------------------------
(* Steps outside the gates: the actions.                                   *)

\* The handlers' step leaves what they share to the tickets and the sessions.
LEMMA OutsideStep ==
  ASSUME RconInv, NEW x \in Thread, NEW h \in Handler, th' = [th EXCEPT ![x] = h],
         th[x].pc \notin Working, h.pc \notin Working, PlaceOK(h),
         UNCHANGED <<owners, conn, room, service>>,
         session' \in [Sid -> {"open", "closing", "closed"}],
         gate' \in [Target -> Seq(Thread)], \A t \in Target : IsInjective(gate'[t]),
         fleetGate' \in [Sid -> Seq(Thread)], \A s \in Sid : IsInjective(fleetGate'[s]),
         TargetGates', FleetGates', SessionInv'
  PROVE  RconInv'
<1>1. /\ TypeOK /\ th \in [Thread -> Handler] /\ DataInv /\ PlaceInv
  BY DEF RconInv, TypeOK
<1>2. /\ th' \in [Thread -> Handler] /\ th'[x] = h
      /\ \A y \in Thread : y # x => th'[y] = th[y]
  BY <1>1, Becomes
<1>3. TypeOK'
  BY <1>1, <1>2 DEF TypeOK, service
<1>4. \A t \in Target : Told(t)' <=> Told(t)
  BY ToldSame DEF service
<1>5. DataInv'
  BY <1>1, <1>2, <1>4, DataKept DEF service
<1>6. PlaceInv'
  BY <1>1, <1>2 DEF PlaceInv
<1> QED
  BY <1>3, <1>5, <1>6 DEF RconInv, GateInv

LEMMA Queues ==
  ASSUME RconInv
  PROVE  /\ TypeOK /\ TargetGates /\ FleetGates /\ SessionInv
         /\ session \in [Sid -> {"open", "closing", "closed"}]
         /\ gate \in [Target -> Seq(Thread)] /\ \A t \in Target : IsInjective(gate[t])
         /\ fleetGate \in [Sid -> Seq(Thread)] /\ \A s \in Sid : IsInjective(fleetGate[s])
BY DEF RconInv, GateInv, TypeOK

LEMMA BeginInv ==
  ASSUME RconInv, NEW x \in Thread, NEW op \in {"join", "leave", "command"}, NEW s \in Sid,
         NEW t \in Target, Begin(x, op, s, t)
  PROVE  RconInv'
<1> DEFINE h == [Idle EXCEPT !.pc = "gated", !.op = op, !.sid = s, !.target = t,
                             !.mode = IF op = "leave" THEN "del" ELSE "add"]
<1>1. /\ th[x].pc = "idle" /\ th[x].op = "none" /\ session[s] = "open"
      /\ gate' = [gate EXCEPT ![t] = Append(@, x)] /\ th' = [th EXCEPT ![x] = h]
      /\ UNCHANGED <<owners, conn, room, session, fleetGate, service>>
  BY Handlers DEF Begin, Accepts, At, PlaceOK, registry
<1>2. /\ h \in Handler /\ h.pc = "gated" /\ h.op = op /\ h.sid = s /\ h.target = t
  BY IdleType DEF Handler, Idle, Pc, Ops
<1> HIDE DEF h
<1>3. th'[x] = h /\ OthersStay(x)
  BY <1>1, <1>2, Becomes, Handlers DEF OthersStay
<1>4. PlaceOK(h)
  BY <1>2 DEF PlaceOK
<1>5. /\ TargetGates'
      /\ gate' \in [Target -> Seq(Thread)] /\ \A u \in Target : IsInjective(gate'[u])
  BY <1>1, <1>2, <1>3, TargetDrawn, Queues DEF Inside, Working
<1>6. FleetGates'
  BY <1>1, <1>2, <1>3, FleetsKept, Queues
<1>7. SessionInv'
  BY <1>1, <1>2, <1>3, SessionsEntered, Queues
<1> QED
  BY <1>1, <1>2, <1>4, <1>5, <1>6, <1>7, OutsideStep, Queues DEF Working

LEMMA BeginFleetInv ==
  ASSUME RconInv, NEW x \in Thread, NEW s \in Sid, NEW S \in SUBSET Target, BeginFleet(x, s, S)
  PROVE  RconInv'
<1> DEFINE h == [Idle EXCEPT !.pc = "fleetgated", !.op = "fleet", !.sid = s, !.add = S]
<1>1. /\ th[x].pc = "idle" /\ th[x].op = "none" /\ session[s] = "open"
      /\ fleetGate' = [fleetGate EXCEPT ![s] = Append(@, x)] /\ th' = [th EXCEPT ![x] = h]
      /\ UNCHANGED <<owners, conn, room, session, gate, service>>
  BY Handlers DEF BeginFleet, Accepts, At, PlaceOK, registry
<1>2. /\ h \in Handler /\ h.pc = "fleetgated" /\ h.op = "fleet" /\ h.sid = s
  BY IdleType DEF Handler, Idle, Pc, Ops
<1> HIDE DEF h
<1>3. th'[x] = h /\ OthersStay(x)
  BY <1>1, <1>2, Becomes, Handlers DEF OthersStay
<1>4. PlaceOK(h)
  BY <1>2 DEF PlaceOK
<1>5. TargetGates'
  BY <1>1, <1>2, <1>3, TargetsKept, Queues DEF Inside, Working
<1>6. /\ FleetGates'
      /\ fleetGate' \in [Sid -> Seq(Thread)] /\ \A r \in Sid : IsInjective(fleetGate'[r])
  BY <1>1, <1>2, <1>3, FleetDrawn, Queues
<1>7. SessionInv'
  BY <1>1, <1>2, <1>3, SessionsEntered, Queues
<1> QED
  BY <1>1, <1>2, <1>4, <1>5, <1>6, <1>7, OutsideStep, Queues DEF Working

LEMMA CompareInv ==
  ASSUME RconInv, NEW x \in Thread, Compare(x)
  PROVE  RconInv'
<1> DEFINE D == {t \in Target : "fleet" \in owners[th[x].sid][t]} \ th[x].add
           h == [th[x] EXCEPT !.pc = "next", !.del = D]
<1>1. /\ th[x].pc = "fleetgated" /\ th[x].op = "fleet" /\ th[x] \in Handler
      /\ Head(fleetGate[th[x].sid]) = x /\ th' = [th EXCEPT ![x] = h]
      /\ UNCHANGED <<owners, conn, room, session, gate, fleetGate, service>>
  BY Handlers DEF Compare, At, PlaceOK, registry, gates
<1>2. /\ h \in Handler /\ h.pc = "next" /\ h.op = th[x].op /\ h.sid = th[x].sid
  <2>1. D \in SUBSET Target
    OBVIOUS
  <2> HIDE DEF D
  <2> QED
    BY <1>1, <2>1 DEF Handler, Pc
<1> HIDE DEF h
<1>3. th'[x] = h /\ OthersStay(x)
  BY <1>1, <1>2, Becomes, Handlers DEF OthersStay
<1>4. PlaceOK(h)
  BY <1>1, <1>2 DEF PlaceOK
<1>5. TargetGates'
  BY <1>1, <1>2, <1>3, TargetsKept, Queues DEF Inside, Working
<1>6. FleetGates'
  <2>1. Queued(fleetGate[th[x].sid], x) /\ fleetGate[th[x].sid] \in Seq(Thread)
    BY <1>1, Queues, Handlers DEF FleetGates, InFleet
  <2>2. fleetGate[th[x].sid] # <<>>
    BY <2>1 DEF Queued
  <2> QED
    BY <1>1, <1>2, <1>3, <2>2, FleetsKept, Queues
<1>7. SessionInv'
  BY <1>1, <1>2, <1>3, SessionsKept, Queues
<1> QED
  BY <1>1, <1>2, <1>4, <1>5, <1>6, <1>7, OutsideStep, Queues DEF Working

LEMMA NextTargetInv ==
  ASSUME RconInv, NEW x \in Thread, NextTarget(x)
  PROVE  RconInv'
<1>1. /\ th[x].pc = "next" /\ th[x].op \in {"fleet", "close"} /\ th[x] \in Handler
      /\ UNCHANGED <<owners, conn, room, session, fleetGate, service>>
      /\ th[x].op = "close" => th[x].add = {} /\ th[x].mode = "del"
  BY Handlers DEF NextTarget, At, PlaceOK, registry
<1>2. PICK t \in IF th[x].add # {} THEN th[x].add ELSE th[x].del :
         /\ th' = [th EXCEPT ![x].pc = "gated", ![x].target = t, ![x].changed = FALSE,
                      ![x].add = @ \ {t},
                      ![x].del = IF th[x].add # {} THEN @ ELSE @ \ {t},
                      ![x].mode = IF th[x].add # {} THEN "add" ELSE "del"]
         /\ gate' = [gate EXCEPT ![t] = Append(@, x)]
  BY DEF NextTarget
<1> DEFINE D == IF th[x].add # {} THEN th[x].del ELSE th[x].del \ {t}
           h == [th[x] EXCEPT !.pc = "gated", !.target = t, !.changed = FALSE,
                      !.add = th[x].add \ {t}, !.del = D,
                      !.mode = IF th[x].add # {} THEN "add" ELSE "del"]
<1>3. t \in Target /\ D \in SUBSET Target
  BY <1>1, <1>2 DEF Handler
<1>4. th' = [th EXCEPT ![x] = h]
  BY <1>2
<1>5. th[x].op = "close" => D = th[x].del \ {t} /\ th[x].add \ {t} = {}
  BY <1>1
<1> HIDE DEF D
<1>6. /\ h \in Handler /\ h.pc = "gated" /\ h.op = th[x].op /\ h.sid = th[x].sid
      /\ h.target = t /\ h.del = D
      /\ h.add = th[x].add \ {t} /\ (th[x].add = {} => h.mode = "del")
  BY <1>1, <1>3 DEF Handler, Pc
<1> HIDE DEF h
<1>7. th'[x] = h /\ OthersStay(x)
  BY <1>4, <1>6, Becomes, Handlers DEF OthersStay
<1>8. PlaceOK(h)
  BY <1>1, <1>5, <1>6 DEF PlaceOK
<1>9. /\ TargetGates'
      /\ gate' \in [Target -> Seq(Thread)] /\ \A u \in Target : IsInjective(gate'[u])
  BY <1>1, <1>2, <1>3, <1>6, <1>7, TargetDrawn, Queues DEF Inside, Working
<1>10. FleetGates'
  BY <1>1, <1>6, <1>7, FleetsKept, Queues
<1>11. SessionInv'
  <2>1. th[x].op = "close" =>
           /\ Active(th[x].sid) = {}
           /\ \A u \in Target : owners[th[x].sid][u] # {} => u \in th[x].del
    BY <1>1, Queues DEF SessionInv
  <2> QED
    BY <1>1, <1>5, <1>6, <1>7, <2>1, SessionsKept, Queues
<1> QED
  BY <1>1, <1>4, <1>6, <1>8, <1>9, <1>10, <1>11, OutsideStep, Queues DEF Working

LEMMA IdleFacts ==
  /\ Idle \in Handler /\ Idle.pc = "idle" /\ Idle.op = "none" /\ PlaceOK(Idle)
BY IdleType DEF Idle, PlaceOK

LEMMA FleetDoneInv ==
  ASSUME RconInv, NEW x \in Thread, FleetDone(x)
  PROVE  RconInv'
<1>1. /\ th[x].pc = "next" /\ th[x].op = "fleet" /\ th[x].sid \in Sid
      /\ th' = [th EXCEPT ![x] = Idle]
      /\ fleetGate' = [fleetGate EXCEPT ![th[x].sid] = Without(@, x)]
      /\ UNCHANGED <<owners, conn, room, session, gate, service>>
  BY Handlers DEF FleetDone, At, registry
<1>2. th'[x] = Idle /\ OthersStay(x)
  BY <1>1, IdleFacts, Becomes, Handlers DEF OthersStay
<1>3. TargetGates'
  BY <1>1, <1>2, IdleFacts, TargetsKept, Queues DEF Inside, Working
<1>4. /\ FleetGates'
      /\ fleetGate' \in [Sid -> Seq(Thread)] /\ \A r \in Sid : IsInjective(fleetGate'[r])
  BY <1>1, <1>2, IdleFacts, FleetReturned, Queues
<1>5. SessionInv'
  BY <1>1, <1>2, IdleFacts, SessionsKept, Queues
<1> QED
  BY <1>1, <1>3, <1>4, <1>5, IdleFacts, OutsideStep, Queues DEF Working

LEMMA OutInv ==
  ASSUME RconInv, NEW x \in Thread, Out(x)
  PROVE  RconInv'
<1>1. /\ th[x].pc = "out" /\ th[x].op # "none" /\ th[x] \in Handler /\ th[x].target \in Target
      /\ gate' = [gate EXCEPT ![th[x].target] = Without(@, x)]
      /\ UNCHANGED <<owners, conn, room, session, fleetGate, service>>
      /\ PlaceOK(th[x])
  BY Handlers DEF Out, At, PlaceOK, registry
<1>2. PICK h \in Handler :
         /\ th' = [th EXCEPT ![x] = h] /\ PlaceOK(h) /\ h.pc \in {"next", "idle"}
         /\ \/ h.op = "none" /\ th[x].op # "fleet"
            \/ h.op = th[x].op /\ h.sid = th[x].sid /\ h.del = th[x].del
  <2>1. CASE th[x].op \in {"fleet", "close"}
    <3> DEFINE h == [th[x] EXCEPT !.pc = "next"]
    <3>1. th' = [th EXCEPT ![x] = h]
      BY <2>1 DEF Out, Goto
    <3>2. /\ h \in Handler /\ h.pc = "next" /\ h.op = th[x].op /\ h.sid = th[x].sid
          /\ h.del = th[x].del /\ h.add = th[x].add /\ h.mode = th[x].mode
      BY <1>1 DEF Handler, Pc
    <3> HIDE DEF h
    <3>3. PlaceOK(h)
      BY <1>1, <2>1, <3>2 DEF PlaceOK
    <3> QED
      BY <3>1, <3>2, <3>3
  <2>2. CASE th[x].op \notin {"fleet", "close"}
    BY <2>2, IdleFacts DEF Out
  <2> QED
    BY <2>1, <2>2
<1>3. th'[x] = h /\ OthersStay(x)
  BY <1>2, Becomes, Handlers DEF OthersStay
<1>4. /\ TargetGates'
      /\ gate' \in [Target -> Seq(Thread)] /\ \A u \in Target : IsInjective(gate'[u])
  BY <1>1, <1>2, <1>3, TargetReturned, Queues DEF Inside, Working
<1>5. FleetGates'
  BY <1>1, <1>2, <1>3, FleetsKept, Queues
<1>6. SessionInv'
  <2>1. th[x].op = "close" =>
           /\ Active(th[x].sid) = {}
           /\ \A u \in Target : owners[th[x].sid][u] # {} => u \in th[x].del
    BY <1>1, Queues DEF SessionInv
  <2> QED
    BY <1>1, <1>2, <1>3, <2>1, SessionsKept, Queues
<1> QED
  BY <1>1, <1>2, <1>4, <1>5, <1>6, OutsideStep, Queues DEF Working

\* Who works for a session, apart from what it owns.
LEMMA SessionFacts ==
  ASSUME RconInv
  PROVE  /\ \A y \in Thread : th[y].sid \in Sid
         /\ \A y \in Thread : th[y].op = "close" => session[th[y].sid] = "closing"
         /\ \A y, z \in Thread : th[y].op = "close" /\ th[z].op = "close"
               /\ th[y].sid = th[z].sid => y = z
         /\ \A y \in Thread : th[y].op # "none" => session[th[y].sid] # "closed"
         /\ ClosedOwnsNothing
BY Handlers DEF RconInv, SessionInv

LEMMA BeginCloseInv ==
  ASSUME RconInv, NEW x \in Thread, NEW s \in Sid, BeginClose(x, s)
  PROVE  RconInv'
<1> DEFINE h == [Idle EXCEPT !.pc = "drain", !.op = "close", !.sid = s]
<1>1. /\ th[x].pc = "idle" /\ th[x].op = "none" /\ session[s] = "open"
      /\ th' = [th EXCEPT ![x] = h] /\ session' = [session EXCEPT ![s] = "closing"]
      /\ UNCHANGED <<owners, conn, room, gate, fleetGate, service>>
  BY Handlers DEF BeginClose, At, PlaceOK, registry, gates
<1>2. /\ h \in Handler /\ h.pc = "drain" /\ h.op = "close" /\ h.sid = s /\ h.add = {}
  BY IdleType DEF Handler, Idle, Pc, Ops
<1> HIDE DEF h
<1>3. th'[x] = h /\ OthersStay(x)
  BY <1>1, <1>2, Becomes, Handlers DEF OthersStay
<1>4. PlaceOK(h)
  BY <1>2 DEF PlaceOK
<1>5. TargetGates'
  BY <1>1, <1>2, <1>3, TargetsKept, Queues DEF Inside, Working
<1>6. FleetGates'
  BY <1>1, <1>2, <1>3, FleetsKept, Queues
<1>7. /\ session' \in [Sid -> {"open", "closing", "closed"}] /\ session'[s] = "closing"
      /\ \A r \in Sid : r # s => session'[r] = session[r]
  BY <1>1, Queues
<1>8. SessionInv'
  <2>1. \A y \in Thread : th[y].op = "close" => th[y].sid # s
    BY <1>1, SessionFacts
  <2>2. \A y \in Thread : th[y].sid \in Sid
    BY Handlers
  <2>3. ASSUME NEW r
        PROVE  {y \in Thread : th'[y].sid = r /\ th'[y].op \notin {"none", "close"}} = Active(r)
    BY <1>1, <1>2, <1>3 DEF Active, OthersStay
  <2>4. /\ \A y \in Thread : th'[y].op = "close" => session'[th'[y].sid] = "closing"
        /\ \A y, z \in Thread : th'[y].op = "close" /\ th'[z].op = "close"
              /\ th'[y].sid = th'[z].sid => y = z
        /\ \A y \in Thread : th'[y].op # "none" => session'[th'[y].sid] # "closed"
    BY <1>2, <1>3, <1>7, <2>1, <2>2, SessionFacts DEF OthersStay
  <2>5. ASSUME NEW y \in Thread, th'[y].op = "close", th'[y].pc # "drain"
        PROVE  /\ {z \in Thread : th'[z].sid = th'[y].sid /\ th'[z].op \notin {"none", "close"}} = {}
               /\ \A t \in Target : owners'[th'[y].sid][t] # {} =>
                     t \in th'[y].del \/ (th'[y].pc = "gated" /\ th'[y].target = t)
    <3>1. th'[y] = th[y]
      BY <1>2, <1>3, <2>5 DEF OthersStay
    <3>2. /\ Active(th[y].sid) = {}
          /\ \A t \in Target : owners[th[y].sid][t] # {} =>
                t \in th[y].del \/ (th[y].pc = "gated" /\ th[y].target = t)
      BY <2>5, <3>1, Queues DEF SessionInv
    <3> QED
      BY <1>1, <2>3, <3>1, <3>2
  <2>6. ClosedOwnsNothing'
    BY <1>1, <1>7, SessionFacts DEF ClosedOwnsNothing
  <2> QED
    BY <2>4, <2>5, <2>6 DEF SessionInv, Active
<1> QED
  BY <1>1, <1>2, <1>4, <1>5, <1>6, <1>7, <1>8, OutsideStep, Queues DEF Working

LEMMA DrainedInv ==
  ASSUME RconInv, NEW x \in Thread, Drained(x)
  PROVE  RconInv'
<1> DEFINE D == {t \in Target : owners[th[x].sid][t] # {}}
           h == [th[x] EXCEPT !.pc = "next", !.mode = "del", !.del = D]
<1>1. /\ th[x].pc = "drain" /\ th[x].op = "close" /\ th[x] \in Handler /\ th[x].add = {}
      /\ Active(th[x].sid) = {} /\ th' = [th EXCEPT ![x] = h]
      /\ UNCHANGED <<owners, conn, room, session, gate, fleetGate, service>>
  BY Handlers DEF Drained, At, PlaceOK, registry, gates
<1>2. D \in SUBSET Target /\ \A t \in Target : owners[th[x].sid][t] # {} => t \in D
  OBVIOUS
<1> HIDE DEF D
<1>3. /\ h \in Handler /\ h.pc = "next" /\ h.op = "close" /\ h.sid = th[x].sid /\ h.add = {}
      /\ h.mode = "del" /\ h.del = D
  BY <1>1, <1>2 DEF Handler, Pc
<1> HIDE DEF h
<1>4. th'[x] = h /\ OthersStay(x)
  BY <1>1, <1>3, Becomes, Handlers DEF OthersStay
<1>5. PlaceOK(h)
  BY <1>3 DEF PlaceOK
<1>6. TargetGates'
  BY <1>1, <1>3, <1>4, TargetsKept, Queues DEF Inside, Working
<1>7. FleetGates'
  BY <1>1, <1>3, <1>4, FleetsKept, Queues
<1>8. SessionInv'
  BY <1>1, <1>2, <1>3, <1>4, SessionsKept, Queues
<1> QED
  BY <1>1, <1>3, <1>5, <1>6, <1>7, <1>8, OutsideStep, Queues DEF Working

\* cleanup_sid_residual finds nothing to do: every target was released before.
LEMMA ClosedChangesNothing ==
  ASSUME RconInv, NEW x \in Thread, Closed(x)
  PROVE  /\ UNCHANGED <<conn, room>>
         /\ \A t \in Target : owners[th[x].sid][t] = {} /\ conn[th[x].sid][t] = "none"
                              /\ th[x].sid \notin room[t]
         /\ \A y \in Thread : y # x /\ th[y].op # "none" => th[y].sid # th[x].sid
<1> SUFFICES ASSUME NEW s \in Sid, th[x].sid = s
             PROVE  /\ UNCHANGED <<conn, room>>
                    /\ \A t \in Target : owners[s][t] = {} /\ conn[s][t] = "none" /\ s \notin room[t]
                    /\ \A y \in Thread : y # x /\ th[y].op # "none" => th[y].sid # s
  BY Handlers
<1>1. /\ th[x].pc = "next" /\ th[x].op = "close" /\ th[x].del = {}
      /\ conn' = [conn EXCEPT ![s] = [t \in Target |-> IF owners[s][t] = {} THEN "none" ELSE conn[s][t]]]
      /\ room' = [t \in Target |-> room[t] \ {s}]
  BY DEF Closed, At
<1>2. /\ SessionInv /\ RoomInv /\ conn \in [Sid -> [Target -> Thread \cup {"none", "established", "failed"}]]
      /\ room \in [Target -> SUBSET Sid]
  BY Handlers DEF RconInv, DataInv
<1>3. Active(s) = {} /\ \A t \in Target : owners[s][t] = {}
  BY <1>1, <1>2 DEF SessionInv
<1>4. \A y \in Thread : y # x /\ th[y].op # "none" => th[y].sid # s
  <2> SUFFICES ASSUME NEW y \in Thread, y # x, th[y].op # "none", th[y].sid = s
               PROVE  FALSE
    OBVIOUS
  <2>1. th[y].op = "close"
    BY <1>3 DEF Active
  <2> QED
    BY <2>1, <1>1, <1>2 DEF SessionInv
<1>5. \A t \in Target : conn[s][t] = "none"
  BY <1>2, <1>3 DEF RoomInv
<1>6. ASSUME NEW t \in Target
      PROVE  s \notin room[t]
  <2>1. \A y \in Thread : ~(th[y].pc = "leaveroom" /\ th[y].sid = s /\ th[y].target = t)
    <3>1. \A y \in Thread : th[y].pc = "leaveroom" => th[y].op # "none"
      BY Handlers DEF PlaceOK
    <3> QED
      BY <3>1, <1>1, <1>4
  <2> QED
    BY <2>1, <1>2, <1>3 DEF RoomInv
<1>7. conn' = conn
  <2>1. conn[s] = [t \in Target |-> IF owners[s][t] = {} THEN "none" ELSE conn[s][t]]
    BY <1>2, <1>3, <1>5
  <2>2. conn' = [conn EXCEPT ![s] = conn[s]]
    BY <1>1, <2>1
  <2> QED
    BY <2>2, <1>2
<1>8. room' = room
  <2>1. \A t \in Target : room[t] \ {s} = room[t]
    BY <1>6
  <2>2. room' = [t \in Target |-> room[t]]
    BY <1>1, <2>1
  <2> QED
    BY <2>2, <1>2
<1> QED
  BY <1>3, <1>4, <1>5, <1>6, <1>7, <1>8

LEMMA ClosedInv ==
  ASSUME RconInv, NEW x \in Thread, Closed(x)
  PROVE  RconInv'
<1> SUFFICES ASSUME NEW s \in Sid, th[x].sid = s
             PROVE  RconInv'
  BY Handlers
<1>1. /\ th[x].pc = "next" /\ th[x].op = "close"
      /\ th' = [th EXCEPT ![x] = Idle] /\ session' = [session EXCEPT ![s] = "closed"]
      /\ UNCHANGED <<owners, gate, fleetGate, service>>
  BY DEF Closed, At, gates
<1>2. /\ UNCHANGED <<conn, room>>
      /\ \A t \in Target : owners[s][t] = {} /\ conn[s][t] = "none" /\ s \notin room[t]
      /\ \A y \in Thread : y # x /\ th[y].op # "none" => th[y].sid # s
  BY ClosedChangesNothing
<1>3. th'[x] = Idle /\ OthersStay(x)
  BY <1>1, IdleFacts, Becomes, Handlers DEF OthersStay
<1>4. TargetGates'
  BY <1>1, <1>3, IdleFacts, TargetsKept, Queues DEF Inside, Working
<1>5. FleetGates'
  BY <1>1, <1>3, IdleFacts, FleetsKept, Queues
<1>6. /\ session' \in [Sid -> {"open", "closing", "closed"}] /\ session'[s] = "closed"
      /\ \A r \in Sid : r # s => session'[r] = session[r]
  BY <1>1, Queues
<1>7. SessionInv'
  <2>1. \A y \in Thread : th'[y].op # "none" => y # x /\ th'[y] = th[y] /\ th[y].sid # s
    BY <1>2, <1>3, IdleFacts DEF OthersStay
  <2>2. \A y \in Thread : th[y].sid \in Sid
    BY Handlers
  <2>3. ASSUME NEW r
        PROVE  {y \in Thread : th'[y].sid = r /\ th'[y].op \notin {"none", "close"}} \subseteq Active(r)
    BY <2>1 DEF Active
  <2>4. /\ \A y \in Thread : th'[y].op = "close" => session'[th'[y].sid] = "closing"
        /\ \A y, z \in Thread : th'[y].op = "close" /\ th'[z].op = "close"
              /\ th'[y].sid = th'[z].sid => y = z
        /\ \A y \in Thread : th'[y].op # "none" => session'[th'[y].sid] # "closed"
    BY <1>6, <2>1, <2>2, SessionFacts
  <2>5. ASSUME NEW y \in Thread, th'[y].op = "close", th'[y].pc # "drain"
        PROVE  /\ {z \in Thread : th'[z].sid = th'[y].sid /\ th'[z].op \notin {"none", "close"}} = {}
               /\ \A t \in Target : owners'[th'[y].sid][t] # {} =>
                     t \in th'[y].del \/ (th'[y].pc = "gated" /\ th'[y].target = t)
    <3>1. th'[y] = th[y]
      BY <2>1, <2>5
    <3>2. /\ Active(th[y].sid) = {}
          /\ \A t \in Target : owners[th[y].sid][t] # {} =>
                t \in th[y].del \/ (th[y].pc = "gated" /\ th[y].target = t)
      BY <2>5, <3>1, Queues DEF SessionInv
    <3> QED
      BY <1>1, <2>3, <3>1, <3>2
  <2>6. ClosedOwnsNothing'
    BY <1>1, <1>2, <1>6, SessionFacts DEF ClosedOwnsNothing
  <2> QED
    BY <2>4, <2>5, <2>6 DEF SessionInv, Active
<1> QED
  BY <1>1, <1>2, <1>4, <1>5, <1>6, <1>7, IdleFacts, OutsideStep, Queues DEF Working

LEMMA ReopenInv ==
  ASSUME RconInv, NEW s \in Sid, Reopen(s)
  PROVE  RconInv'
<1>1. /\ session[s] = "closed" /\ session' = [session EXCEPT ![s] = "open"]
      /\ UNCHANGED <<owners, conn, room, gate, fleetGate, th, chan, svc, apart>>
  BY DEF Reopen, registry, gates, service
<1>2. /\ session' \in [Sid -> {"open", "closing", "closed"}] /\ session'[s] = "open"
      /\ \A r \in Sid : r # s => session'[r] = session[r]
  BY <1>1, Queues
<1>3. TypeOK' /\ PlaceInv'
  BY <1>1, <1>2 DEF RconInv, TypeOK, PlaceInv
<1>4. GateInv'
  BY <1>1 DEF RconInv, GateInv, TargetGates, FleetGates, InGate, InFleet, Queued
<1>5. DataInv'
  <2>1. \A t \in Target : Told(t)' <=> Told(t)
    BY <1>1, ToldSame
  <2> QED
    BY <1>1, <2>1, DataKept DEF RconInv, TypeOK
<1>6. SessionInv'
  <2>1. /\ \A y \in Thread : th[y].op = "close" => session'[th[y].sid] = "closing"
        /\ \A y, z \in Thread : th[y].op = "close" /\ th[z].op = "close"
              /\ th[y].sid = th[z].sid => y = z
        /\ \A y \in Thread : th[y].op # "none" => session'[th[y].sid] # "closed"
    BY <1>1, <1>2, SessionFacts
  <2>2. ClosedOwnsNothing'
    BY <1>1, <1>2, SessionFacts DEF ClosedOwnsNothing
  <2>3. \A y \in Thread : th[y].op = "close" /\ th[y].pc # "drain" =>
            /\ Active(th[y].sid) = {}
            /\ \A t \in Target : owners[th[y].sid][t] # {} =>
                  t \in th[y].del \/ (th[y].pc = "gated" /\ th[y].target = t)
    BY Queues DEF SessionInv
  <2> QED
    BY <1>1, <2>1, <2>2, <2>3 DEF SessionInv, Active
<1> QED
  BY <1>3, <1>4, <1>5, <1>6 DEF RconInv

LEMMA DeliverInv ==
  ASSUME RconInv, NEW t \in Target, Deliver(t)
  PROVE  RconInv'
<1> DEFINE w == IF Head(chan[t]) = "command" THEN svc[t] ELSE Head(chan[t]) = "connect"
<1>1. /\ chan[t] # <<>> /\ chan' = [chan EXCEPT ![t] = Tail(chan[t])]
      /\ svc' = [svc EXCEPT ![t] = w]
      /\ UNCHANGED <<owners, conn, room, session, gate, fleetGate, th, apart>>
  BY DEF Deliver, registry, gates
<1>2. chan \in [Target -> Seq(Message)] /\ svc \in [Target -> BOOLEAN]
  BY DEF RconInv, TypeOK, Message
<1>3. Tail(chan[t]) \in Seq(Message) /\ w \in BOOLEAN
  <2>1. Tail(chan[t]) \in Seq(Message)
    BY <1>1, <1>2
  <2>2. svc[t] \in BOOLEAN
    BY <1>2
  <2> QED
    BY <2>1, <2>2
<1>4. Holds(Tail(chan[t]), w) <=> Holds(chan[t], svc[t])
  BY <1>1, <1>2, HoldsTail
<1> HIDE DEF w
<1>5. /\ chan' \in [Target -> Seq(Message)] /\ svc' \in [Target -> BOOLEAN]
      /\ chan'[t] = Tail(chan[t]) /\ svc'[t] = w
      /\ \A u \in Target : u # t => chan'[u] = chan[u] /\ svc'[u] = svc[u]
  BY <1>1, <1>2, <1>3
<1>6. \A u \in Target : Told(u)' <=> Told(u)
  <2> SUFFICES ASSUME NEW u \in Target
               PROVE  Told(u)' <=> Told(u)
    OBVIOUS
  <2>1. CASE u = t
    BY <2>1, <1>4, <1>5, ToldHolds
  <2>2. CASE u # t
    BY <2>2, <1>5, ToldSame
  <2> QED
    BY <2>1, <2>2
<1>7. TypeOK' /\ PlaceInv'
  BY <1>1, <1>5 DEF RconInv, TypeOK, PlaceInv, Message
<1>8. GateInv'
  BY <1>1 DEF RconInv, GateInv, TargetGates, FleetGates, InGate, InFleet, Queued
<1>9. DataInv'
  BY <1>1, <1>6, DataKept DEF RconInv, TypeOK
<1>10. SessionInv'
  BY <1>1 DEF RconInv, SessionInv, ClosedOwnsNothing, Active
<1> QED
  BY <1>7, <1>8, <1>9, <1>10 DEF RconInv

-----------------------------------------------------------------------------
(* The theorems.                                                           *)

LEMMA RconInit == Init => RconInv
<1> SUFFICES ASSUME Init
             PROVE  RconInv
  OBVIOUS
<1>1. \A x \in Thread : th[x] = Idle
  BY DEF Init
<1>2. TypeOK
  <2>1. th \in [Thread -> Handler]
    BY IdleFacts DEF Init
  <2>2. <<>> \in Seq(Thread) /\ IsInjective(<<>>) /\ <<>> \in Seq({"connect", "disconnect", "command"})
    BY DEF IsInjective
  <2> QED
    BY <2>1, <2>2 DEF Init, TypeOK, Owner
<1>3. GateInv
  <2>1. \A x : ~Queued(<<>>, x)
    BY DEF Queued
  <2> QED
    BY <1>1, <2>1, IdleFacts
    DEF Init, GateInv, TargetGates, FleetGates, InGate, InFleet, Inside, Working
<1>4. PlaceInv
  BY <1>1, IdleFacts DEF PlaceInv
<1>5. SessionInv
  BY <1>1, IdleFacts DEF Init, SessionInv, ClosedOwnsNothing
<1>6. \A t \in Target : ~Told(t)
  BY DEF Init, Told, OnlyCommands
<1>7. DataInv
  BY <1>1, <1>6, IdleFacts
  DEF Init, DataInv, RoomInv, SettledInv, Settled, WorkInv, WorkOK, Joining, Leaving
<1> QED
  BY <1>2, <1>3, <1>4, <1>5, <1>7 DEF RconInv

LEMMA RconStep == RconInv /\ [Next]_vars => RconInv'
<1> SUFFICES ASSUME RconInv, [Next]_vars
             PROVE  RconInv'
  OBVIOUS
<1>1. ASSUME NEW x \in Thread, Admission(x)
      PROVE  RconInv'
  BY <1>1, BeginInv, BeginFleetInv, BeginCloseInv DEF Admission
<1>2. ASSUME NEW x \in Thread, Handle(x)
      PROVE  RconInv'
  BY <1>2, CompareInv, NextTargetInv, FleetDoneInv, AcquireInv, BeginConnectInv, PublishInv,
     EstablishedInv, NotEstablishedInv, CommandInv, ReleaseInv, LeaveRoomInv, CountInv, OutInv,
     DrainedInv, ClosedInv
  DEF Handle
<1>3. CASE UNCHANGED vars
  <2>1. UNCHANGED <<owners, conn, room, session, gate, fleetGate, th, chan, svc, apart>>
    BY <1>3 DEF vars, registry, gates, service
  <2>2. TypeOK' /\ PlaceInv'
    BY <2>1 DEF RconInv, TypeOK, PlaceInv
  <2>3. GateInv'
    BY <2>1 DEF RconInv, GateInv, TargetGates, FleetGates, InGate, InFleet, Queued
  <2>4. SessionInv'
    BY <2>1 DEF RconInv, SessionInv, ClosedOwnsNothing, Active
  <2>5. \A t \in Target : Told(t)' <=> Told(t)
    BY <2>1, ToldSame
  <2>6. DataInv'
    BY <2>1, <2>5, DataKept DEF RconInv, TypeOK
  <2> QED
    BY <2>2, <2>3, <2>4, <2>6 DEF RconInv
<1> QED
  BY <1>1, <1>2, <1>3, ReopenInv, DeliverInv DEF Next

\* Gates, rooms, owners and channels stay in step, however joins, leaves,
\* selections and disconnects interleave (socketio_events.py, rcon_fleet_events.py).
THEOREM Invariant == Spec => []RconInv
<1>1. Init => RconInv
  BY RconInit
<1>2. RconInv /\ [Next]_vars => RconInv'
  BY RconStep
<1> QED
  BY <1>1, <1>2, PTL DEF Spec

\* The registry, the gates and the service's channels keep their types
\* (rcon_ownership.py, rcon_target_gate.py, rcon_fleet_gate.py).
THEOREM TypeCorrect == Spec => []TypeOK
<1>1. RconInv => TypeOK
  BY DEF RconInv
<1> QED
  BY <1>1, Invariant, PTL

\* An empty gate has nobody at work on its target.
LEMMA GateEmpty ==
  ASSUME RconInv, NEW t \in Target, gate[t] = <<>>, NEW x \in Thread, th[x].pc \in Working
  PROVE  th[x].target # t
BY DEF RconInv, GateInv, TargetGates, Inside

\* For any number of sessions, targets and threads: whenever no handler is at
\* work on a target, who owns it is exactly who is in its room
\* (socketio_events.py:116-219).
THEOREM OwnersAreInRoom == Spec => []OwnersInRoom
<1>1. RconInv => OwnersInRoom
  <2> SUFFICES ASSUME RconInv, NEW t \in Target, gate[t] = <<>>, NEW s \in Sid
               PROVE  owners[s][t] # {} <=> s \in room[t]
    BY DEF OwnersInRoom
  <2>1. \A x \in Thread : ~(th[x].pc = "leaveroom" /\ th[x].sid = s /\ th[x].target = t)
    BY GateEmpty DEF Working
  <2> QED
    BY <2>1 DEF RconInv, DataInv, RoomInv
<1> QED
  BY <1>1, Invariant, PTL

\* ... and the service was told to hold a connection exactly when somebody is
\* in the room, but for a failure that nobody repairs (rcon_target_gate.py).
THEOREM RoomsHaveConnections == Spec => []RoomHasConnection
<1>1. RconInv => RoomHasConnection
  <2> SUFFICES ASSUME RconInv, NEW t \in Target, gate[t] = <<>>, ~apart[t]
               PROVE  Told(t) <=> room[t] # {}
    BY DEF RoomHasConnection
  <2>1. \A x \in Thread : ~Amid(x, t)
    BY GateEmpty DEF Amid
  <2> QED
    BY <2>1 DEF RconInv, DataInv, SettledInv, Settled
<1> QED
  BY <1>1, Invariant, PTL

\* A closed session has left nothing behind, whatever was under way for it
\* (rcon_sid_lifecycle.py).
THEOREM ClosedLeavesNothing == Spec => []ClosedOwnsNothing
<1>1. RconInv => ClosedOwnsNothing
  BY DEF RconInv, SessionInv
<1> QED
  BY <1>1, Invariant, PTL

\* The channel after a step that is no command.
LEMMA NotACommand ==
  ASSUME NEW c \in Seq(Message)
  PROVE  /\ c # Append(c, "command")
         /\ \A m \in Message : m # "command" => Append(c, m) # Append(c, "command")
         /\ c # <<>> => Tail(c) # Append(c, "command")
<1>1. /\ Len(c) \in Nat /\ Len(Append(c, "command")) = Len(c) + 1
      /\ c # <<>> => Len(Tail(c)) = Len(c) - 1
  BY DEF Message
<1>2. \A m \in Message : Append(c, m)[Len(c) + 1] = m
  OBVIOUS
<1> QED
  BY <1>1, <1>2 DEF Message

LEMMA SentAfter ==
  ASSUME RconInv, NEW t \in Target, NEW u \in Target, NEW m \in Message, m # "command", Send(u, m)
  PROVE  chan'[t] # Append(chan[t], "command")
<1>1. chan \in [Target -> Seq(Message)]
  BY DEF RconInv, TypeOK, Message
<1>2. chan'[t] = IF t = u THEN Append(chan[t], m) ELSE chan[t]
  BY <1>1 DEF Send
<1> QED
  BY <1>1, <1>2, NotACommand

LEMMA CommandIsHeard ==
  ASSUME RconInv, [Next]_vars, NEW t \in Target, chan'[t] = Append(chan[t], "command")
  PROVE  Told(t) \/ apart[t]
<1>1. chan \in [Target -> Seq(Message)]
  BY DEF RconInv, TypeOK, Message
<1>2. chan'[t] # chan[t]
  BY <1>1, NotACommand
<1>3. ASSUME NEW x \in Thread, Admission(x)
      PROVE  FALSE
  BY <1>2, <1>3 DEF Admission, Begin, BeginFleet, BeginClose, service
<1>4. ASSUME NEW x \in Thread, Handle(x)
      PROVE  Told(t) \/ apart[t]
  <2>1. th[x].target \in Target /\ "connect" \in Message /\ "disconnect" \in Message
    BY Handlers DEF Message
  <2>2. CASE Compare(x) \/ NextTarget(x) \/ FleetDone(x) \/ Acquire(x) \/ BeginConnect(x)
             \/ NotEstablished(x) \/ Release(x) \/ LeaveRoom(x) \/ Out(x) \/ Drained(x) \/ Closed(x)
    <3>1. chan' = chan
      BY <2>2 DEF Compare, NextTarget, FleetDone, Acquire, BeginConnect, NotEstablished, Release,
                  LeaveRoom, Out, Drained, Closed, service
    <3> QED
      BY <3>1, <1>2
  <2>3. CASE Publish(x)
    BY <2>1, <2>3, <1>2, SentAfter DEF Publish
  <2>4. CASE Established(x)
    BY <2>1, <2>4, <1>2, SentAfter DEF Established, EndConnection
  <2>5. CASE Count(x)
    BY <2>1, <2>5, <1>2, SentAfter DEF Count, EndConnection
  <2>6. CASE Command(x)
    <3> SUFFICES ASSUME NEW s \in Sid, NEW u \in Target, th[x].sid = s, th[x].target = u
                 PROVE  Told(t) \/ apart[t]
      BY Handlers
    <3>1. /\ Turn(x) /\ th[x].pc = "gated" /\ s \in room[u] /\ Send(u, "command")
      BY <2>6, <1>2 DEF Command, Turn, At
    <3>2. u = t
      BY <3>1, <1>1, <1>2 DEF Send
    <3>3. Settled(t)
      BY <3>1, <3>2, HasTurn, AtRest DEF Working
    <3> QED
      BY <3>1, <3>2, <3>3 DEF Settled
  <2> QED
    BY <1>4, <2>2, <2>3, <2>4, <2>5, <2>6 DEF Handle
<1>5. ASSUME NEW s \in Sid, Reopen(s)
      PROVE  FALSE
  BY <1>2, <1>5 DEF Reopen, service
<1>6. ASSUME NEW u \in Target, Deliver(u)
      PROVE  FALSE
  <2>1. chan[u] # <<>> /\ chan'[t] = IF t = u THEN Tail(chan[t]) ELSE chan[t]
    BY <1>6, <1>1 DEF Deliver
  <2> QED
    BY <2>1, <1>1, NotACommand
<1>7. CASE UNCHANGED vars
  BY <1>2, <1>7 DEF vars, service
<1> QED
  BY <1>3, <1>4, <1>5, <1>6, <1>7 DEF Next

\* No command is sent behind the message that ends the connection, whoever
\* leaves or closes meanwhile (socketio_events.py:225-247).
THEOREM CommandsFindConnections == Spec => CommandFindsConnection
<1>1. RconInv /\ [Next]_vars =>
          [\A t \in Target : chan'[t] = Append(chan[t], "command") => Told(t) \/ apart[t]]_vars
  BY CommandIsHeard
<1> QED
  BY <1>1, Invariant, PTL DEF Spec, CommandFindsConnection

\* A claim is never stale: who published a connection still has its claim, so
\* complete_connect (rcon_ownership.py) always finds it.
THEOREM ClaimsHold ==
  Spec => [](\A x \in Thread : At(x, "published") => conn[th[x].sid][th[x].target] = x)
<1>1. RconInv => \A x \in Thread : At(x, "published") => conn[th[x].sid][th[x].target] = x
  BY DEF RconInv, DataInv, WorkInv, WorkOK, Joining, At
<1> QED
  BY <1>1, Invariant, PTL
=============================================================================
