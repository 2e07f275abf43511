------------------------------ MODULE RconRooms ------------------------------
(***************************************************************************)
(* Browsers that share one RCON connection per game server. A Socket.IO    *)
(* session owns a target for its console ("individual") or as part of its  *)
(* fleet selection; while it owns it, it is in the target's room; while a  *)
(* room has somebody in it, the RCON service is to hold a connection.      *)
(*                                                                         *)
(*   ui/rcon_ownership.py      owners, conn: the process-local registry    *)
(*   ui/rcon_sid_lifecycle.py  session: closing drains what is under way   *)
(*   ui/rcon_target_gate.py    gate: FIFO tickets per target               *)
(*   ui/rcon_fleet_gate.py     fleetGate: FIFO tickets per session         *)
(*   ui/socketio_events.py, ui/rcon_fleet_events.py     the handlers       *)
(*   rcon_service/             chan and svc: commands and connections      *)
(*                                                                         *)
(* Each handler runs in a thread of its own. A registry mutation holds its *)
(* stripe's lock and is one step, as is a call of Socket.IO or of Redis.   *)
(* The stats stream, which only a DEBUG log level enables, is left out.    *)
(***************************************************************************)
EXTENDS Naturals, Sequences, FiniteSets, Functions, SequencesExt

CONSTANTS Sid,       \* Socket.IO sessions
          Target,    \* game servers
          Thread,    \* handler threads
          MaxQueue,  \* bound: messages under way to the service, per target
          Faults     \* what may go wrong

FaultKinds ==
    {"publish",   \* Redis or the RCON service is down
     "count",     \* the participants of a room cannot be determined
     "room"}      \* join_room or leave_room raises in a fleet handler. (The other
                  \* handlers do not guard these calls, and what they leave behind
                  \* when one raises is not modelled.)

ASSUME RconAssumption ==
    /\ Sid # {} /\ Target # {}
    /\ MaxQueue \in Nat \ {0}
    /\ Faults \in SUBSET FaultKinds
    /\ Thread \cap {"none", "established", "failed"} = {}

VARIABLES owners,     \* owners[s][t]: what session s owns target t for
          conn,       \* conn[s][t]: none, established, failed, or the thread
                      \* whose publication is pending
          room,       \* room[t]: the sessions in the target's room
          session,    \* open, closing or closed
          gate,       \* gate[t]: tickets for the target
          fleetGate,  \* fleetGate[s]: tickets for the session's selection
          th,         \* the handler threads
          chan,       \* chan[t]: messages on their way to the service
          svc,        \* svc[t]: the service holds a connection, or lost it and
                      \* was not told to end it
          apart       \* history: a failure that nobody repairs, reported to the
                      \* user or only logged, left room and connection apart

registry == <<owners, conn>>
gates == <<gate, fleetGate>>
service == <<chan, svc, apart>>
vars == <<registry, room, session, gates, th, service>>

Owner == {"individual", "fleet"}
Ops == {"none", "join", "leave", "command", "fleet", "close"}
Pc == {"idle", "fleetgated", "next", "drain", "gated", "connect", "publish",
       "published", "unpublished", "leaveroom", "count", "out"}

Handler == [pc : Pc, op : Ops, sid : Sid, target : Target, changed : BOOLEAN,
            add : SUBSET Target, del : SUBSET Target, mode : {"add", "del"}]

TypeOK ==
    /\ owners \in [Sid -> [Target -> SUBSET Owner]]
    /\ conn \in [Sid -> [Target -> Thread \cup {"none", "established", "failed"}]]
    /\ room \in [Target -> SUBSET Sid]
    /\ session \in [Sid -> {"open", "closing", "closed"}]
    /\ gate \in [Target -> Seq(Thread)] /\ \A t \in Target : IsInjective(gate[t])
    /\ fleetGate \in [Sid -> Seq(Thread)] /\ \A s \in Sid : IsInjective(fleetGate[s])
    /\ th \in [Thread -> Handler]
    /\ chan \in [Target -> Seq({"connect", "disconnect", "command"})]
    /\ svc \in [Target -> BOOLEAN]
    /\ apart \in [Target -> BOOLEAN]

Idle == [pc |-> "idle", op |-> "none", sid |-> CHOOSE s \in Sid : TRUE,
         target |-> CHOOSE t \in Target : TRUE, changed |-> FALSE,
         add |-> {}, del |-> {}, mode |-> "add"]

Init ==
    /\ owners = [s \in Sid |-> [t \in Target |-> {}]]
    /\ conn = [s \in Sid |-> [t \in Target |-> "none"]]
    /\ room = [t \in Target |-> {}]
    /\ session = [s \in Sid |-> "open"]
    /\ gate = [t \in Target |-> <<>>]
    /\ fleetGate = [s \in Sid |-> <<>>]
    /\ th = [x \in Thread |-> Idle]
    /\ chan = [t \in Target |-> <<>>]
    /\ svc = [t \in Target |-> FALSE]
    /\ apart = [t \in Target |-> FALSE]

At(x, pc) == th[x].pc = pc
Goto(x, pc) == th' = [th EXCEPT ![x].pc = pc]

\* queue.remove(ticket), of a ticket that is in the queue.
Without(queue, x) == RemoveAt(queue, CHOOSE i \in DOMAIN queue : queue[i] = x)

\* What the thread owns, or wants to own, its target for.
OwnerOf(x) == IF th[x].op = "fleet" THEN "fleet" ELSE "individual"

\* The operations rcon_sid_lifecycle counts as active for a session.
Active(s) == {x \in Thread : th[x].sid = s /\ th[x].op \notin {"none", "close"}}

-----------------------------------------------------------------------------
(* Publications.                                                           *)

\* publish_json succeeded: somebody subscribes to the channel.
Send(t, msg) ==
    /\ Len(chan[t]) < MaxQueue
    /\ chan' = [chan EXCEPT ![t] = Append(@, msg)]
    /\ apart' = [apart EXCEPT ![t] = @ /\ msg = "command"]

\* _participant_count, and the publication that ends the connection when nobody
\* but session s is left in the room. A count that fails stands for somebody; then,
\* and when the publication fails, the connection stays and nobody tries again.
EndConnection(s, t) ==
    IF room[t] \ {s} # {} THEN UNCHANGED <<chan, apart>>
    ELSE \/ Send(t, "disconnect")
         \/ /\ Faults \cap {"publish", "count"} # {}
            /\ apart' = [apart EXCEPT ![t] = TRUE]
            /\ UNCHANGED chan

-----------------------------------------------------------------------------
(* A handler starts (sid_operation_only), unless its session is closing.   *)

\* Faulty variant: the session's closing is not looked at.
AcceptsAlways(s) == session[s] # "closed"

Accepts(s) == session[s] = "open"

\* resolve_fleet_target found the target; the thread draws its ticket.
Begin(x, op, s, t) ==
    /\ At(x, "idle")
    /\ Accepts(s)
    /\ th' = [th EXCEPT ![x] = [Idle EXCEPT !.pc = "gated", !.op = op, !.sid = s,
                                   !.target = t, !.mode = IF op = "leave" THEN "del" ELSE "add"]]
    /\ gate' = [gate EXCEPT ![t] = Append(@, x)]
    /\ UNCHANGED <<registry, room, session, fleetGate, service>>

\* fleet_join, fleet_targets and fleet_leave: the complete selection, {} for
\* the last.
BeginFleet(x, s, selection) ==
    /\ At(x, "idle")
    /\ Accepts(s)
    /\ th' = [th EXCEPT ![x] = [Idle EXCEPT !.pc = "fleetgated", !.op = "fleet",
                                   !.sid = s, !.add = selection]]
    /\ fleetGate' = [fleetGate EXCEPT ![s] = Append(@, x)]
    /\ UNCHANGED <<registry, room, session, gate, service>>

\* What is owned and not selected is to be removed.
Compare(x) ==
    LET s == th[x].sid IN
    /\ At(x, "fleetgated")
    /\ Head(fleetGate[s]) = x
    /\ th' = [th EXCEPT ![x].pc = "next",
                 ![x].del = {t \in Target : "fleet" \in owners[s][t]} \ th[x].add]
    /\ UNCHANGED <<registry, room, session, gates, service>>

\* The next target of a selection, or of a session that closes: additions
\* first. The order among them, by name in the code, does not matter here.
NextTarget(x) ==
    /\ At(x, "next")
    /\ \E t \in IF th[x].add # {} THEN th[x].add ELSE th[x].del :
          /\ th' = [th EXCEPT ![x].pc = "gated", ![x].target = t, ![x].changed = FALSE,
                       ![x].add = @ \ {t},
                       ![x].del = IF th[x].add # {} THEN @ ELSE @ \ {t},
                       ![x].mode = IF th[x].add # {} THEN "add" ELSE "del"]
          /\ gate' = [gate EXCEPT ![t] = Append(@, x)]
    /\ UNCHANGED <<registry, room, session, fleetGate, service>>

FleetDone(x) ==
    /\ At(x, "next")
    /\ th[x].op = "fleet"
    /\ th[x].add \cup th[x].del = {}
    /\ fleetGate' = [fleetGate EXCEPT ![th[x].sid] = Without(@, x)]
    /\ th' = [th EXCEPT ![x] = Idle]
    /\ UNCHANGED <<registry, room, session, gate, service>>

-----------------------------------------------------------------------------
(* In the target's gate.                                                   *)

\* Faulty variant: nobody waits for the gate.
TurnAlways(x) == At(x, "gated")

Turn(x) == At(x, "gated") /\ Head(gate[th[x].target]) = x

\* acquire_owner, and join_room for the first owner; a fleet handler takes the
\* acquisition back when that raises.
Acquire(x) ==
    LET s == th[x].sid
        t == th[x].target
        o == OwnerOf(x)
        first == owners[s][t] = {}
    IN
    /\ Turn(x)
    /\ th[x].op \in {"join", "fleet"}
    /\ th[x].mode = "add"
    /\ \/ /\ owners' = [owners EXCEPT ![s][t] = @ \cup {o}]
          /\ room' = [room EXCEPT ![t] = IF first THEN @ \cup {s} ELSE @]
          /\ th' = [th EXCEPT ![x].pc = "connect", ![x].changed = o \notin owners[s][t]]
       \/ /\ "room" \in Faults /\ o = "fleet" /\ first
          /\ Goto(x, "out")
          /\ UNCHANGED <<owners, room>>
    /\ UNCHANGED <<conn, session, gates, service>>

\* begin_connect: claim the publication, use the connection that is there, or
\* wait while somebody else's is pending.
BeginConnect(x) ==
    LET s == th[x].sid
        t == th[x].target
    IN
    /\ At(x, "connect")
    /\ conn[s][t] \notin Thread \/ OwnerOf(x) \notin owners[s][t]
    /\ IF OwnerOf(x) \notin owners[s][t] \/ conn[s][t] = "established"
       THEN Goto(x, "out") /\ UNCHANGED conn
       ELSE Goto(x, "publish") /\ conn' = [conn EXCEPT ![s][t] = x]
    /\ UNCHANGED <<owners, room, session, gates, service>>

Publish(x) ==
    /\ At(x, "publish")
    /\ \/ Send(th[x].target, "connect") /\ Goto(x, "published")
       \/ "publish" \in Faults /\ Goto(x, "unpublished") /\ UNCHANGED <<chan, apart>>
    /\ UNCHANGED <<registry, room, session, gates, svc>>

\* complete_connect after a publication. The claim is stale when the registry
\* forgot it meanwhile: if nobody else is in the room, the connection goes.
Established(x) ==
    LET s == th[x].sid
        t == th[x].target
    IN
    /\ At(x, "published")
    /\ IF conn[s][t] = x
       THEN /\ conn' = [conn EXCEPT ![s][t] = "established"]
            /\ UNCHANGED <<chan, apart>>
       ELSE /\ UNCHANGED conn
            /\ EndConnection(s, t)
    /\ Goto(x, "out")
    /\ UNCHANGED <<owners, room, session, gates, svc>>

\* complete_connect after a failed publication: the acquisition is rolled back,
\* and who owned nothing else leaves the room. A fleet handler whose leave_room
\* raises stays an owner.
NotEstablished(x) ==
    LET s == th[x].sid
        t == th[x].target
        rest == owners[s][t] \ (IF th[x].changed THEN {OwnerOf(x)} ELSE {})
    IN
    /\ At(x, "unpublished")
    /\ conn' = [conn EXCEPT ![s][t] = IF @ # x THEN @ ELSE IF rest = {} THEN "none" ELSE "failed"]
    /\ \/ /\ owners' = [owners EXCEPT ![s][t] = IF conn[s][t] = x THEN rest ELSE @]
          /\ room' = [room EXCEPT ![t] = IF conn[s][t] = x /\ rest = {} THEN @ \ {s} ELSE @]
          /\ UNCHANGED apart
       \/ /\ "room" \in Faults /\ th[x].op = "fleet" /\ conn[s][t] = x /\ rest = {}
          /\ apart' = [apart EXCEPT ![t] = TRUE]
          /\ UNCHANGED <<owners, room>>
    /\ Goto(x, "out")
    /\ UNCHANGED <<session, gates, chan, svc>>

\* A command of a session that owns the target and is in its room.
Command(x) ==
    LET s == th[x].sid
        t == th[x].target
    IN
    /\ Turn(x)
    /\ th[x].op = "command"
    /\ IF owners[s][t] # {} /\ s \in room[t]
       THEN Send(t, "command") \/ ("publish" \in Faults /\ UNCHANGED <<chan, apart>>)
       ELSE UNCHANGED <<chan, apart>>
    /\ Goto(x, "out")
    /\ UNCHANGED <<registry, room, session, gates, svc>>

\* release_owner; cleanup_target for a session that closes.
Release(x) ==
    LET s == th[x].sid
        t == th[x].target
        rest == IF th[x].op = "close" THEN {} ELSE owners[s][t] \ {OwnerOf(x)}
        final == owners[s][t] # {} /\ rest = {}
    IN
    /\ Turn(x)
    /\ th[x].mode = "del"
    /\ IF th[x].op = "leave" /\ s \notin room[t]
       THEN UNCHANGED registry /\ Goto(x, "out")
       ELSE /\ owners' = [owners EXCEPT ![s][t] = rest]
            /\ conn' = [conn EXCEPT ![s][t] = IF final THEN "none" ELSE @]
            /\ Goto(x, IF final THEN "leaveroom" ELSE "out")
    /\ UNCHANGED <<room, session, gates, service>>

\* Faulty variant: a fleet handler whose leave_room raises owns nothing.
LeaveRoomForgets(x) ==
    LET t == th[x].target IN
    /\ At(x, "leaveroom")
    /\ \/ room' = [room EXCEPT ![t] = @ \ {th[x].sid}] /\ Goto(x, "count")
       \/ "room" \in Faults /\ th[x].op = "fleet" /\ Goto(x, "out") /\ UNCHANGED room
    /\ UNCHANGED <<registry, session, gates, service>>

\* A fleet handler whose leave_room raises stays an owner.
LeaveRoom(x) ==
    LET s == th[x].sid
        t == th[x].target
    IN
    /\ At(x, "leaveroom")
    /\ \/ /\ room' = [room EXCEPT ![t] = @ \ {s}]
          /\ Goto(x, "count")
          /\ UNCHANGED owners
       \/ /\ "room" \in Faults /\ th[x].op = "fleet"
          /\ owners' = [owners EXCEPT ![s][t] = @ \cup {"fleet"}]
          /\ Goto(x, "out")
          /\ UNCHANGED room
    /\ UNCHANGED <<conn, session, gates, service>>

\* Faulty variant: whoever leaves ends the connection.
CountIgnored(x) ==
    /\ At(x, "count")
    /\ Send(th[x].target, "disconnect")
    /\ Goto(x, "out")
    /\ UNCHANGED <<registry, room, session, gates, svc>>

Count(x) ==
    /\ At(x, "count")
    /\ EndConnection(th[x].sid, th[x].target)
    /\ Goto(x, "out")
    /\ UNCHANGED <<registry, room, session, gates, svc>>

\* Faulty variant: the ticket of a handler that failed is not given back.
OutKeepsTicket(x) ==
    /\ At(x, "out")
    /\ IF th[x].op \in {"fleet", "close"} THEN Goto(x, "next")
       ELSE th' = [th EXCEPT ![x] = Idle]
    /\ UNCHANGED <<registry, room, session, gates, service>>

\* The ticket is given back, also when the handler failed.
Out(x) ==
    /\ At(x, "out")
    /\ gate' = [gate EXCEPT ![th[x].target] = Without(@, x)]
    /\ IF th[x].op \in {"fleet", "close"} THEN Goto(x, "next")
       ELSE th' = [th EXCEPT ![x] = Idle]
    /\ UNCHANGED <<registry, room, session, fleetGate, service>>

-----------------------------------------------------------------------------
(* The disconnect handler.                                                 *)

BeginClose(x, s) ==
    /\ At(x, "idle")
    /\ session[s] = "open"
    /\ session' = [session EXCEPT ![s] = "closing"]
    /\ th' = [th EXCEPT ![x] = [Idle EXCEPT !.pc = "drain", !.op = "close", !.sid = s]]
    /\ UNCHANGED <<registry, room, gates, service>>

\* Faulty variant: cleanup does not wait for the handlers under way.
DrainedAtOnce(x) ==
    /\ At(x, "drain")
    /\ th' = [th EXCEPT ![x].pc = "next", ![x].mode = "del",
                 ![x].del = {t \in Target : owners[th[x].sid][t] # {}}]
    /\ UNCHANGED <<registry, room, session, gates, service>>

\* The handlers under way have ended; snapshot_owned.
Drained(x) ==
    /\ At(x, "drain")
    /\ Active(th[x].sid) = {}
    /\ th' = [th EXCEPT ![x].pc = "next", ![x].mode = "del",
                 ![x].del = {t \in Target : owners[th[x].sid][t] # {}}]
    /\ UNCHANGED <<registry, room, session, gates, service>>

\* cleanup_sid_residual; Socket.IO then forgets the session and its rooms.
Closed(x) ==
    LET s == th[x].sid IN
    /\ At(x, "next")
    /\ th[x].op = "close"
    /\ th[x].del = {}
    /\ conn' = [conn EXCEPT ![s] = [t \in Target |-> IF owners[s][t] = {} THEN "none" ELSE @[t]]]
    /\ room' = [t \in Target |-> room[t] \ {s}]
    /\ session' = [session EXCEPT ![s] = "closed"]
    /\ th' = [th EXCEPT ![x] = Idle]
    /\ UNCHANGED <<owners, gates, service>>

\* Another browser, with a session id nothing remembers.
Reopen(s) ==
    /\ session[s] = "closed"
    /\ \A x \in Thread : th[x].op # "none" => th[x].sid # s
    /\ \A t \in Target : owners[s][t] = {} /\ s \notin room[t]
    /\ session' = [session EXCEPT ![s] = "open"]
    /\ UNCHANGED <<registry, room, gates, th, service>>

-----------------------------------------------------------------------------
(* The RCON service: one asyncio lock per target, in the order of arrival. *)

Deliver(t) ==
    /\ chan[t] # <<>>
    /\ chan' = [chan EXCEPT ![t] = Tail(@)]
    /\ svc' = [svc EXCEPT ![t] = IF Head(chan[t]) = "command" THEN @
                                 ELSE Head(chan[t]) = "connect"]
    /\ UNCHANGED <<registry, room, session, gates, th, apart>>

-----------------------------------------------------------------------------
(* The specification.                                                      *)

Admission(x) == \E s \in Sid :
    \/ \E op \in {"join", "leave", "command"}, t \in Target : Begin(x, op, s, t)
    \/ \E selection \in SUBSET Target : BeginFleet(x, s, selection)
    \/ BeginClose(x, s)

Handle(x) ==
    \/ Compare(x) \/ NextTarget(x) \/ FleetDone(x)
    \/ Acquire(x) \/ BeginConnect(x) \/ Publish(x) \/ Established(x) \/ NotEstablished(x)
    \/ Command(x) \/ Release(x) \/ LeaveRoom(x) \/ Count(x) \/ Out(x)
    \/ Drained(x) \/ Closed(x)

Next ==
    \/ \E x \in Thread : Admission(x) \/ Handle(x)
    \/ \E s \in Sid : Reopen(s)
    \/ \E t \in Target : Deliver(t)

Spec == Init /\ [][Next]_vars

\* Threads run on, and the service takes what it is sent.
Fairness ==
    /\ \A x \in Thread : WF_vars(Handle(x))
    /\ \A t \in Target : WF_vars(Deliver(t))

FairSpec == Spec /\ Fairness

-----------------------------------------------------------------------------
(* Properties.                                                             *)

\* The target's connection, once the service has read what is under way.
OnlyCommands(t, from) == \A j \in from..Len(chan[t]) : chan[t][j] = "command"
Told(t) ==
    \/ \E i \in DOMAIN chan[t] : chan[t][i] = "connect" /\ OnlyCommands(t, i + 1)
    \/ svc[t] /\ OnlyCommands(t, 1)

\* Whenever no handler is at work on a target, a session owns it exactly when
\* it is in its room (socketio_events.py, rcon_fleet_events.py): whoever owns a
\* target hears it, and nobody else does.
OwnersInRoom ==
    \A t \in Target : gate[t] = <<>> =>
        \A s \in Sid : owners[s][t] # {} <=> s \in room[t]

\* Whenever no handler is at work on a target, the service was told to hold a
\* connection exactly when somebody is in the room (socketio_events.py:116-219,
\* rcon_fleet_events.py:75-159): no session that leaves takes the connection
\* away from one that joins at the same time, and none stays behind. Excepted is a
\* target after a failure that nobody repairs until the next connect or disconnect:
\* of the count or the publication at the end of a connection (which only rcon:leave
\* reports, and of these two only the publication), or of a fleet handler's leave_room.
RoomHasConnection ==
    \A t \in Target : gate[t] = <<>> /\ ~apart[t] =>
        (Told(t) <=> room[t] # {})

\* A session that was closed has left nothing behind: no ownership, no room, no
\* connection state (rcon_sid_lifecycle.py:1-13).
ClosedOwnsNothing ==
    \A s \in Sid : session[s] = "closed" =>
        \A t \in Target : owners[s][t] = {} /\ conn[s][t] = "none" /\ s \notin room[t]

\* No command is sent behind the message that ends the connection
\* (socketio_events.py:225-247, rcon_fleet_events.py:216-258): channels keep
\* their order, so the service has a connection when the command arrives.
CommandFindsConnection ==
    [][\A t \in Target : chan'[t] = Append(chan[t], "command") =>
           Told(t) \/ apart[t]]_vars

\* Every handler ends: tickets, drained sessions and pending publications never
\* wait for each other in a circle (rcon_target_gate.py, rcon_fleet_gate.py,
\* rcon_sid_lifecycle.py).
HandlersEnd == \A x \in Thread : ~At(x, "idle") ~> At(x, "idle")
=============================================================================
