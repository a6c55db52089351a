----------------------------- MODULE Handshake -----------------------------
(***************************************************************************)
(* How two nodes connect, watch each other and part: the connect timers of *)
(* module_net/session_manager.cpp, the base protocol of                    *)
(* module_handler/handler_base.cpp and the heartbeat timers, over UDP,     *)
(* which loses, reorders and duplicates.                                   *)
(*                                                                         *)
(* A connecting node pings until it is answered, then asks to connect      *)
(* until it is acknowledged, and from then on probes the other side; the   *)
(* accepting node examines whether anything still comes.  A packet is      *)
(* first tied to the session of its sender's address, by the reactor, and  *)
(* handled later by a worker of the pool.                                  *)
(*                                                                         *)
(* No lock guards the status of a session.  A handler looks the Session    *)
(* object up, tests its status and sets it in steps of their own, between  *)
(* which other workers, timers and even another session of that object     *)
(* may come; and on_accept() publishes a session before it is connected.   *)
(*                                                                         *)
(* Session ids are numbered in the order of opening: PeerUse shows that an *)
(* id is not used again while a timer or a task of it may be left.         *)
(* new_session() and disconnect() are atomic here; SessionManager takes    *)
(* them apart.                                                             *)
(***************************************************************************)
EXTENDS Integers, Sequences, FiniteSets

CONSTANTS
    Nodes,                \* the two nodes
    Workers,              \* the threads of each node's pool
    PING_TIMEOUT_COUNT,
    PoolSize,             \* the Session objects there are for sessions with the other
    TimeoutMod,           \* m_TimeoutCount wraps at this, 256
    Settings              \* what may be asked of the nodes, with the bounds for it:
        \* kinds                  the ways in which each node's application connects
        \* CONNECT_TIMEOUT_COUNT
        \* busy                   bound: the workers that take packets, of each node
        \* maxSessions            bound: the sessions a node ever opens
        \* maxInFlight            bound: packets on the way at a time
        \* maxCopies              bound: packets the network delivers twice
        \* maxRestarts            bound: how often nodes are restarted
        \* maxTimers              bound: timers of one kind and session
        \* maxRefusals            bound: how often add_timer() finds its table full

ConnectKinds == {"tracker", "peer", "relay", "ping"}  \* ping: to help another node

ASSUME HandshakeAssumption ==
    /\ IsFiniteSet(Nodes) /\ Cardinality(Nodes) = 2
    /\ {PING_TIMEOUT_COUNT, PoolSize, TimeoutMod} \subseteq Nat \ {0}
    /\ \A x \in Settings :
         /\ DOMAIN x = {"kinds", "CONNECT_TIMEOUT_COUNT", "busy", "maxSessions", "maxInFlight",
                        "maxCopies", "maxRestarts", "maxTimers", "maxRefusals"}
         /\ x.busy \in [Nodes -> SUBSET Workers]
         /\ x.kinds \in [Nodes -> SUBSET (ConnectKinds \ {"ping"})]
         /\ {x.CONNECT_TIMEOUT_COUNT, x.maxTimers} \subseteq Nat \ {0}
         /\ {x.maxSessions, x.maxInFlight, x.maxCopies, x.maxRestarts,
             x.maxRefusals} \subseteq Nat

VARIABLES
    session,      \* the session each node has with the other one
    object,       \* its Session objects
    pool,         \* those in m_SessionPool
    opened,       \* the sessions it has opened so far
    triggerTimes, \* the static TriggerTimes of each kind of connect timer
    timers,       \* the timers of its session, by kind
    leftTimers,   \* those of closed sessions that will still do something
    task,         \* what each worker is handling
    booting,      \* AppCtrl::start() is still to come
    net,          \* the packets on the way
    copies,       \* the packets delivered twice so far
    restarts,     \* the restarts so far
    refusals,     \* the times add_timer() has found its table full
    setting       \* the one of Settings that this behaviour is about

timerVars == <<timers, refusals>>
nodeVars == <<session, object, pool, opened, triggerTimes, timerVars, leftTimers>>
netVars == <<net, copies>>
rareVars == <<booting, restarts, setting>>
vars == <<nodeVars, task, netVars, rareVars>>

Kinds == setting.kinds
CONNECT_TIMEOUT_COUNT == setting.CONNECT_TIMEOUT_COUNT
MaxTimers == setting.maxTimers

\* The nodes whose application opens sessions; the others only accept.
Initiators == {n \in Nodes : Kinds[n] # {}}

Other(n) == CHOOSE m \in Nodes : m # n

DISCONNECT == "STATUS_DISCONNECT"
PING_COMPLETE == "STATUS_PING_COMPLETE"
CONNECT_COMPLETE == "STATUS_CONNECT_COMPLETE"

TimerKinds == ConnectKinds \cup {"check", "probe", "examine"}
\* These two count before they look for their session.
EagerKinds == {"tracker", "ping"}
NoTimers == [k \in TimerKinds |-> 0]

\* peer is the other node's session that this one was made with: no variable
\* of the code, it only serves the properties.
NoSession == [id |-> 0, obj |-> 0, peer |-> 0]
FreshObject == [status |-> DISCONNECT, timeouts |-> 0]
Idle == [pc |-> "idle", type |-> "none", from |-> 0, id |-> 0, obj |-> 0]

BaseTypes == {"PING_REQ", "PING_ACK", "CONNECT_REQ", "CONNECT_ACK", "CONNECT_RFS",
              "DISCONNECT"}
KcpTypes == {"HEARTBEAT", "KCP_ACK"}
RelayTypes == {"PING_HELP", "HELP_ACK", "HELP_RFS"}

Status(n) == object[n][session[n].obj].status
Open(n) == session[n].id # 0
Connected(n) == Open(n) /\ Status(n) = CONNECT_COMPLETE
Found(n, id) == Open(n) /\ session[n].id = id

Init ==
    /\ setting \in Settings
    /\ session = [n \in Nodes |-> NoSession]
    /\ object = [n \in Nodes |-> [o \in 1..PoolSize |-> FreshObject]]
    /\ pool = [n \in Nodes |-> [i \in 1..PoolSize |-> i]]
    /\ opened = [n \in Nodes |-> 0]
    /\ triggerTimes = [n \in Nodes |-> [k \in ConnectKinds |-> 0]]
    /\ timers = [n \in Nodes |-> NoTimers]
    /\ leftTimers = [n \in Nodes |-> [k \in EagerKinds |-> 0]]
    /\ task = [n \in Nodes |-> [w \in Workers |-> Idle]]
    /\ booting = Initiators
    /\ net = {}
    /\ copies = 0
    /\ restarts = 0
    /\ refusals = 0

-----------------------------------------------------------------------------
(* Packets.  Any of those sent may be lost, and is when too many are on the  *)
(* way.                                                                      *)

Packet(n, type) == [to |-> Other(n), type |-> type, from |-> session[n].id]

\* The network takes some of the packets ps.
Transmit(ps) ==
    \E arrived \in SUBSET ps :
        /\ net' = net \cup arrived
        /\ Cardinality(net') <= setting.maxInFlight

SendNothing == UNCHANGED net

-----------------------------------------------------------------------------
(* Sessions. *)

\* new_session() with the object that has been in the pool for longest, whose
\* m_SessionStatus and m_TimeoutCount init() leaves as they are.
NewSession(n, from) ==
    LET id == opened[n] + 1 IN
    /\ ~Open(n)
    /\ opened[n] < setting.maxSessions
    /\ opened' = [opened EXCEPT ![n] = id]
    /\ session' = [session EXCEPT ![n] =
                      [id |-> id, obj |-> pool[n][Len(pool[n])], peer |-> from]]
    /\ pool' = [pool EXCEPT ![n] = SubSeq(@, 1, Len(@) - 1)]
    /\ UNCHANGED leftTimers

\* add_timer(), which returns false when m_TimerCount is at its limit; those who
\* look at the answer only log it.
AddTimer(n, kind) ==
    /\ timers[n][kind] < MaxTimers
    /\ \/ timers' = [timers EXCEPT ![n][kind] = @ + 1] /\ UNCHANGED refusals
       \/ /\ refusals < setting.maxRefusals
          /\ refusals' = refusals + 1
          /\ UNCHANGED timers

\* Slip: the object does not go back to the pool.
SlipCloseKeepsObject(n, kind) ==
    /\ session' = [session EXCEPT ![n] = NoSession]
    /\ timers' = [timers EXCEPT ![n] = NoTimers]
    /\ leftTimers' = [leftTimers EXCEPT ![n] =
           [k \in EagerKinds |-> @[k] + timers[n][k] - IF k = kind THEN 1 ELSE 0]]
    /\ UNCHANGED <<pool, refusals>>

\* disconnect() or disconnect_in_timer() of a session that is there, called by
\* a timer of the given kind, which ends, or by none.  The other timers will
\* find no session and end; only those of EagerKinds do more than that.
CloseSession(n, kind) ==
    /\ session' = [session EXCEPT ![n] = NoSession]
    /\ pool' = [pool EXCEPT ![n] = <<session[n].obj>> \o @]
    /\ timers' = [timers EXCEPT ![n] = NoTimers]
    /\ leftTimers' = [leftTimers EXCEPT ![n] =
           [k \in EagerKinds |-> @[k] + timers[n][k] - IF k = kind THEN 1 ELSE 0]]
    /\ UNCHANGED refusals

KeepSession == UNCHANGED <<session, pool, leftTimers>>
EndTimer(n, kind) == timers' = [timers EXCEPT ![n][kind] = @ - 1] /\ UNCHANGED refusals

\* connect_tracker(), once, when the application starts.
ConnectTracker(n) ==
    /\ n \in booting
    /\ booting' = booting \ {n}
    /\ IF "tracker" \in Kinds[n] /\ ~Open(n)
         THEN NewSession(n, 0) /\ AddTimer(n, "tracker")
         ELSE UNCHANGED <<opened, timerVars>> /\ KeepSession
    /\ UNCHANGED <<object, triggerTimes, task, netVars, restarts, setting>>

\* connect_peer() with a relay: only without a session.
ConnectByRelay(n) ==
    /\ n \in Initiators \ booting
    /\ "relay" \in Kinds[n]
    /\ NewSession(n, 0)
    /\ AddTimer(n, "relay")
    /\ UNCHANGED <<object, triggerTimes, task, netVars, rareVars>>

\* connect_peer() without a relay takes the session there is.
PeerTimer(n) ==
    /\ \/ NewSession(n, 0)
       \/ Open(n) /\ KeepSession /\ UNCHANGED opened
    /\ AddTimer(n, "peer")

ConnectPeer(n) ==
    /\ n \in Initiators \ booting
    /\ "peer" \in Kinds[n]
    /\ PeerTimer(n)
    /\ UNCHANGED <<object, triggerTimes, task, netVars, rareVars>>

-----------------------------------------------------------------------------
(* The timers that connect.  TriggerTimes is static: every session of the    *)
(* process counts on from where the last one stopped.                        *)
(*                                                                           *)
(* A callback, here and below, is one step: it runs with m_TimerMutex held,  *)
(* which new_session() (for KCP's timer) and add_timer() want as well, so    *)
(* that no other session gets on with its object, and none gets a timer.     *)

Limit(kind) == CASE kind = "peer" -> 2 * CONNECT_TIMEOUT_COUNT
                 [] kind = "ping" -> PING_TIMEOUT_COUNT
                 [] OTHER -> CONNECT_TIMEOUT_COUNT

\* ++TriggerTimes, which stops here one beyond the limit.
Count(n, kind) ==
    triggerTimes' = [triggerTimes EXCEPT ![n][kind] = IF @ > Limit(kind) THEN @ ELSE @ + 1]
TriggeredFirst(n, kind) == triggerTimes'[n][kind] = 1
TriggeredLast(n, kind) == triggerTimes'[n][kind] >= Limit(kind)

\* The end of the three that connect: to part from a session of an earlier
\* run on the first trigger, then to ping or to ask.
Try(n, kind) ==
    LET parting == IF TriggeredFirst(n, kind) THEN {Packet(n, "DISCONNECT")} ELSE {} IN
    \/ /\ Status(n) = CONNECT_COMPLETE
       /\ Transmit(parting)
       /\ EndTimer(n, kind)
    \/ /\ Status(n) # CONNECT_COMPLETE
       /\ LET type == IF Status(n) = DISCONNECT THEN "PING_REQ" ELSE "CONNECT_REQ"
          IN  Transmit(parting \cup {Packet(n, type)})
       /\ UNCHANGED timerVars

\* try_connect_tracker counts before it looks for its session, and gives up
\* before it looks at the status.
TryConnectTracker(n) ==
    /\ timers[n]["tracker"] > 0
    /\ Count(n, "tracker")
    /\ \/ /\ TriggeredLast(n, "tracker")
          /\ CloseSession(n, "tracker")
          /\ SendNothing
       \/ /\ ~TriggeredLast(n, "tracker")
          /\ Try(n, "tracker")
          /\ KeepSession
    /\ UNCHANGED <<object, opened, task, copies, rareVars>>

\* It and try_ping_peer, when the session is gone.
CountAndEnd(n, kind) ==
    /\ leftTimers[n][kind] > 0
    /\ Count(n, kind)
    /\ leftTimers' = [leftTimers EXCEPT ![n][kind] = @ - 1]
    /\ UNCHANGED <<session, object, pool, opened, timerVars, task, netVars, rareVars>>

\* try_connect_peer also gives up before it looks at the status.  (The
\* SEARCH_REQ it sends when connected starts no handler of this model.)
TryConnectPeer(n) ==
    /\ timers[n]["peer"] > 0
    /\ Count(n, "peer")
    /\ \/ /\ TriggeredLast(n, "peer")
          /\ CloseSession(n, "peer")
          /\ SendNothing
       \/ /\ ~TriggeredLast(n, "peer")
          /\ Try(n, "peer")
          /\ KeepSession
    /\ UNCHANGED <<object, opened, task, copies, rareVars>>

\* try_connect_peer_relay asks the node that told of the peer for help, if
\* that one is still connected, and checks 10 seconds later (if the timer for it
\* is added).  The relay, a third node, answers and passes the request on, or
\* refuses.
RelayAnswers(n) ==
    {{}, {[to |-> n, type |-> "HELP_RFS", from |-> 0]},
     {[to |-> n, type |-> "HELP_ACK", from |-> 0],
      [to |-> Other(n), type |-> "PING_HELP", from |-> 0]}}

TryConnectPeerRelay(n) ==
    /\ timers[n]["relay"] > 0
    /\ Count(n, "relay")
    /\ \/ /\ TriggeredLast(n, "relay")
          /\ EndTimer(n, "relay")
          /\ SendNothing
       \/ /\ TriggeredLast(n, "relay")
          /\ \/ /\ timers' = [timers EXCEPT ![n]["relay"] = @ - 1, ![n]["check"] = @ + 1]
                /\ UNCHANGED refusals
             \/ /\ refusals < setting.maxRefusals
                /\ timers' = [timers EXCEPT ![n]["relay"] = @ - 1]
                /\ refusals' = refusals + 1
          /\ \E ps \in RelayAnswers(n) : Transmit(ps)
       \/ /\ ~TriggeredLast(n, "relay")
          /\ Try(n, "relay")
    /\ KeepSession
    /\ UNCHANGED <<object, opened, task, copies, rareVars>>

CheckConnectPeerStatus(n) ==
    /\ timers[n]["check"] > 0
    /\ \/ Status(n) # CONNECT_COMPLETE /\ CloseSession(n, "check")
       \/ Status(n) = CONNECT_COMPLETE /\ EndTimer(n, "check") /\ KeepSession
    /\ UNCHANGED <<object, opened, triggerTimes, task, netVars, rareVars>>

\* try_ping_peer stops at exactly its limit, and never closes the session.
TryPingPeer(n) ==
    /\ timers[n]["ping"] > 0
    /\ Count(n, "ping")
    /\ \/ /\ \/ triggerTimes'[n]["ping"] = PING_TIMEOUT_COUNT
             \/ Status(n) # DISCONNECT
          /\ EndTimer(n, "ping")
          /\ SendNothing
       \/ /\ triggerTimes'[n]["ping"] # PING_TIMEOUT_COUNT
          /\ Status(n) = DISCONNECT
          /\ Transmit({Packet(n, "PING_REQ")})
          /\ UNCHANGED timerVars
    /\ KeepSession
    /\ UNCHANGED <<object, opened, task, copies, rareVars>>

-----------------------------------------------------------------------------
(* The timers that watch a session, every 10 seconds.                        *)

\* ++m_TimeoutCount, a uint8_t.
Timeouts(n) == (object[n][session[n].obj].timeouts + 1) % TimeoutMod

\* Given up after three periods; the third finds nothing since two of them.
HeartbeatTimeout(n, kind) ==
    /\ object' = [object EXCEPT ![n][session[n].obj] =
                     [status |-> DISCONNECT, timeouts |-> Timeouts(n)]]
    /\ CloseSession(n, kind)

CountTimeout(n) == object' = [object EXCEPT ![n][session[n].obj].timeouts = Timeouts(n)]

\* heartbeat_probe, of the node that connected.
HeartbeatProbe(n) ==
    /\ timers[n]["probe"] > 0
    /\ \/ /\ Status(n) # CONNECT_COMPLETE
          /\ EndTimer(n, "probe")
          /\ KeepSession
          /\ UNCHANGED object
          /\ SendNothing
       \/ /\ Status(n) = CONNECT_COMPLETE
          /\ Timeouts(n) = 3
          /\ HeartbeatTimeout(n, "probe")
          /\ SendNothing
       \/ /\ Status(n) = CONNECT_COMPLETE
          /\ Timeouts(n) # 3
          /\ CountTimeout(n)
          /\ Transmit(IF Timeouts(n) = 2 THEN {Packet(n, "HEARTBEAT")} ELSE {})
          /\ KeepSession
          /\ UNCHANGED timerVars
    /\ UNCHANGED <<opened, triggerTimes, task, copies, rareVars>>

\* heartbeat_examine, of the node that accepted.
HeartbeatExamine(n) ==
    /\ timers[n]["examine"] > 0
    /\ \/ /\ Status(n) # CONNECT_COMPLETE
          /\ CountTimeout(n)
          /\ EndTimer(n, "examine")
          /\ KeepSession
       \/ /\ Status(n) = CONNECT_COMPLETE
          /\ Timeouts(n) = 3
          /\ HeartbeatTimeout(n, "examine")
       \/ /\ Status(n) = CONNECT_COMPLETE
          /\ Timeouts(n) # 3
          /\ CountTimeout(n)
          /\ KeepSession
          /\ UNCHANGED timerVars
    /\ UNCHANGED <<opened, triggerTimes, task, netVars, rareVars>>

-----------------------------------------------------------------------------
(* Packets that arrive.                                                      *)

\* The reactor looks the sender's session up and leaves the rest to a worker.
\* What comes through the relay is not tied to the session of this pair.
Receive(w, p) ==
    /\ p \in net
    /\ w \in setting.busy[p.to]
    /\ task[p.to][w].pc = "idle"
    /\ task' = [task EXCEPT ![p.to][w] =
                   [pc |-> "run", type |-> p.type, from |-> p.from,
                    id |-> session[p.to].id, obj |-> 0]]
    /\ \/ net' = net \ {p} /\ UNCHANGED copies
       \/ copies < setting.maxCopies /\ copies' = copies + 1 /\ UNCHANGED net
    /\ UNCHANGED <<nodeVars, rareVars>>

Finish(n, w) == task' = [task EXCEPT ![n][w] = Idle]
Running(n, w, types) == task[n][w].pc = "run" /\ task[n][w].type \in types

\* handle_on_gateway(): no session when the packet came.
Gateway(n, w) == task[n][w].id = 0

GatewayReply(n, w) ==
    /\ Running(n, w, {"PING_REQ"}) /\ Gateway(n, w)
    /\ Transmit({Packet(n, "PING_ACK")})
    /\ Finish(n, w)
    /\ UNCHANGED <<nodeVars, copies, rareVars>>

\* handle_connect_req() says DO_CONNECT: on_accept() makes a new session, which
\* everybody can see from now on ...
Accept(n, w) ==
    /\ Running(n, w, {"CONNECT_REQ"}) /\ Gateway(n, w)
    /\ NewSession(n, task[n][w].from)
    /\ task' = [task EXCEPT ![n][w].pc = "accept", ![n][w].id = opened'[n]]
    /\ UNCHANGED <<object, triggerTimes, timerVars, netVars, rareVars>>

\* ... handle_on_accept() looks its object up, if it is still there ...
AcceptFind(n, w) ==
    LET t == task[n][w] IN
    /\ t.pc = "accept"
    /\ \/ /\ Found(n, t.id)
          /\ task' = [task EXCEPT ![n][w].pc = "set", ![n][w].obj = session[n].obj]
          /\ SendNothing
       \/ /\ ~Found(n, t.id)
          /\ Finish(n, w)
          /\ Transmit({Packet(n, "CONNECT_RFS")})
    /\ UNCHANGED <<nodeVars, copies, rareVars>>

\* What the task of w does to the object it has found, whosever that is by now,
\* and the timer it adds, which will end at once if the session is gone.
SetStatus(n, w, status, timeouts) ==
    object' = [object EXCEPT ![n][task[n][w].obj] =
                  [status |-> status, timeouts |-> timeouts]]
TimeoutsFound(n, w) == object[n][task[n][w].obj].timeouts
Watch(n, w, kind) ==
    IF Found(n, task[n][w].id) THEN AddTimer(n, kind) ELSE UNCHANGED timerVars

\* ... and connects it.  set_status() and add_timer() are one step: the timer
\* first runs 10 seconds later, and until then nobody looks for it.
AcceptSet(n, w) ==
    /\ task[n][w].pc = "set"
    /\ SetStatus(n, w, CONNECT_COMPLETE, 0)
    /\ Watch(n, w, "examine")
    /\ Transmit({[Packet(n, "CONNECT_ACK") EXCEPT !.from = task[n][w].id]})
    /\ Finish(n, w)
    /\ KeepSession
    /\ UNCHANGED <<opened, triggerTimes, copies, rareVars>>

\* If the address has got a session since, new_session() fails and on_accept()
\* refuses.
Refuse(n, w) ==
    /\ Running(n, w, {"CONNECT_REQ"}) /\ Gateway(n, w)
    /\ Open(n)
    /\ Transmit({Packet(n, "CONNECT_RFS")})
    /\ Finish(n, w)
    /\ UNCHANGED <<nodeVars, copies, rareVars>>

\* The handlers of the two ACKs call session(ERROR_SESSION_ID), an element that
\* m_SessionArr does not have.  Here it reads as null; Restart is the other way
\* this may end.
GatewayAck(n, w) ==
    /\ Running(n, w, {"PING_ACK", "CONNECT_ACK"}) /\ Gateway(n, w)
    /\ Finish(n, w)
    /\ UNCHANGED <<nodeVars, netVars, rareVars>>

GatewayIgnore(n, w) ==
    /\ Running(n, w, {"CONNECT_RFS", "DISCONNECT"} \cup KcpTypes) /\ Gateway(n, w)
    /\ Finish(n, w)
    /\ UNCHANGED <<nodeVars, netVars, rareVars>>

\* handle_on_recv(): the session found when the packet came, if still there;
\* any packet resets its time-outs.
Recv(n, w, types) == Running(n, w, types) /\ Found(n, task[n][w].id)
ResetTimeout(n) == object' = [object EXCEPT ![n][session[n].obj].timeouts = 0]

RecvGone(n, w) ==
    /\ Running(n, w, BaseTypes \cup KcpTypes)
    /\ ~Gateway(n, w)
    /\ ~Found(n, task[n][w].id)
    /\ Finish(n, w)
    /\ UNCHANGED <<nodeVars, netVars, rareVars>>

\* handle_ping_req(), handle_connect_req() whatever the status is, and KCP,
\* which acknowledges what it gets.
Answer(type) == CASE type = "PING_REQ" -> {"PING_ACK"}
                  [] type = "CONNECT_REQ" -> {"CONNECT_ACK"}
                  [] type = "HEARTBEAT" -> {"KCP_ACK"}
                  [] OTHER -> {}

RecvAnswer(n, w) ==
    /\ Recv(n, w, {"PING_REQ", "CONNECT_REQ"} \cup KcpTypes)
    /\ ResetTimeout(n)
    /\ Transmit({Packet(n, t) : t \in Answer(task[n][w].type)})
    /\ Finish(n, w)
    /\ KeepSession
    /\ UNCHANGED <<opened, triggerTimes, timerVars, copies, rareVars>>

\* handle_ping_ack() and handle_connect_ack() test the status of the session ...
RecvPingAck(n, w) ==
    /\ Recv(n, w, {"PING_ACK"})
    /\ ResetTimeout(n)
    /\ task' = [task EXCEPT ![n][w] =
                   IF Status(n) # DISCONNECT THEN Idle
                   ELSE [@ EXCEPT !.pc = "ping", !.obj = session[n].obj]]
    /\ KeepSession
    /\ UNCHANGED <<opened, triggerTimes, timerVars, netVars, rareVars>>

RecvConnectAck(n, w) ==
    /\ Recv(n, w, {"CONNECT_ACK"})
    /\ ResetTimeout(n)
    /\ task' = [task EXCEPT ![n][w] =
                   IF Status(n) = CONNECT_COMPLETE THEN Idle
                   ELSE [@ EXCEPT !.pc = "complete", !.obj = session[n].obj]]
    /\ KeepSession
    /\ UNCHANGED <<opened, triggerTimes, timerVars, netVars, rareVars>>

\* Slip: a PING_ACK counts as a CONNECT_ACK.
SlipPingConnects(n, w) ==
    /\ task[n][w].pc = "ping"
    /\ SetStatus(n, w, CONNECT_COMPLETE, TimeoutsFound(n, w))
    /\ Finish(n, w)
    /\ KeepSession
    /\ UNCHANGED <<opened, triggerTimes, timerVars, netVars, rareVars>>

\* ... and set it later, in the object they have found.
CompletePing(n, w) ==
    /\ task[n][w].pc = "ping"
    /\ SetStatus(n, w, PING_COMPLETE, TimeoutsFound(n, w))
    /\ Finish(n, w)
    /\ KeepSession
    /\ UNCHANGED <<opened, triggerTimes, timerVars, netVars, rareVars>>

\* Who sent the CONNECT_ACK is the peer of the session it is about.
Meet(n, w) ==
    session' = [session EXCEPT ![n].peer =
                   IF Found(n, task[n][w].id) THEN task[n][w].from ELSE @]

\* Slip: the timer is not created.
SlipCompleteUnprobed(n, w) ==
    /\ task[n][w].pc = "complete"
    /\ SetStatus(n, w, CONNECT_COMPLETE, TimeoutsFound(n, w))
    /\ Meet(n, w)
    /\ Finish(n, w)
    /\ UNCHANGED <<pool, opened, triggerTimes, timerVars, leftTimers, netVars, rareVars>>

\* handle_connect_ack() then starts the probe.
CompleteConnect(n, w) ==
    /\ task[n][w].pc = "complete"
    /\ SetStatus(n, w, CONNECT_COMPLETE, TimeoutsFound(n, w))
    /\ Watch(n, w, "probe")
    /\ Meet(n, w)
    /\ Finish(n, w)
    /\ UNCHANGED <<pool, opened, triggerTimes, leftTimers, netVars, rareVars>>

\* handle_connect_rfs(), handle_disconnect().
RecvDisconnect(n, w) ==
    /\ Recv(n, w, {"CONNECT_RFS", "DISCONNECT"})
    /\ ResetTimeout(n)
    /\ CloseSession(n, "none")
    /\ Finish(n, w)
    /\ UNCHANGED <<opened, triggerTimes, netVars, rareVars>>

\* What comes from the relay: handle_ping_help(), handle_connect_help_ack() and
\* handle_connect_help_rfs().
PingHelp(n, w) ==
    /\ Running(n, w, {"PING_HELP"})
    /\ IF Open(n)
         THEN UNCHANGED <<opened, timerVars>> /\ KeepSession
         ELSE NewSession(n, 0) /\ AddTimer(n, "ping")
    /\ Finish(n, w)
    /\ UNCHANGED <<object, triggerTimes, netVars, rareVars>>

HelpAck(n, w) ==
    /\ Running(n, w, {"HELP_ACK"})
    /\ PeerTimer(n)
    /\ Finish(n, w)
    /\ UNCHANGED <<object, triggerTimes, netVars, rareVars>>

HelpRfs(n, w) ==
    /\ Running(n, w, {"HELP_RFS"})
    /\ \/ Open(n) /\ CloseSession(n, "none")
       \/ ~Open(n) /\ UNCHANGED timerVars /\ KeepSession
    /\ Finish(n, w)
    /\ UNCHANGED <<object, opened, triggerTimes, netVars, rareVars>>

-----------------------------------------------------------------------------
\* The process ends, by itself or because it is ended, and is started again.
\* (The ids of its sessions go on, so that they stay different.)
Restart(n) ==
    /\ n \in Initiators
    /\ restarts < setting.maxRestarts
    /\ restarts' = restarts + 1
    /\ booting' = booting \cup {n}
    /\ session' = [session EXCEPT ![n] = NoSession]
    /\ object' = [object EXCEPT ![n] = [o \in 1..PoolSize |-> FreshObject]]
    /\ pool' = [pool EXCEPT ![n] = [i \in 1..PoolSize |-> i]]
    /\ triggerTimes' = [triggerTimes EXCEPT ![n] = [k \in ConnectKinds |-> 0]]
    /\ timers' = [timers EXCEPT ![n] = NoTimers]
    /\ leftTimers' = [leftTimers EXCEPT ![n] = [k \in EagerKinds |-> 0]]
    /\ task' = [task EXCEPT ![n] = [w \in Workers |-> Idle]]
    /\ UNCHANGED <<opened, refusals, netVars, setting>>

Application(n) == ConnectTracker(n) \/ ConnectPeer(n) \/ ConnectByRelay(n)

Timer(n) ==
    \/ TryConnectTracker(n) \/ TryConnectPeer(n) \/ TryConnectPeerRelay(n)
    \/ CheckConnectPeerStatus(n) \/ TryPingPeer(n)
    \/ \E k \in EagerKinds : CountAndEnd(n, k)
    \/ HeartbeatProbe(n) \/ HeartbeatExamine(n)

Handle(n, w) ==
    \/ GatewayReply(n, w) \/ Refuse(n, w) \/ GatewayAck(n, w) \/ GatewayIgnore(n, w)
    \/ Accept(n, w) \/ AcceptFind(n, w) \/ AcceptSet(n, w)
    \/ RecvGone(n, w) \/ RecvAnswer(n, w) \/ RecvPingAck(n, w) \/ CompletePing(n, w)
    \/ RecvConnectAck(n, w) \/ CompleteConnect(n, w) \/ RecvDisconnect(n, w)
    \/ PingHelp(n, w) \/ HelpAck(n, w) \/ HelpRfs(n, w)

Next ==
    \E n \in Nodes :
        \/ Application(n)
        \/ Timer(n)
        \/ \E w \in Workers : Handle(n, w)
        \/ \E w \in Workers, p \in {q \in net : q.to = n} : Receive(w, p)
        \/ Restart(n)

Spec == Init /\ [][Next]_vars

-----------------------------------------------------------------------------
\* The variables have their types; an object is in the pool or has the session,
\* and is in one place of the pool only.
TypeOK ==
    /\ session \in [Nodes -> [id : 0..setting.maxSessions, obj : 0..PoolSize,
                              peer : 0..setting.maxSessions]]
    /\ object \in [Nodes -> [1..PoolSize ->
                     [status : {DISCONNECT, PING_COMPLETE, CONNECT_COMPLETE},
                      timeouts : 0..(TimeoutMod - 1)]]]
    /\ \A n \in Nodes :
           /\ pool[n] \in Seq(1..PoolSize)
           /\ {pool[n][i] : i \in DOMAIN pool[n]} =
                  1..PoolSize \ (IF Open(n) THEN {session[n].obj} ELSE {})
           /\ \A i, j \in DOMAIN pool[n] : pool[n][i] = pool[n][j] => i = j
           /\ \A k \in ConnectKinds : triggerTimes[n][k] \in 0..(Limit(k) + 1)
    /\ timers \in [Nodes -> [TimerKinds -> 0..MaxTimers]]
    /\ leftTimers \in [Nodes -> [EagerKinds -> 0..setting.maxSessions]]
    /\ net \subseteq [to : Nodes, type : BaseTypes \cup KcpTypes \cup RelayTypes,
                      from : 0..setting.maxSessions]

Runs(n, kinds) == \E k \in kinds : timers[n][k] > 0

\* The session of n, if any, has what keeps it from staying as it is for ever: a
\* heartbeat timer when it is connected, a timer that connects when it is not, or
\* a task that is about to accept it.
Accepting(n) == \E w \in Workers : /\ task[n][w].pc \in {"accept", "set"}
                                   /\ task[n][w].id = session[n].id
Attended(n) ==
    \/ ~Open(n)
    \/ Connected(n) /\ Runs(n, {"probe", "examine"})
    \/ ~Connected(n) /\ Runs(n, ConnectKinds \cup {"check"})
    \/ Accepting(n)

\* The task of w sets the status of the object of n's session in this step.
Sets(n, w) ==
    /\ task[n][w].pc \in {"ping", "complete", "set"}
    /\ task[n][w].obj = session[n].obj
    /\ task'[n][w] = Idle

\* It is for a session that is gone: this one has got its object since.
SetForAnother(n) == \E w \in Workers : Sets(n, w) /\ task[n][w].id # session[n].id

\* It has seen STATUS_DISCONNECT, but the session has been connected since.
SetBack(n) == Connected(n) /\ \E w \in Workers : Sets(n, w) /\ task[n][w].pc = "ping"

\* A new session gets an object whose last session was connected to its end.
OpenedConnected(n) ==
    /\ session'[n].id # session[n].id
    /\ object[n][session'[n].obj].status = CONNECT_COMPLETE

\* Those who connect through a relay that is gone, and those who ping to help
\* another node connect, give up without closing the session.
LeftOpen(n) == ~Connected(n) /\ \E k \in {"relay", "ping"} : timers'[n][k] < timers[n][k]

\* add_timer() answers false.
TimerRefused == refusals' = refusals + 1

\* Whatever packets are lost or come late, and however workers and timers take
\* turns, a session is left alone, open and with nobody to watch or to connect
\* it, in these five situations only.
LeftAloneOnlyBy(n) ==
    Attended(n) => \/ Attended(n)'
                   \/ SetForAnother(n) \/ SetBack(n) \/ OpenedConnected(n) \/ LeftOpen(n)
                   \/ TimerRefused

SessionsAttended == [][\A n \in Nodes : LeftAloneOnlyBy(n)]_vars

\* The other node has had a session for a session that is connected.
HasPeer(n) == Connected(n) => session[n].peer \in 1..opened[Other(n)]

\* A session comes to be held for connected without any answer of the other node
\* in two situations only: its object was connected before, or a task that is
\* late sets the status for another session of that object.
ConnectsWithPeer ==
    [][\A n \in Nodes : HasPeer(n) => HasPeer(n)' \/ SetForAnother(n) \/ OpenedConnected(n)]_vars

-----------------------------------------------------------------------------
(* What comments say and the code does not do.                               *)

\* "when the ACK comes for the first time, create the timer" (handler_base.cpp).
OneProbe == \A n \in Nodes : timers[n]["probe"] <= 1

\* "connected: end the timer" (session_manager.cpp, try_connect_peer).
ConnectedHasPeer == \A n \in Nodes : HasPeer(n)

=============================================================================
