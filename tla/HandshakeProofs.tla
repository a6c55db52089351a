--------------------------- MODULE HandshakeProofs ---------------------------
(***************************************************************************)
(* Handshake for all settings, any number of workers and of objects:       *)
(* everything stays within its bounds, a session is left without a timer   *)
(* to watch or to connect it in the named situations only, and in two      *)
(* situations only it is held for connected though the other node has had  *)
(* no session for it.                                                      *)
(*                                                                         *)
(* The invariant says where the objects are, whose session a task is       *)
(* about, and which sessions of the other node packets and tasks tell of;  *)
(* it says nothing of the status of an object, which any task may set late.*)
(* Every step of a node but Restart is of one form, Goes, that keeps it.   *)
(***************************************************************************)
EXTENDS Handshake, SequenceTheorems, FiniteSetTheorems, TLAPS

Statuses == {DISCONNECT, PING_COMPLETE, CONNECT_COMPLETE}
Objects == [status : Statuses, timeouts : 0..(TimeoutMod - 1)]
Types == BaseTypes \cup KcpTypes \cup RelayTypes
AskTypes == {"CONNECT_REQ", "CONNECT_ACK"}
SettingTypes == {"ping", "complete", "set"}

\* The numbers that sessions can have, and what names them.
Numbers == 0..setting.maxSessions
Sessions == [id : Numbers, obj : 0..PoolSize, peer : Numbers]
Packets == [to : Nodes, type : Types, from : Numbers]
Tasks == [pc : {"idle", "run", "accept"} \cup SettingTypes, type : Types \cup {"none"},
          from : Numbers, id : Numbers, obj : 0..PoolSize]

Domains ==
    /\ setting \in Settings
    /\ session \in [Nodes -> Sessions]
    /\ object \in [Nodes -> [1..PoolSize -> Objects]]
    /\ pool \in [Nodes -> Seq(1..PoolSize)]
    /\ opened \in [Nodes -> Numbers]
    /\ triggerTimes \in [Nodes -> [ConnectKinds -> Nat]]
    /\ timers \in [Nodes -> [TimerKinds -> 0..MaxTimers]]
    /\ leftTimers \in [Nodes -> [EagerKinds -> Nat]]
    /\ task \in [Nodes -> [Workers -> Tasks]]

\* A session of the other node that there has been.
Had(n, id) == id \in 1..opened[Other(n)]

\* What asks for a session, or grants one, tells of a session of its sender.
SoundPacket(p) == p \in Packets /\ (p.type \in AskTypes => Had(p.to, p.from))

\* The session of a node is one of those it has opened; without one no timer runs.
SessionInv(n) ==
    /\ session[n].id <= opened[n]
    /\ Open(n) => session[n].obj \in 1..PoolSize
    /\ ~Open(n) => timers[n] = NoTimers

\* An object is in the pool or that of the session, and in one place only.
PoolInv(n) ==
    /\ {pool[n][i] : i \in DOMAIN pool[n]} =
           1..PoolSize \ (IF Open(n) THEN {session[n].obj} ELSE {})
    /\ \A i, j \in DOMAIN pool[n] : pool[n][i] = pool[n][j] => i = j

\* TriggerTimes stops one beyond the limit.  A session starts one timer of the
\* kinds that count on when it is gone, and one that asks a relay.
CountsInv(n) ==
    /\ \A k \in ConnectKinds : triggerTimes[n][k] \in 0..(Limit(k) + 1)
    /\ \A k \in EagerKinds : leftTimers[n][k] + timers[n][k] <= opened[n]
    /\ timers[n]["relay"] + timers[n]["check"] <= 1

\* A task is about a session of its node.  What it has found is the object of that
\* session, as long as that is there; the session that it accepts, and the one that
\* it connects, have a peer.
SoundTask(n, t) ==
    /\ t.id <= opened[n]
    /\ t.type \in AskTypes => Had(n, t.from)
    /\ t.pc = "complete" => t.type = "CONNECT_ACK"
    /\ t.pc \in {"accept", "set"} => t.id # 0
    /\ t.pc \in SettingTypes => t.obj \in 1..PoolSize
    /\ t.pc \in SettingTypes /\ Found(n, t.id) => t.obj = session[n].obj
    /\ t.pc \in {"accept", "set"} /\ Found(n, t.id) => Had(n, session[n].peer)

TaskInv(n) == \A w \in Workers : SoundTask(n, task[n][w])

NodeInv(n) == SessionInv(n) /\ PoolInv(n) /\ CountsInv(n) /\ TaskInv(n)

IInv ==
    /\ Domains
    /\ \A p \in net : SoundPacket(p)
    /\ \A n \in Nodes : NodeInv(n)

-----------------------------------------------------------------------------
(* The form of the steps.                                                    *)

\* A timer more or fewer, ...
TimersGo(n) ==
    \/ timers' = timers
    \/ \E k \in TimerKinds :
           timers[n][k] > 0 /\ timers' = [timers EXCEPT ![n][k] = @ - 1]
    \/ \E k \in {"peer", "probe", "examine"} :
           /\ Open(n) /\ timers[n][k] < MaxTimers
           /\ timers' = [timers EXCEPT ![n][k] = @ + 1]
    \/ /\ timers[n]["relay"] > 0
       /\ timers' = [timers EXCEPT ![n]["relay"] = @ - 1, ![n]["check"] = @ + 1]

LeftGo(n) ==
    \/ leftTimers' = leftTimers
    \/ \E k \in EagerKinds :
           leftTimers[n][k] > 0 /\ leftTimers' = [leftTimers EXCEPT ![n][k] = @ - 1]

\* ... of the session that there is, which may get to know its peer, ...
Stays(n) ==
    /\ UNCHANGED <<pool, opened>>
    /\ \/ session' = session
       \/ \E id \in Numbers : Had(n, id) /\ session' = [session EXCEPT ![n].peer = id]
    /\ TimersGo(n) /\ LeftGo(n)

\* ... or of a new one, ...
Starts(n) ==
    /\ \E from \in Numbers : NewSession(n, from)
    /\ \/ timers' = timers
       \/ \E k \in ConnectKinds : timers' = [timers EXCEPT ![n][k] = @ + 1]

\* ... or the session ends, ...
Ends(n) ==
    /\ Open(n) /\ UNCHANGED opened
    /\ \E kind \in TimerKinds \cup {"none"} :
           CloseSession(n, kind) /\ (kind # "none" => timers[n][kind] > 0)

\* ... the objects keep to their places, a trigger more, a task that goes on, and
\* packets that are sound.
ObjectsGo(n) ==
    /\ object' \in [Nodes -> [1..PoolSize -> Objects]]
    /\ \A m \in Nodes \ {n} : object'[m] = object[m]
TriggersGo(n) == triggerTimes' = triggerTimes \/ \E k \in ConnectKinds : Count(n, k)
TaskGoes(n) ==
    \/ task' = task
    \/ \E w \in Workers, t \in Tasks :
           task' = [task EXCEPT ![n][w] = t] /\ SoundTask(n, t)'
PacketsGo == \A p \in net' : p \in net \/ SoundPacket(p)'

Goes(n) ==
    /\ Stays(n) \/ Starts(n) \/ Ends(n)
    /\ ObjectsGo(n) /\ TriggersGo(n) /\ TaskGoes(n) /\ PacketsGo
    /\ UNCHANGED setting

-----------------------------------------------------------------------------
(* Facts about the constants.                                                *)

LEMMA Bounds ==
    ASSUME Domains
    PROVE  /\ PoolSize \in Nat \ {0} /\ TimeoutMod \in Nat \ {0} /\ MaxTimers \in Nat \ {0}
           /\ setting.maxSessions \in Nat
           /\ \A k \in ConnectKinds : Limit(k) \in Nat
           /\ Numbers \subseteq Nat /\ 0 \in Numbers
<1>1. /\ setting.maxSessions \in Nat /\ CONNECT_TIMEOUT_COUNT \in Nat
      /\ MaxTimers \in Nat \ {0}
  BY HandshakeAssumption DEF Domains, CONNECT_TIMEOUT_COUNT, MaxTimers
<1>2. PING_TIMEOUT_COUNT \in Nat BY HandshakeAssumption
<1>3. \A k \in ConnectKinds : Limit(k) \in Nat BY <1>1, <1>2 DEF Limit
<1> QED BY <1>1, <1>3, HandshakeAssumption DEF Numbers

LEMMA KindsOfTimers ==
    /\ TimerKinds = {"tracker", "peer", "relay", "ping", "check", "probe", "examine"}
    /\ ConnectKinds = {"tracker", "peer", "relay", "ping"}
    /\ EagerKinds = {"tracker", "ping"}
    /\ "none" \notin TimerKinds
  BY DEF TimerKinds, ConnectKinds, EagerKinds

\* There are two nodes.
LEMMA OtherOf ==
    ASSUME NEW n \in Nodes
    PROVE  /\ Other(n) \in Nodes /\ Other(n) # n /\ Other(Other(n)) = n
           /\ \A m \in Nodes \ {n} : m = Other(n) /\ Other(m) = n
<1>1. IsFiniteSet(Nodes) /\ Cardinality(Nodes) = 2 BY HandshakeAssumption
<1>2. IsFiniteSet(Nodes \ {n}) /\ Cardinality(Nodes \ {n}) = 1 BY <1>1, FS_RemoveElement
<1>3. PICK o : Nodes \ {n} = {o} BY <1>2, FS_Singleton
<1>4. o \in Nodes /\ o # n /\ Nodes = {n, o} BY <1>3
<1>5. Other(n) = o /\ Other(o) = n BY <1>4 DEF Other
<1> QED BY <1>4, <1>5

\* The sequence without its last element, and with one more in front.
LEMMA PoolWithoutLast ==
    ASSUME NEW S, NEW q \in Seq(S), q # <<>>,
           \A i, j \in DOMAIN q : q[i] = q[j] => i = j,
           NEW r, r = SubSeq(q, 1, Len(q) - 1)
    PROVE  /\ {r[i] : i \in DOMAIN r} = {q[i] : i \in DOMAIN q} \ {q[Len(q)]}
           /\ \A i, j \in DOMAIN r : r[i] = r[j] => i = j
<1> DEFINE n == Len(q)
<1>1. n \in Nat \ {0} /\ DOMAIN q = 1..n OBVIOUS
<1>2. DOMAIN r = 1..n - 1 /\ \A i \in 1..n - 1 : r[i] = q[i] BY <1>1
<1> HIDE DEF n
<1>3. \A i \in 1..n - 1 : i \in 1..n /\ i # n BY <1>1
<1>4. \A i \in 1..n : i = n \/ i \in 1..n - 1 BY <1>1
<1>5. n \in 1..n BY <1>1
<1>6. ASSUME NEW i \in DOMAIN r PROVE r[i] \in {q[j] : j \in DOMAIN q} \ {q[n]}
  <2>1. i \in DOMAIN q /\ i # n /\ r[i] = q[i] BY <1>1, <1>2, <1>3
  <2> QED BY <1>1, <1>5, <2>1
<1>7. ASSUME NEW i \in DOMAIN q, q[i] # q[n] PROVE q[i] \in {r[j] : j \in DOMAIN r}
  <2>1. i \in DOMAIN r /\ r[i] = q[i] BY <1>1, <1>2, <1>4, <1>7
  <2> QED BY <2>1
<1>8. \A i, j \in DOMAIN r : r[i] = r[j] => i = j BY <1>1, <1>2, <1>3
<1>9. {r[i] : i \in DOMAIN r} = {q[i] : i \in DOMAIN q} \ {q[n]} BY <1>6, <1>7
<1> QED BY <1>8, <1>9 DEF n

LEMMA PoolWithFirst ==
    ASSUME NEW S, NEW q \in Seq(S), NEW e \in S, e \notin {q[i] : i \in DOMAIN q},
           \A i, j \in DOMAIN q : q[i] = q[j] => i = j,
           NEW r, r = <<e>> \o q
    PROVE  /\ {r[i] : i \in DOMAIN r} = {q[i] : i \in DOMAIN q} \cup {e}
           /\ \A i, j \in DOMAIN r : r[i] = r[j] => i = j
<1>1. Len(q) \in Nat /\ DOMAIN q = 1..Len(q) OBVIOUS
<1>2. /\ DOMAIN r = 1..Len(q) + 1 /\ r[1] = e
      /\ \A i \in 2..Len(q) + 1 : r[i] = q[i - 1]
  <2>1. r \in Seq(S) /\ Len(r) = Len(q) + 1 BY <1>1
  <2> QED BY <1>1, <2>1
<1>3. \A i \in 1..Len(q) + 1 : i = 1 \/ (i \in 2..Len(q) + 1 /\ i - 1 \in 1..Len(q)) BY <1>1
<1>4. \A i \in 1..Len(q) : i + 1 \in 2..Len(q) + 1 /\ i + 1 \in 1..Len(q) + 1 /\ i + 1 - 1 = i
  BY <1>1
<1>5. 1 \in 1..Len(q) + 1 BY <1>1
<1>6. \A i \in 1..Len(q) : q[i] = r[i + 1] BY <1>2, <1>4
<1>7. {q[i] : i \in DOMAIN q} \cup {e} \subseteq {r[i] : i \in DOMAIN r}
  <2>1. ASSUME NEW i \in DOMAIN q PROVE q[i] \in {r[j] : j \in DOMAIN r}
    <3>1. i + 1 \in DOMAIN r /\ q[i] = r[i + 1] BY <1>1, <1>2, <1>4, <1>6
    <3> QED BY <3>1
  <2>2. 1 \in DOMAIN r /\ e = r[1] BY <1>2, <1>5
  <2> QED BY <2>1, <2>2
<1>8. {r[i] : i \in DOMAIN r} \subseteq {q[i] : i \in DOMAIN q} \cup {e}
  BY <1>1, <1>2, <1>3
<1>9. ASSUME NEW i \in DOMAIN r, NEW j \in DOMAIN r, r[i] = r[j] PROVE i = j
  <2>1. i \in 1..Len(q) + 1 /\ j \in 1..Len(q) + 1 BY <1>2
  <2>2. CASE i = 1 /\ j = 1 BY <2>2
  <2>3. CASE i # 1 /\ j # 1
    <3>1. q[i - 1] = q[j - 1] /\ i - 1 \in DOMAIN q /\ j - 1 \in DOMAIN q
      BY <1>1, <1>2, <1>3, <1>9, <2>1, <2>3
    <3>2. i - 1 = j - 1 BY <3>1
    <3> QED BY <2>1, <3>2
  <2>4. CASE (i = 1) # (j = 1) BY <1>1, <1>2, <1>3, <1>9, <2>1, <2>4
  <2> QED BY <2>2, <2>3, <2>4
<1> QED BY <1>7, <1>8, <1>9

-----------------------------------------------------------------------------
(* What a step of that form does, part by part.                              *)

\* Of the other node only the number of sessions counts, and that only grows.
LEMMA DomainsStep ==
    ASSUME IInv, NEW n \in Nodes, Goes(n)
    PROVE  /\ session' \in [Nodes -> Sessions] /\ pool' \in [Nodes -> Seq(1..PoolSize)]
           /\ opened' \in [Nodes -> Numbers]
           /\ \A m \in Nodes : opened[m] <= opened'[m]
           /\ \A m \in Nodes \ {n} :
                  session'[m] = session[m] /\ pool'[m] = pool[m] /\ opened'[m] = opened[m]
<1>1. /\ session \in [Nodes -> Sessions] /\ pool \in [Nodes -> Seq(1..PoolSize)]
      /\ opened \in [Nodes -> Numbers] /\ Numbers \subseteq Nat /\ 0 \in Numbers
      /\ setting.maxSessions \in Nat /\ PoolSize \in Nat \ {0}
  BY Bounds DEF IInv, Domains
<1>0. \A m \in Nodes : opened[m] \in Nat BY <1>1
<1>2. CASE Stays(n)
  <2>1. /\ pool' = pool /\ opened' = opened
        /\ \A m \in Nodes : opened[m] <= opened'[m]
    BY <1>0, <1>2 DEF Stays
  <2>2. CASE session' = session BY <1>1, <2>1, <2>2
  <2>3. ASSUME NEW id \in Numbers, session' = [session EXCEPT ![n].peer = id]
        PROVE  session' \in [Nodes -> Sessions]
               /\ \A m \in Nodes \ {n} : session'[m] = session[m]
    <3>1. [session[n] EXCEPT !.peer = id] \in Sessions BY <1>1, <2>3 DEF Sessions
    <3> QED BY <1>1, <2>3, <3>1
  <2> QED BY <1>1, <1>2, <2>1, <2>2, <2>3 DEF Stays
<1>3. CASE Starts(n)
  <2>1. PICK from \in Numbers : NewSession(n, from) BY <1>3 DEF Starts
  <2> DEFINE q == pool[n]
             S == 1..PoolSize
  <2>2. q \in Seq(S) /\ q # <<>>
    <3>1. {pool[n][i] : i \in DOMAIN pool[n]} = S
      BY <2>1 DEF IInv, NodeInv, PoolInv, NewSession
    <3>2. q \in Seq(S) /\ 1 \in S BY <1>1
    <3> HIDE DEF q
    <3>3. DOMAIN q # {} BY <3>1, <3>2 DEF q
    <3> QED BY <3>2, <3>3
  <2> HIDE DEF q, S
  <2>3. q[Len(q)] \in S /\ SubSeq(q, 1, Len(q) - 1) \in Seq(S)
    <3>1. Len(q) \in Nat \ {0} BY <2>2
    <3>2. 1 \in 1..Len(q) + 1 /\ Len(q) - 1 \in 1 - 1..Len(q) BY <3>1
    <3>3. SubSeq(q, 1, Len(q) - 1) \in Seq(S) BY <2>2, <3>2, SubSeqProperties
    <3> QED BY <2>2, <3>1, <3>3
  <2>4. opened[n] + 1 \in Numbers BY <1>1, <2>1 DEF NewSession, Numbers
  <2> DEFINE new == [id |-> opened[n] + 1, obj |-> q[Len(q)], peer |-> from]
  <2>5. new \in Sessions BY <1>1, <2>3, <2>4 DEF Sessions, S
  <2>6. /\ session' = [session EXCEPT ![n] = new]
        /\ pool' = [pool EXCEPT ![n] = SubSeq(q, 1, Len(q) - 1)]
        /\ opened' = [opened EXCEPT ![n] = opened[n] + 1]
    BY <1>1, <2>1 DEF NewSession, q
  <2> HIDE DEF new
  <2>7. \A m \in Nodes : opened[m] <= opened'[m] BY <1>0, <1>1, <2>6
  <2> QED BY <1>1, <2>3, <2>4, <2>5, <2>6, <2>7 DEF S
<1>4. CASE Ends(n)
  <2>1. PICK kind : CloseSession(n, kind) BY <1>4 DEF Ends
  <2>2. session[n].obj \in 1..PoolSize BY <1>4 DEF Ends, IInv, NodeInv, SessionInv
  <2>3. <<session[n].obj>> \o pool[n] \in Seq(1..PoolSize) BY <1>1, <2>2
  <2>4. NoSession \in Sessions BY <1>1 DEF NoSession, Sessions
  <2>5. opened' = opened BY <1>4 DEF Ends
  <2>6. /\ session' = [session EXCEPT ![n] = NoSession]
        /\ pool' = [pool EXCEPT ![n] = <<session[n].obj>> \o pool[n]]
    BY <1>1, <2>1 DEF CloseSession
  <2>7. \A m \in Nodes : opened[m] <= opened'[m] BY <1>0, <2>5
  <2> QED BY <1>1, <2>3, <2>4, <2>5, <2>6, <2>7
<1> QED BY <1>2, <1>3, <1>4 DEF Goes

\* An object leaves the pool for a session and comes back from it.
LEMMA PoolStep ==
    ASSUME IInv, NEW n \in Nodes, Stays(n) \/ Starts(n) \/ Ends(n)
    PROVE  PoolInv(n)'
<1>1. /\ pool \in [Nodes -> Seq(1..PoolSize)] /\ session \in [Nodes -> Sessions]
      /\ opened[n] \in Nat /\ PoolSize \in Nat \ {0} /\ PoolInv(n) /\ SessionInv(n)
  BY Bounds DEF IInv, Domains, NodeInv
<1>2. CASE Stays(n) BY <1>1, <1>2 DEF Stays, PoolInv, Open, Sessions
<1>3. CASE Starts(n)
  <2>1. PICK from \in Numbers : NewSession(n, from) BY <1>3 DEF Starts
  <2>2. /\ ~Open(n) /\ pool'[n] = SubSeq(pool[n], 1, Len(pool[n]) - 1)
        /\ session'[n].obj = pool[n][Len(pool[n])] /\ Open(n)'
    BY <1>1, <2>1 DEF NewSession, Open
  <2>3. {pool[n][i] : i \in DOMAIN pool[n]} = 1..PoolSize BY <1>1, <2>2 DEF PoolInv
  <2>4. pool[n] # <<>>
    <3>1. 1 \in 1..PoolSize BY <1>1
    <3>2. DOMAIN pool[n] # {} BY <2>3, <3>1
    <3> QED BY <1>1, <3>2
  <2> DEFINE q == pool[n]
             S == 1..PoolSize
  <2>5. q \in Seq(S) /\ q # <<>> /\ \A i, j \in DOMAIN q : q[i] = q[j] => i = j
    BY <1>1, <2>4 DEF PoolInv
  <2>6. pool'[n] = SubSeq(q, 1, Len(q) - 1) BY <2>2
  <2> HIDE DEF q, S
  <2>7. /\ {pool'[n][i] : i \in DOMAIN pool'[n]} = {q[i] : i \in DOMAIN q} \ {q[Len(q)]}
        /\ \A i, j \in DOMAIN pool'[n] : pool'[n][i] = pool'[n][j] => i = j
    BY <2>5, <2>6, PoolWithoutLast
  <2> QED BY <2>2, <2>3, <2>7 DEF PoolInv, q
<1>4. CASE Ends(n)
  <2>1. /\ Open(n) /\ pool'[n] = <<session[n].obj>> \o pool[n] /\ ~Open(n)'
    BY <1>1, <1>4 DEF Ends, CloseSession, Open, NoSession
  <2> DEFINE e == session[n].obj
             q == pool[n]
             S == 1..PoolSize
  <2>2. {q[i] : i \in DOMAIN q} = S \ {e} /\ e \in S /\ q \in Seq(S)
    BY <1>1, <2>1 DEF PoolInv, SessionInv
  <2>3. \A i, j \in DOMAIN q : q[i] = q[j] => i = j BY <1>1 DEF PoolInv
  <2>4. pool'[n] = <<e>> \o q BY <2>1
  <2> HIDE DEF e, q, S
  <2>5. e \notin {q[i] : i \in DOMAIN q} BY <2>2
  <2>6. /\ {pool'[n][i] : i \in DOMAIN pool'[n]} = {q[i] : i \in DOMAIN q} \cup {e}
        /\ \A i, j \in DOMAIN pool'[n] : pool'[n][i] = pool'[n][j] => i = j
    BY <2>2, <2>3, <2>4, <2>5, PoolWithFirst
  <2>7. {pool'[n][i] : i \in DOMAIN pool'[n]} = S BY <2>2, <2>6
  <2> QED BY <2>1, <2>6, <2>7 DEF PoolInv, S
<1> QED BY <1>2, <1>3, <1>4

\* One trigger more, up to the limit.
LEMMA TriggersStep ==
    ASSUME IInv, NEW n \in Nodes, Goes(n)
    PROVE  /\ triggerTimes' \in [Nodes -> [ConnectKinds -> Nat]]
           /\ \A m \in Nodes \ {n} : triggerTimes'[m] = triggerTimes[m]
           /\ \A k \in ConnectKinds : Limit(k)' = Limit(k)
           /\ \A k \in ConnectKinds : triggerTimes'[n][k] \in 0..(Limit(k) + 1)
<1>1. /\ triggerTimes \in [Nodes -> [ConnectKinds -> Nat]]
      /\ \A k \in ConnectKinds : Limit(k) \in Nat /\ triggerTimes[n][k] \in 0..(Limit(k) + 1)
  BY Bounds DEF IInv, Domains, NodeInv, CountsInv
<1>2. \A k \in ConnectKinds : Limit(k)' = Limit(k) BY DEF Goes, Limit, CONNECT_TIMEOUT_COUNT
<1>3. CASE triggerTimes' = triggerTimes BY <1>1, <1>2, <1>3
<1>4. ASSUME NEW k \in ConnectKinds, Count(n, k)
      PROVE  /\ triggerTimes' \in [Nodes -> [ConnectKinds -> Nat]]
             /\ \A m \in Nodes \ {n} : triggerTimes'[m] = triggerTimes[m]
             /\ \A j \in ConnectKinds : triggerTimes'[n][j] \in 0..(Limit(j) + 1)
  <2> DEFINE times == IF triggerTimes[n][k] > Limit(k) THEN triggerTimes[n][k]
                      ELSE triggerTimes[n][k] + 1
  <2>1. triggerTimes' = [triggerTimes EXCEPT ![n] = [triggerTimes[n] EXCEPT ![k] = times]]
    BY <1>4 DEF Count
  <2>2. times \in 0..(Limit(k) + 1) /\ times \in Nat BY <1>1
  <2> HIDE DEF times
  <2> QED BY <1>1, <2>1, <2>2
<1> QED BY <1>1, <1>2, <1>3, <1>4 DEF Goes, TriggersGo

\* How many timers a session has of a kind, whatever it does.
LEMMA CountsStep ==
    ASSUME IInv, NEW n \in Nodes, Goes(n)
    PROVE  /\ timers' \in [Nodes -> [TimerKinds -> 0..MaxTimers]]
           /\ leftTimers' \in [Nodes -> [EagerKinds -> Nat]]
           /\ \A m \in Nodes \ {n} : timers'[m] = timers[m] /\ leftTimers'[m] = leftTimers[m]
           /\ \A k \in EagerKinds : leftTimers'[n][k] + timers'[n][k] <= opened'[n]
           /\ timers'[n]["relay"] + timers'[n]["check"] <= 1
           /\ ~Open(n)' => timers'[n] = NoTimers
<1> DEFINE T == 0..MaxTimers
           ts == timers[n]
           left == leftTimers[n]
           Good(u, v, max) == /\ u \in [TimerKinds -> T] /\ v \in [EagerKinds -> Nat]
                              /\ \A k \in EagerKinds : v[k] + u[k] <= max
                              /\ u["relay"] + u["check"] <= 1
<1>1. /\ timers \in [Nodes -> [TimerKinds -> T]] /\ leftTimers \in [Nodes -> [EagerKinds -> Nat]]
      /\ MaxTimers \in Nat \ {0} /\ opened \in [Nodes -> Nat]
      /\ session \in [Nodes -> Sessions]
  BY Bounds DEF IInv, Domains
<1>2. Good(ts, left, opened[n])
  BY <1>1 DEF IInv, NodeInv, CountsInv
<1>3. ~Open(n) => ts = NoTimers BY DEF IInv, NodeInv, SessionInv
<1>4. NoTimers \in [TimerKinds -> T] BY <1>1 DEF NoTimers
<1>5. ASSUME NEW u, NEW v, Good(u, v, opened'[n]),
             timers' = [timers EXCEPT ![n] = u], leftTimers' = [leftTimers EXCEPT ![n] = v],
             ~Open(n)' => u = NoTimers
      PROVE  /\ timers' \in [Nodes -> [TimerKinds -> 0..MaxTimers]]
             /\ leftTimers' \in [Nodes -> [EagerKinds -> Nat]]
             /\ \A m \in Nodes \ {n} : timers'[m] = timers[m] /\ leftTimers'[m] = leftTimers[m]
             /\ \A k \in EagerKinds : leftTimers'[n][k] + timers'[n][k] <= opened'[n]
             /\ timers'[n]["relay"] + timers'[n]["check"] <= 1
             /\ ~Open(n)' => timers'[n] = NoTimers
  BY <1>1, <1>5
<1>6. CASE Stays(n)
  <2>1. opened' = opened BY <1>6 DEF Stays
  <2>2. Open(n)' <=> Open(n)
    BY <1>1, <1>6 DEF Stays, Open, Sessions
  <2>3. PICK u : /\ timers' = [timers EXCEPT ![n] = u] /\ u \in [TimerKinds -> T]
                 /\ \A k \in EagerKinds : u[k] <= ts[k]
                 /\ u["relay"] + u["check"] <= 1
                 /\ ~Open(n) => u = NoTimers
    <3>1. CASE timers' = timers
      <4>1. timers' = [timers EXCEPT ![n] = ts] BY <1>1, <3>1
      <4>2. \A k \in EagerKinds : ts[k] <= ts[k] BY <1>2, KindsOfTimers
      <4> QED BY <1>2, <1>3, <4>1, <4>2
    <3>2. ASSUME NEW k \in TimerKinds, ts[k] > 0, timers' = [timers EXCEPT ![n][k] = @ - 1]
          PROVE  \E u : /\ timers' = [timers EXCEPT ![n] = u] /\ u \in [TimerKinds -> T]
                        /\ \A j \in EagerKinds : u[j] <= ts[j]
                        /\ u["relay"] + u["check"] <= 1
                        /\ ~Open(n) => u = NoTimers
      <4> DEFINE u == [ts EXCEPT ![k] = ts[k] - 1]
      <4>1. timers' = [timers EXCEPT ![n] = u] BY <3>2
      <4>2. u \in [TimerKinds -> T] /\ \A j \in TimerKinds : u[j] <= ts[j]
        BY <1>1, <1>2, <3>2
      <4>3. u["relay"] + u["check"] <= 1 BY <1>1, <1>2, <4>2, KindsOfTimers
      <4>4. Open(n) BY <1>3, <3>2 DEF NoTimers
      <4> HIDE DEF u
      <4> QED BY <4>1, <4>2, <4>3, <4>4, KindsOfTimers
    <3>3. ASSUME NEW k \in {"peer", "probe", "examine"}, Open(n), ts[k] < MaxTimers,
                 timers' = [timers EXCEPT ![n][k] = @ + 1]
          PROVE  \E u : /\ timers' = [timers EXCEPT ![n] = u] /\ u \in [TimerKinds -> T]
                        /\ \A j \in EagerKinds : u[j] <= ts[j]
                        /\ u["relay"] + u["check"] <= 1
                        /\ ~Open(n) => u = NoTimers
      <4> DEFINE u == [ts EXCEPT ![k] = ts[k] + 1]
      <4>1. timers' = [timers EXCEPT ![n] = u] BY <3>3
      <4>2. k \in TimerKinds /\ k \notin EagerKinds /\ k # "relay" /\ k # "check" BY KindsOfTimers
      <4>3. u \in [TimerKinds -> T] /\ \A j \in TimerKinds \ {k} : u[j] = ts[j]
        BY <1>1, <1>2, <3>3, <4>2
      <4>4. u["relay"] + u["check"] <= 1 BY <1>2, <4>2, <4>3, KindsOfTimers
      <4>5. \A j \in EagerKinds : u[j] <= ts[j] BY <1>1, <1>2, <4>2, <4>3, KindsOfTimers
      <4> HIDE DEF u
      <4> QED BY <3>3, <4>1, <4>3, <4>4, <4>5
    <3>4. ASSUME ts["relay"] > 0,
                 timers' = [timers EXCEPT ![n]["relay"] = @ - 1, ![n]["check"] = @ + 1]
          PROVE  \E u : /\ timers' = [timers EXCEPT ![n] = u] /\ u \in [TimerKinds -> T]
                        /\ \A j \in EagerKinds : u[j] <= ts[j]
                        /\ u["relay"] + u["check"] <= 1
                        /\ ~Open(n) => u = NoTimers
      <4> DEFINE u == [ts EXCEPT !["relay"] = ts["relay"] - 1, !["check"] = ts["check"] + 1]
      <4>1. timers' = [timers EXCEPT ![n] = u] BY <1>1, <3>4, KindsOfTimers
      <4>2. ts["relay"] = 1 /\ ts["check"] = 0 BY <1>1, <1>2, <3>4, KindsOfTimers
      <4>3. /\ u["relay"] = 0 /\ u["check"] = 1
            /\ \A j \in TimerKinds \ {"relay", "check"} : u[j] = ts[j]
            /\ u \in [TimerKinds -> T]
        BY <1>1, <1>2, <4>2, KindsOfTimers
      <4>4. Open(n) BY <1>3, <3>4, KindsOfTimers DEF NoTimers
      <4>5. \A j \in EagerKinds : u[j] <= ts[j] BY <1>1, <1>2, <4>3, KindsOfTimers
      <4>6. u["relay"] + u["check"] <= 1 BY <4>3
      <4>7. u \in [TimerKinds -> T] BY <4>3
      <4> HIDE DEF u
      <4> QED BY ONLY <4>1, <4>4, <4>5, <4>6, <4>7
    <3> QED BY <1>6, <3>1, <3>2, <3>3, <3>4 DEF Stays, TimersGo
  <2>4. PICK v : /\ leftTimers' = [leftTimers EXCEPT ![n] = v] /\ v \in [EagerKinds -> Nat]
                 /\ \A k \in EagerKinds : v[k] <= left[k]
    <3>1. CASE leftTimers' = leftTimers
      <4>1. leftTimers' = [leftTimers EXCEPT ![n] = left] BY <1>1, <3>1
      <4>2. left \in [EagerKinds -> Nat] /\ \A k \in EagerKinds : left[k] <= left[k] BY <1>2
      <4> HIDE DEF left
      <4> QED BY <4>1, <4>2
    <3>2. ASSUME NEW k \in EagerKinds, left[k] > 0,
                 leftTimers' = [leftTimers EXCEPT ![n][k] = @ - 1]
          PROVE  \E v : /\ leftTimers' = [leftTimers EXCEPT ![n] = v] /\ v \in [EagerKinds -> Nat]
                        /\ \A j \in EagerKinds : v[j] <= left[j]
      <4> DEFINE v == [left EXCEPT ![k] = left[k] - 1]
      <4>1. leftTimers' = [leftTimers EXCEPT ![n] = v] BY <3>2
      <4>2. v \in [EagerKinds -> Nat] /\ \A j \in EagerKinds : v[j] <= left[j] BY <1>2, <3>2
      <4> HIDE DEF v
      <4> QED BY <4>1, <4>2
    <3> QED BY <1>6, <3>1, <3>2 DEF Stays, LeftGo
  <2>5. \A k \in EagerKinds : v[k] + u[k] <= opened[n]
    <3>1. TAKE k \in EagerKinds
    <3>2. /\ v[k] \in Nat /\ u[k] \in Nat /\ ts[k] \in Nat /\ left[k] \in Nat
          /\ v[k] <= left[k] /\ u[k] <= ts[k] /\ left[k] + ts[k] <= opened[n]
      BY <1>1, <1>2, <2>3, <2>4, KindsOfTimers
    <3> QED BY <1>1, <3>2
  <2>6. Good(u, v, opened'[n]) BY <2>1, <2>3, <2>4, <2>5
  <2> HIDE DEF Good, ts, left
  <2> QED BY <1>5, <2>2, <2>3, <2>4, <2>6
<1>7. CASE Starts(n)
  <2>1. PICK from \in Numbers : NewSession(n, from) BY <1>7 DEF Starts
  <2>2. /\ ~Open(n) /\ leftTimers' = [leftTimers EXCEPT ![n] = left]
        /\ opened'[n] = opened[n] + 1 /\ Open(n)'
    BY <1>1, <2>1 DEF NewSession, Open
  <2>3. ts = NoTimers BY <1>3, <2>2
  <2>4. \A k \in TimerKinds : ts[k] = 0 BY <2>3 DEF NoTimers
  <2>5. PICK u : /\ timers' = [timers EXCEPT ![n] = u] /\ u \in [TimerKinds -> T]
                 /\ \A k \in TimerKinds : u[k] \in {0, 1}
                 /\ u["relay"] + u["check"] <= 1
    <3>1. CASE timers' = timers
      <4>1. timers' = [timers EXCEPT ![n] = ts] BY <1>1, <3>1
      <4> QED BY <1>2, <2>4, <4>1
    <3>2. ASSUME NEW k \in ConnectKinds, timers' = [timers EXCEPT ![n][k] = @ + 1]
          PROVE  \E u : /\ timers' = [timers EXCEPT ![n] = u] /\ u \in [TimerKinds -> T]
                        /\ \A j \in TimerKinds : u[j] \in {0, 1}
                        /\ u["relay"] + u["check"] <= 1
      <4> DEFINE u == [ts EXCEPT ![k] = ts[k] + 1]
      <4>1. timers' = [timers EXCEPT ![n] = u] BY <3>2
      <4>2. k \in TimerKinds /\ k # "check" BY KindsOfTimers
      <4>3. /\ u \in [TimerKinds -> T] /\ u[k] = 1
            /\ \A j \in TimerKinds \ {k} : u[j] = 0
        BY <1>1, <1>2, <2>4, <4>2
      <4>4. u["relay"] + u["check"] <= 1 BY <4>2, <4>3, KindsOfTimers
      <4> HIDE DEF u
      <4> QED BY <4>1, <4>2, <4>3, <4>4
    <3> QED BY <1>7, <3>1, <3>2 DEF Starts
  <2>6. \A k \in EagerKinds : left[k] + u[k] <= opened'[n]
    <3>1. TAKE k \in EagerKinds
    <3>2. left[k] \in Nat /\ ts[k] = 0 /\ left[k] + ts[k] <= opened[n] /\ u[k] \in {0, 1}
      BY <1>2, <2>4, <2>5, KindsOfTimers
    <3> QED BY <1>1, <2>2, <3>2
  <2>7. Good(u, left, opened'[n]) BY <1>2, <2>5, <2>6
  <2> HIDE DEF Good, ts, left
  <2> QED BY <1>5, <2>2, <2>5, <2>7
<1>8. CASE Ends(n)
  <2>1. PICK kind \in TimerKinds \cup {"none"} :
            CloseSession(n, kind) /\ (kind # "none" => ts[kind] > 0)
    BY <1>8 DEF Ends
  <2> DEFINE v == [k \in EagerKinds |-> left[k] + ts[k] - IF k = kind THEN 1 ELSE 0]
  <2>2. /\ opened' = opened /\ timers' = [timers EXCEPT ![n] = NoTimers]
        /\ leftTimers' = [leftTimers EXCEPT ![n] = v]
    BY <1>8, <2>1 DEF Ends, CloseSession
  <2>3. \A k \in EagerKinds : v[k] \in Nat /\ v[k] <= left[k] + ts[k]
    <3>1. TAKE k \in EagerKinds
    <3>2. left[k] \in Nat /\ ts[k] \in Nat BY <1>1, <1>2, KindsOfTimers
    <3>3. k = kind => ts[k] > 0 BY <2>1, KindsOfTimers
    <3> QED BY <3>2, <3>3
  <2>4. v \in [EagerKinds -> Nat] BY <2>3
  <2> HIDE DEF v
  <2>5. \A k \in EagerKinds : NoTimers[k] = 0 BY KindsOfTimers DEF NoTimers
  <2>6. \A k \in EagerKinds : v[k] + NoTimers[k] <= opened'[n]
    <3>1. TAKE k \in EagerKinds
    <3>2. left[k] \in Nat /\ ts[k] \in Nat /\ left[k] + ts[k] <= opened[n]
      BY <1>1, <1>2, KindsOfTimers
    <3> QED BY <1>1, <2>2, <2>3, <2>5, <3>2
  <2>7. NoTimers["relay"] + NoTimers["check"] <= 1 BY KindsOfTimers DEF NoTimers
  <2>8. Good(NoTimers, v, opened'[n]) BY <1>4, <2>4, <2>6, <2>7
  <2> HIDE DEF Good, ts, left
  <2> QED BY <1>5, <2>2, <2>8
<1> QED BY <1>6, <1>7, <1>8 DEF Goes

\* The session of a node stays one of those it has opened, with an object of its own.
LEMMA SessionStep ==
    ASSUME IInv, NEW n \in Nodes, Goes(n)
    PROVE  session'[n].id <= opened'[n] /\ (Open(n)' => session'[n].obj \in 1..PoolSize)
<1>1. /\ session \in [Nodes -> Sessions] /\ pool[n] \in Seq(1..PoolSize)
      /\ opened \in [Nodes -> Nat] /\ PoolSize \in Nat \ {0}
      /\ session[n].id <= opened[n] /\ (Open(n) => session[n].obj \in 1..PoolSize)
  BY Bounds DEF IInv, Domains, NodeInv, SessionInv
<1>2. session' \in [Nodes -> Sessions] BY DomainsStep
<1>3. CASE Stays(n)
  <2>1. session'[n].id = session[n].id /\ session'[n].obj = session[n].obj /\ opened' = opened
    BY <1>1, <1>3 DEF Stays, Sessions
  <2> QED BY <1>1, <2>1 DEF Open
<1>4. CASE Starts(n)
  <2>1. PICK from \in Numbers : NewSession(n, from) BY <1>4 DEF Starts
  <2>2. /\ session'[n].id = opened[n] + 1 /\ opened'[n] = opened[n] + 1
        /\ session'[n].obj = pool[n][Len(pool[n])]
    BY <1>1, <2>1 DEF NewSession
  <2>3. DOMAIN pool[n] # {}
    <3>1. {pool[n][i] : i \in DOMAIN pool[n]} = 1..PoolSize
      BY <2>1 DEF IInv, NodeInv, PoolInv, NewSession
    <3>2. 1 \in 1..PoolSize BY <1>1
    <3> QED BY <3>1, <3>2
  <2>4. pool[n][Len(pool[n])] \in 1..PoolSize
    <3> DEFINE q == pool[n]
               S == 1..PoolSize
    <3>1. q \in Seq(S) /\ DOMAIN q # {} BY <1>1, <2>3
    <3> HIDE DEF q, S
    <3>2. q[Len(q)] \in S BY <3>1
    <3> QED BY <3>2 DEF q, S
  <2> QED BY <1>1, <2>2, <2>4
<1>5. CASE Ends(n)
  <2>1. session'[n] = NoSession /\ opened' = opened
    BY <1>1, <1>5 DEF Ends, CloseSession
  <2> QED BY <1>1, <2>1 DEF NoSession, Open
<1> QED BY <1>3, <1>4, <1>5 DEF Goes

\* What is known of the other node's sessions stays true.
LEMMA HadStep ==
    ASSUME IInv, NEW n \in Nodes, Goes(n), NEW m \in Nodes, NEW id \in Nat, Had(m, id)
    PROVE  Had(m, id)'
<1>1. opened[Other(m)] \in Nat /\ opened'[Other(m)] \in Nat
      /\ opened[Other(m)] <= opened'[Other(m)]
  BY Bounds, DomainsStep, OtherOf DEF IInv, Domains, Goes, Numbers
<1> QED BY <1>1 DEF Had

LEMMA PacketsStep ==
    ASSUME IInv, NEW n \in Nodes, Goes(n)
    PROVE  \A p \in net' : SoundPacket(p)'
<1>1. ASSUME NEW p \in net, p \in net' PROVE SoundPacket(p)'
  <2>1. SoundPacket(p) BY <1>1 DEF IInv
  <2>2. p \in Packets /\ p \in Packets' /\ p.to \in Nodes /\ p.from \in Nat
    <3>1. Numbers \subseteq Nat BY Bounds DEF IInv
    <3> QED BY <2>1, <3>1 DEF SoundPacket, Packets, Goes, Numbers
  <2>3. p.type \in AskTypes => Had(p.to, p.from) BY <2>1 DEF SoundPacket
  <2>4. p.type \in AskTypes => Had(p.to, p.from)' BY <2>2, <2>3, HadStep
  <2> QED BY <2>2, <2>4 DEF SoundPacket
<1> QED BY <1>1 DEF Goes, PacketsGo

\* A task that is left as it is stays sound, whatever becomes of the session.
LEMMA TaskStays ==
    ASSUME IInv, NEW n \in Nodes, Goes(n), NEW m \in Nodes, NEW t \in Tasks, SoundTask(m, t)
    PROVE  SoundTask(m, t)'
<1>1. /\ SessionInv(m) /\ Numbers \subseteq Nat
      /\ session \in [Nodes -> Sessions] /\ opened \in [Nodes -> Numbers]
      /\ session' \in [Nodes -> Sessions] /\ opened' \in [Nodes -> Nat]
      /\ opened[m] <= opened'[m]
  <2>1. Numbers' = Numbers BY DEF Goes, Numbers
  <2>2. Numbers \subseteq Nat BY Bounds DEF IInv
  <2>3. opened' \in [Nodes -> Nat] BY <2>2, DomainsStep
  <2> QED BY <2>2, <2>3, DomainsStep DEF IInv, Domains, NodeInv
<1>2. /\ t.id \in Nat /\ t.from \in Nat /\ session[m].id \in Nat /\ session[m].peer \in Nat
      /\ opened[m] \in Nat /\ opened'[m] \in Nat /\ session'[m].id \in Nat
  BY <1>1 DEF Tasks, Sessions
<1>3. \A id \in Nat : Had(m, id) => Had(m, id)' BY HadStep
<1>4. /\ t.id <= opened'[m]
      /\ t.type \in AskTypes => Had(m, t.from)'
      /\ t.pc = "complete" => t.type = "CONNECT_ACK"
      /\ t.pc \in {"accept", "set"} => t.id # 0
      /\ t.pc \in SettingTypes => t.obj \in 1..PoolSize
  BY <1>1, <1>2, <1>3 DEF SoundTask
<1>5. SUFFICES ASSUME Found(m, t.id)'
               PROVE  /\ t.pc \in SettingTypes => t.obj = session'[m].obj
                      /\ t.pc \in {"accept", "set"} =>
                             session'[m].peer \in 1..opened'[Other(m)]
  BY <1>4, <1>5 DEF SoundTask, Had
<1>6. CASE session'[m] = session[m]
  <2>1. Found(m, t.id) BY <1>5, <1>6 DEF Found, Open
  <2>2. PICK id \in Nat : id = session[m].peer BY <1>2
  <2>3. t.pc \in {"accept", "set"} => Had(m, id)' BY <1>3, <2>1, <2>2 DEF SoundTask
  <2> QED BY <1>6, <2>1, <2>2, <2>3 DEF SoundTask, Had
<1>7. CASE m = n /\ Stays(n)
  <2>1. /\ session'[m].id = session[m].id /\ session'[m].obj = session[m].obj
    BY <1>1, <1>7 DEF Stays, Sessions
  <2>2. PICK id \in Nat : session'[m].peer = id /\ (id = session[m].peer \/ Had(m, id))
    BY <1>1, <1>2, <1>7 DEF Stays, Sessions
  <2>3. Found(m, t.id) BY <1>5, <2>1 DEF Found, Open
  <2>4. t.pc \in {"accept", "set"} => Had(m, id)' BY <1>3, <2>2, <2>3 DEF SoundTask
  <2> QED BY <2>1, <2>2, <2>3, <2>4 DEF SoundTask, Had
<1>8. CASE m = n /\ Starts(n)
  <2>1. session'[m].id = opened[m] + 1
    BY <1>1, <1>8 DEF Starts, NewSession
  <2>2. t.id <= opened[m] BY DEF SoundTask
  <2>3. session'[m].id = t.id BY <1>5 DEF Found
  <2> QED BY <1>2, <2>1, <2>2, <2>3
<1>9. CASE m = n /\ Ends(n)
  <2>1. session'[m].id = 0 BY <1>1, <1>9 DEF Ends, CloseSession, NoSession
  <2> QED BY <1>5, <2>1 DEF Found, Open
<1> QED BY <1>6, <1>7, <1>8, <1>9, DomainsStep DEF Goes

LEMMA TasksStep ==
    ASSUME IInv, NEW n \in Nodes, Goes(n)
    PROVE  /\ task' \in [Nodes -> [Workers -> Tasks]]
           /\ \A m \in Nodes \ {n} : task'[m] = task[m]
           /\ \A m \in Nodes : TaskInv(m)'
<1>1. task \in [Nodes -> [Workers -> Tasks]] BY DEF IInv, Domains
<1>2. \A m \in Nodes, w \in Workers : task[m][w] \in Tasks /\ SoundTask(m, task[m][w])
  BY <1>1 DEF IInv, NodeInv, TaskInv
<1>0. \A m \in Nodes, t \in Tasks : SoundTask(m, t) => SoundTask(m, t)' BY TaskStays
<1>3. CASE task' = task
  <2>1. ASSUME NEW m \in Nodes, NEW v \in Workers PROVE SoundTask(m, task[m][v])'
    <3>1. PICK t \in Tasks : t = task[m][v] /\ SoundTask(m, t) BY <1>2
    <3>2. SoundTask(m, t)' BY <1>0, <3>1
    <3>3. task'[m][v] = t BY <1>3, <3>1
    <3> QED BY <3>2, <3>3
  <2> QED BY <1>1, <1>3, <2>1 DEF TaskInv
<1>4. ASSUME NEW w \in Workers, NEW t \in Tasks, task' = [task EXCEPT ![n][w] = t],
             SoundTask(n, t)'
      PROVE  /\ task' \in [Nodes -> [Workers -> Tasks]]
             /\ \A m \in Nodes \ {n} : task'[m] = task[m]
             /\ \A m \in Nodes : TaskInv(m)'
  <2>1. /\ task' \in [Nodes -> [Workers -> Tasks]]
        /\ \A m \in Nodes \ {n} : task'[m] = task[m]
        /\ task'[n][w] = t /\ \A v \in Workers \ {w} : task'[n][v] = task[n][v]
    BY <1>1, <1>4
  <2>2. ASSUME NEW m \in Nodes, NEW v \in Workers PROVE SoundTask(m, task[m][v])'
    <3>1. PICK u \in Tasks : u = task'[m][v] /\ SoundTask(m, u)'
      <4>1. CASE m = n /\ v = w BY <1>4, <2>1, <4>1
      <4>2. CASE ~(m = n /\ v = w)
        <5>1. PICK u \in Tasks : u = task[m][v] /\ SoundTask(m, u) BY <1>2
        <5>2. task'[m][v] = u BY <2>1, <4>2, <5>1
        <5> QED BY <1>0, <5>1, <5>2
      <4> QED BY <4>1, <4>2
    <3> QED BY <3>1
  <2> QED BY <2>1, <2>2 DEF TaskInv
<1> QED BY <1>3, <1>4 DEF Goes, TaskGoes

\* A step of the form keeps the invariant, and the other node's state.
LEMMA GoesOn ==
    ASSUME IInv, NEW n \in Nodes, Goes(n)
    PROVE  IInv'
<1>1. /\ Numbers' = Numbers /\ setting' = setting /\ object' \in [Nodes -> [1..PoolSize -> Objects]]
      /\ Sessions' = Sessions /\ Tasks' = Tasks /\ MaxTimers' = MaxTimers
  BY DEF Goes, ObjectsGo, Numbers, Sessions, Tasks, MaxTimers
<1>2. Domains'
  BY <1>1, DomainsStep, TriggersStep, CountsStep, TasksStep DEF IInv, Domains
<1>3. \A p \in net' : SoundPacket(p)' BY PacketsStep
<1>4. NodeInv(n)'
  <2>1. SessionInv(n)' BY SessionStep, CountsStep DEF SessionInv
  <2>2. PoolInv(n)' BY PoolStep DEF Goes
  <2>3. CountsInv(n)' BY TriggersStep, CountsStep DEF CountsInv
  <2> QED BY <2>1, <2>2, <2>3, TasksStep DEF NodeInv
<1>5. ASSUME NEW m \in Nodes \ {n} PROVE NodeInv(m)'
  <2>1. /\ session'[m] = session[m] /\ pool'[m] = pool[m] /\ opened'[m] = opened[m]
        /\ timers'[m] = timers[m] /\ leftTimers'[m] = leftTimers[m]
        /\ triggerTimes'[m] = triggerTimes[m] /\ \A k \in ConnectKinds : Limit(k)' = Limit(k)
    BY DomainsStep, TriggersStep, CountsStep
  <2>2. SessionInv(m) /\ PoolInv(m) /\ CountsInv(m) BY DEF IInv, NodeInv
  <2>3. SessionInv(m)' /\ PoolInv(m)' /\ CountsInv(m)'
    BY <2>1, <2>2 DEF SessionInv, PoolInv, CountsInv, Open
  <2> QED BY <2>3, TasksStep DEF NodeInv
<1> QED BY <1>2, <1>3, <1>4, <1>5 DEF IInv

-----------------------------------------------------------------------------
(* The actions have that form.                                               *)

\* What a session sends names it, and a node without one asks nothing.
LEMMA PacketIsSound ==
    ASSUME IInv, NEW n \in Nodes, NEW type \in BaseTypes \cup KcpTypes,
           type \in AskTypes => Open(n)
    PROVE  SoundPacket(Packet(n, type))
<1>1. session[n] \in Sessions /\ opened[n] \in Nat /\ session[n].id <= opened[n]
      /\ Numbers \subseteq Nat
  BY Bounds DEF IInv, Domains, NodeInv, SessionInv
<1>2. session[n].id \in Numbers /\ session[n].id \in Nat BY <1>1 DEF Sessions
<1>3. Other(n) \in Nodes /\ Other(Other(n)) = n BY OtherOf
<1>4. Packet(n, type) \in Packets BY <1>2, <1>3 DEF Packet, Packets, Types
<1>5. type \in AskTypes => session[n].id \in 1..opened[Other(Other(n))]
  BY <1>1, <1>2, <1>3 DEF Open
<1> QED BY <1>4, <1>5 DEF SoundPacket, Had, Packet

\* The network carries nothing but what was sent.
LEMMA SendsSound ==
    ASSUME NEW ps, Transmit(ps), \A p \in ps : SoundPacket(p),
           opened' = opened, setting' = setting
    PROVE  PacketsGo
<1>1. \A p \in net' : p \in net \/ p \in ps BY DEF Transmit
<1>2. \A p \in ps : SoundPacket(p)'
  BY DEF SoundPacket, Packets, Numbers, Had
<1> QED BY <1>1, <1>2 DEF PacketsGo

\* A task that is done.
LEMMA FinishGoes ==
    ASSUME IInv, NEW n \in Nodes, NEW w \in Workers, Finish(n, w),
           opened' \in [Nodes -> Nat]
    PROVE  TaskGoes(n)
<1>1. Idle \in Tasks /\ 0 \in Numbers BY Bounds DEF IInv, Idle, Tasks
<1>2. SoundTask(n, Idle)'
  BY DEF SoundTask, Idle, AskTypes, SettingTypes
<1> QED BY <1>1, <1>2 DEF Finish, TaskGoes

LEMMA ObjectSet ==
    ASSUME IInv, NEW n \in Nodes, NEW o \in 1..PoolSize, NEW v \in Objects,
           object' = [object EXCEPT ![n][o] = v]
    PROVE  /\ ObjectsGo(n) /\ object'[n][o] = v
           /\ \A p \in 1..PoolSize \ {o} : object'[n][p] = object[n][p]
<1>1. object \in [Nodes -> [1..PoolSize -> Objects]] BY DEF IInv, Domains
<1> DEFINE S == 1..PoolSize
           f == [object[n] EXCEPT ![o] = v]
<1>2. object' = [object EXCEPT ![n] = f] OBVIOUS
<1>3. object \in [Nodes -> [S -> Objects]] /\ o \in S BY <1>1
<1> HIDE DEF S
<1>4. f \in [S -> Objects] /\ f[o] = v /\ \A p \in S \ {o} : f[p] = object[n][p] BY <1>3
<1> HIDE DEF f
<1>5. /\ object' \in [Nodes -> [S -> Objects]] /\ object'[n] = f
      /\ \A m \in Nodes \ {n} : object'[m] = object[m]
  BY <1>2, <1>3, <1>4
<1> QED BY <1>4, <1>5 DEF ObjectsGo, S

LEMMA TimeoutsSet ==
    ASSUME IInv, NEW n \in Nodes, NEW o \in 1..PoolSize, NEW x \in 0..(TimeoutMod - 1),
           object' = [object EXCEPT ![n][o].timeouts = x]
    PROVE  /\ ObjectsGo(n)
           /\ \A p \in 1..PoolSize : object'[n][p].status = object[n][p].status
<1>1. object[n][o] \in Objects BY DEF IInv, Domains
<1>2. PICK v \in Objects : v = [object[n][o] EXCEPT !.timeouts = x] BY <1>1 DEF Objects
<1>3. object' = [object EXCEPT ![n][o] = v] BY <1>2
<1>4. v.status = object[n][o].status BY <1>1, <1>2 DEF Objects
<1>5. /\ ObjectsGo(n) /\ object'[n][o] = v
      /\ \A p \in 1..PoolSize \ {o} : object'[n][p] = object[n][p]
  BY ONLY IInv, <1>3, ObjectSet
<1> QED BY <1>4, <1>5

\* Nothing came for a period, or something did: the status stays.
LEMMA TimeoutsGo ==
    ASSUME IInv, NEW n \in Nodes, Open(n), CountTimeout(n) \/ ResetTimeout(n)
    PROVE  /\ ObjectsGo(n)
           /\ \A p \in 1..PoolSize : object'[n][p].status = object[n][p].status
<1>1. session[n].obj \in 1..PoolSize BY DEF IInv, NodeInv, SessionInv
<1>2. TimeoutMod \in Nat \ {0} /\ object[n][session[n].obj] \in Objects
  BY <1>1, Bounds DEF IInv, Domains
<1>3. Timeouts(n) \in 0..(TimeoutMod - 1) /\ 0 \in 0..(TimeoutMod - 1)
  BY <1>2 DEF Timeouts, Objects
<1> QED BY <1>1, <1>3, TimeoutsSet DEF CountTimeout, ResetTimeout

\* A timer is added or not.
LEMMA AddGoes ==
    ASSUME NEW n \in Nodes, NEW k \in {"peer", "probe", "examine"}, Open(n), AddTimer(n, k)
    PROVE  TimersGo(n)
  BY DEF AddTimer, TimersGo

LEMMA EndGoes ==
    ASSUME NEW n \in Nodes, NEW k \in TimerKinds, timers[n][k] > 0, EndTimer(n, k)
    PROVE  TimersGo(n)
  BY DEF EndTimer, TimersGo

LEMMA OpenedStays ==
    ASSUME IInv
    PROVE  opened \in [Nodes -> Nat]
           /\ \A n \in Nodes : (opened' = [opened EXCEPT ![n] = opened[n] + 1]) =>
                                    opened' \in [Nodes -> Nat]
<1>1. opened \in [Nodes -> Nat] BY Bounds DEF IInv, Domains
<1> QED BY <1>1

LEMMA NewOpened ==
    ASSUME IInv, NEW n \in Nodes, NEW from, NewSession(n, from)
    PROVE  /\ opened' = [opened EXCEPT ![n] = opened[n] + 1] /\ opened' \in [Nodes -> Nat]
           /\ session'[n].id = opened'[n] /\ session'[n].id # 0 /\ Open(n)'
           /\ session'[n].peer = from
<1>1. opened \in [Nodes -> Nat] /\ session \in [Nodes -> Sessions]
  BY Bounds DEF IInv, Domains
<1> QED BY <1>1 DEF NewSession, Open

\* The session that there is, with the one timer more or fewer.
LEMMA KeepStays ==
    ASSUME NEW n \in Nodes, KeepSession, UNCHANGED opened, timers' = timers \/ TimersGo(n)
    PROVE  Stays(n)
  BY DEF KeepSession, Stays, TimersGo, LeftGo

\* connect_peer() and the like.
LEMMA StartGoes ==
    ASSUME IInv, NEW n \in Nodes, NEW k \in ConnectKinds, NEW from \in Numbers,
           NewSession(n, from), AddTimer(n, k)
    PROVE  Starts(n)
  BY DEF Starts, AddTimer

LEMMA PeerTimerGoes ==
    ASSUME IInv, NEW n \in Nodes, PeerTimer(n)
    PROVE  (Stays(n) \/ Starts(n)) /\ opened' \in [Nodes -> Nat]
<1>1. 0 \in Numbers BY Bounds DEF IInv
<1>2. CASE NewSession(n, 0)
  <2>1. AddTimer(n, "peer") BY DEF PeerTimer
  <2> QED BY <1>1, <1>2, <2>1, StartGoes, NewOpened, KindsOfTimers
<1>3. CASE Open(n) /\ KeepSession /\ UNCHANGED opened
  <2>1. TimersGo(n) BY <1>3, AddGoes DEF PeerTimer
  <2> QED BY <1>3, <2>1, KeepStays, OpenedStays
<1> QED BY <1>2, <1>3 DEF PeerTimer

LEMMA Nothing ==
    ASSUME IInv, NEW n \in Nodes
    PROVE  /\ object' = object => ObjectsGo(n)
           /\ triggerTimes' = triggerTimes => TriggersGo(n)
           /\ task' = task => TaskGoes(n)
           /\ net' \subseteq net => PacketsGo
  BY DEF IInv, Domains, ObjectsGo, TriggersGo, TaskGoes, PacketsGo

LEMMA ApplicationGoes ==
    ASSUME IInv, NEW n \in Nodes, Application(n)
    PROVE  Goes(n)
<1>1. /\ object' = object /\ triggerTimes' = triggerTimes /\ task' = task
      /\ net' \subseteq net /\ setting' = setting
  BY DEF Application, ConnectTracker, ConnectPeer, ConnectByRelay, netVars, rareVars
<1>2. 0 \in Numbers BY Bounds DEF IInv
<1>3. CASE ConnectTracker(n)
  <2>1. ASSUME NewSession(n, 0), AddTimer(n, "tracker") PROVE Starts(n)
    BY <1>2, <2>1, StartGoes, KindsOfTimers
  <2>2. ASSUME UNCHANGED <<opened, timerVars>>, KeepSession PROVE Stays(n)
    BY <2>2, KeepStays DEF timerVars
  <2> QED BY <1>3, <2>1, <2>2, <1>1, Nothing DEF ConnectTracker, Goes
<1>4. CASE ConnectPeer(n)
  <2>1. Stays(n) \/ Starts(n) BY <1>4, PeerTimerGoes DEF ConnectPeer
  <2> QED BY <2>1, <1>1, Nothing DEF Goes
<1>5. CASE ConnectByRelay(n)
  <2>1. Starts(n) BY <1>2, <1>5, StartGoes, KindsOfTimers DEF ConnectByRelay
  <2> QED BY <2>1, <1>1, Nothing DEF Goes
<1> QED BY <1>3, <1>4, <1>5 DEF Application

\* A timer of a session runs only while that is there.
LEMMA TimersOfSessions ==
    ASSUME IInv, NEW n \in Nodes, NEW k \in TimerKinds, timers[n][k] > 0
    PROVE  Open(n)
  BY DEF IInv, NodeInv, SessionInv, NoTimers

LEMMA TryGoes ==
    ASSUME IInv, NEW n \in Nodes, NEW k \in ConnectKinds, timers[n][k] > 0, Try(n, k),
           opened' = opened, setting' = setting
    PROVE  (timers' = timers \/ TimersGo(n)) /\ PacketsGo
<1>1. k \in TimerKinds BY KindsOfTimers
<1>2. Open(n) BY <1>1, TimersOfSessions
<1>3. \A type \in BaseTypes : SoundPacket(Packet(n, type)) BY <1>2, PacketIsSound
<1>4. {"DISCONNECT", "PING_REQ", "CONNECT_REQ"} \subseteq BaseTypes BY DEF BaseTypes
<1> DEFINE parting == IF TriggeredFirst(n, k) THEN {Packet(n, "DISCONNECT")} ELSE {}
           type == IF Status(n) = DISCONNECT THEN "PING_REQ" ELSE "CONNECT_REQ"
<1>5. /\ \A p \in parting : SoundPacket(p)
      /\ \A p \in parting \cup {Packet(n, type)} : SoundPacket(p)
  BY <1>3, <1>4
<1>6. \/ Transmit(parting) /\ EndTimer(n, k)
      \/ Transmit(parting \cup {Packet(n, type)}) /\ UNCHANGED timerVars
  BY DEF Try
<1> HIDE DEF parting, type
<1>7. PacketsGo BY <1>5, <1>6, SendsSound
<1>8. timers' = timers \/ TimersGo(n) BY <1>1, <1>6, EndGoes DEF timerVars
<1> QED BY <1>7, <1>8

LEMMA CloseGoes ==
    ASSUME NEW n \in Nodes, NEW k \in TimerKinds \cup {"none"}, Open(n), UNCHANGED opened,
           CloseSession(n, k), k # "none" => timers[n][k] > 0
    PROVE  Ends(n)
  BY DEF Ends

LEMMA RelayPackets ==
    ASSUME IInv, NEW n \in Nodes, NEW ps \in RelayAnswers(n)
    PROVE  \A p \in ps : SoundPacket(p)
<1>1. 0 \in Numbers /\ Other(n) \in Nodes BY Bounds, OtherOf DEF IInv
<1>2. {"HELP_RFS", "HELP_ACK", "PING_HELP"} \subseteq Types \ AskTypes
  BY DEF Types, RelayTypes, AskTypes
<1> QED BY <1>1, <1>2 DEF RelayAnswers, SoundPacket, Packets

LEMMA TimerGoes ==
    ASSUME IInv, NEW n \in Nodes, Timer(n)
    PROVE  Goes(n)
<1>1. /\ task' = task /\ setting' = setting /\ opened' = opened
      /\ opened' \in [Nodes -> Nat]
  <2>1. task' = task /\ setting' = setting /\ opened' = opened
    BY DEF Timer, TryConnectTracker, TryConnectPeer, TryConnectPeerRelay, TryPingPeer,
           CheckConnectPeerStatus, CountAndEnd, HeartbeatProbe, HeartbeatExamine, rareVars
  <2> QED BY <2>1, OpenedStays
<1>2. TaskGoes(n) BY <1>1, Nothing
<1>3. \A k \in TimerKinds : timers[n][k] > 0 => Open(n) BY TimersOfSessions
<1>4. CASE TryConnectTracker(n)
  <2>1. timers[n]["tracker"] > 0 /\ object' = object /\ Count(n, "tracker")
    BY <1>4 DEF TryConnectTracker
  <2>2. CASE CloseSession(n, "tracker") /\ SendNothing
    <3>1. Ends(n) BY <1>1, <1>3, <2>1, <2>2, CloseGoes, KindsOfTimers
    <3> QED BY <1>1, <1>2, <2>1, <2>2, <3>1, Nothing, KindsOfTimers
        DEF Goes, TriggersGo, SendNothing
  <2>3. CASE Try(n, "tracker") /\ KeepSession
    <3>1. (timers' = timers \/ TimersGo(n)) /\ PacketsGo
      BY <1>1, <2>1, <2>3, TryGoes, KindsOfTimers
    <3>2. Stays(n) BY <1>1, <2>3, <3>1, KeepStays
    <3> QED BY <1>1, <1>2, <2>1, <3>1, <3>2, Nothing, KindsOfTimers DEF Goes, TriggersGo
  <2> QED BY <1>4, <2>2, <2>3 DEF TryConnectTracker
<1>5. CASE TryConnectPeer(n)
  <2>1. timers[n]["peer"] > 0 /\ object' = object /\ Count(n, "peer")
    BY <1>5 DEF TryConnectPeer
  <2>2. CASE CloseSession(n, "peer") /\ SendNothing
    <3>1. Ends(n) BY <1>1, <1>3, <2>1, <2>2, CloseGoes, KindsOfTimers
    <3> QED BY <1>1, <1>2, <2>1, <2>2, <3>1, Nothing, KindsOfTimers
        DEF Goes, TriggersGo, SendNothing
  <2>3. CASE Try(n, "peer") /\ KeepSession
    <3>1. (timers' = timers \/ TimersGo(n)) /\ PacketsGo
      BY <1>1, <2>1, <2>3, TryGoes, KindsOfTimers
    <3>2. Stays(n) BY <1>1, <2>3, <3>1, KeepStays
    <3> QED BY <1>1, <1>2, <2>1, <3>1, <3>2, Nothing, KindsOfTimers DEF Goes, TriggersGo
  <2> QED BY <1>5, <2>2, <2>3 DEF TryConnectPeer
<1>6. CASE TryConnectPeerRelay(n)
  <2>1. /\ timers[n]["relay"] > 0 /\ object' = object /\ Count(n, "relay") /\ KeepSession
    BY <1>6 DEF TryConnectPeerRelay
  <2>2. CASE EndTimer(n, "relay") /\ SendNothing
    <3>1. TimersGo(n) BY <2>1, <2>2, EndGoes, KindsOfTimers
    <3>2. Stays(n) BY <1>1, <2>1, <3>1, KeepStays
    <3> QED BY <1>1, <1>2, <2>1, <2>2, <3>2, Nothing, KindsOfTimers
        DEF Goes, TriggersGo, SendNothing
  <2>3. ASSUME NEW ps \in RelayAnswers(n), Transmit(ps),
               \/ timers' = [timers EXCEPT ![n]["relay"] = @ - 1, ![n]["check"] = @ + 1]
               \/ timers' = [timers EXCEPT ![n]["relay"] = @ - 1]
        PROVE  Goes(n)
    <3>1. TimersGo(n) BY <2>1, <2>3, KindsOfTimers DEF TimersGo
    <3>2. Stays(n) BY <1>1, <2>1, <3>1, KeepStays
    <3>3. PacketsGo BY <1>1, <2>3, RelayPackets, SendsSound
    <3> QED BY <1>1, <1>2, <2>1, <3>2, <3>3, Nothing, KindsOfTimers DEF Goes, TriggersGo
  <2>4. CASE Try(n, "relay")
    <3>1. (timers' = timers \/ TimersGo(n)) /\ PacketsGo
      BY <1>1, <2>1, <2>4, TryGoes, KindsOfTimers
    <3>2. Stays(n) BY <1>1, <2>1, <3>1, KeepStays
    <3> QED BY <1>1, <1>2, <2>1, <3>1, <3>2, Nothing, KindsOfTimers DEF Goes, TriggersGo
  <2> QED BY <1>6, <2>2, <2>3, <2>4 DEF TryConnectPeerRelay
<1>7. CASE CheckConnectPeerStatus(n)
  <2>1. /\ timers[n]["check"] > 0 /\ object' = object /\ triggerTimes' = triggerTimes
        /\ net' \subseteq net
    BY <1>7 DEF CheckConnectPeerStatus, netVars
  <2>2. Stays(n) \/ Ends(n)
    <3>1. CASE CloseSession(n, "check")
      BY <1>1, <1>3, <2>1, <3>1, CloseGoes, KindsOfTimers
    <3>2. CASE EndTimer(n, "check") /\ KeepSession
      BY <1>1, <2>1, <3>2, EndGoes, KeepStays, KindsOfTimers
    <3> QED BY <1>7, <3>1, <3>2 DEF CheckConnectPeerStatus
  <2> QED BY <1>1, <1>2, <2>1, <2>2, Nothing DEF Goes
<1>8. CASE TryPingPeer(n)
  <2>1. timers[n]["ping"] > 0 /\ object' = object /\ Count(n, "ping") /\ KeepSession
    BY <1>8 DEF TryPingPeer
  <2>2. (timers' = timers \/ TimersGo(n)) /\ PacketsGo
    <3>1. CASE EndTimer(n, "ping") /\ SendNothing
      BY <2>1, <3>1, EndGoes, Nothing, KindsOfTimers DEF SendNothing
    <3>2. CASE Transmit({Packet(n, "PING_REQ")}) /\ UNCHANGED timerVars
      <4>1. Open(n) BY <1>3, <2>1, KindsOfTimers
      <4>2. SoundPacket(Packet(n, "PING_REQ")) BY <4>1, PacketIsSound DEF BaseTypes
      <4> QED BY <1>1, <3>2, <4>2, SendsSound DEF timerVars
    <3> QED BY <1>8, <3>1, <3>2 DEF TryPingPeer
  <2>3. Stays(n) BY <1>1, <2>1, <2>2, KeepStays
  <2> QED BY <1>1, <1>2, <2>1, <2>2, <2>3, Nothing, KindsOfTimers DEF Goes, TriggersGo
<1>9. ASSUME NEW k \in EagerKinds, CountAndEnd(n, k) PROVE Goes(n)
  <2>1. /\ leftTimers[n][k] > 0 /\ Count(n, k) /\ leftTimers' = [leftTimers EXCEPT ![n][k] = @ - 1]
        /\ session' = session /\ pool' = pool /\ timers' = timers /\ object' = object
        /\ net' \subseteq net
    BY <1>9 DEF CountAndEnd, timerVars, netVars
  <2>2. Stays(n) BY <1>1, <2>1 DEF Stays, TimersGo, LeftGo
  <2>3. TriggersGo(n) BY <2>1, KindsOfTimers DEF TriggersGo
  <2> QED BY <1>1, <1>2, <2>1, <2>2, <2>3, Nothing DEF Goes
<1>10. ASSUME NEW k \in TimerKinds, timers[n][k] > 0, HeartbeatTimeout(n, k)
       PROVE  Ends(n) /\ ObjectsGo(n)
  <2>1. Open(n) BY <1>3, <1>10
  <2>2. session[n].obj \in 1..PoolSize BY <2>1 DEF IInv, NodeInv, SessionInv
  <2>3. TimeoutMod \in Nat \ {0} /\ object[n][session[n].obj] \in Objects
    BY <2>2, Bounds DEF IInv, Domains
  <2>4. [status |-> DISCONNECT, timeouts |-> Timeouts(n)] \in Objects
    BY <2>3 DEF Timeouts, Objects, Statuses
  <2>5. ObjectsGo(n) BY <1>10, <2>2, <2>4, ObjectSet DEF HeartbeatTimeout
  <2>6. Ends(n) BY <1>1, <1>10, <2>1, CloseGoes DEF HeartbeatTimeout
  <2> QED BY <2>5, <2>6
<1>11. CASE HeartbeatProbe(n)
  <2>1. /\ timers[n]["probe"] > 0 /\ triggerTimes' = triggerTimes
        /\ Open(n) /\ "probe" \in TimerKinds
    BY <1>3, <1>11, KindsOfTimers DEF HeartbeatProbe
  <2>2. CASE EndTimer(n, "probe") /\ KeepSession /\ UNCHANGED object /\ SendNothing
    <3>1. Stays(n) BY <1>1, <2>1, <2>2, EndGoes, KeepStays
    <3> QED BY <1>1, <1>2, <2>1, <2>2, <3>1, Nothing DEF Goes, SendNothing
  <2>3. CASE HeartbeatTimeout(n, "probe") /\ SendNothing
    BY <1>1, <1>2, <1>10, <2>1, <2>3, Nothing DEF Goes, SendNothing
  <2>4. CASE /\ CountTimeout(n) /\ KeepSession /\ UNCHANGED timerVars
             /\ Transmit(IF Timeouts(n) = 2 THEN {Packet(n, "HEARTBEAT")} ELSE {})
    <3>1. ObjectsGo(n) BY <2>1, <2>4, TimeoutsGo
    <3>2. SoundPacket(Packet(n, "HEARTBEAT")) BY <2>1, PacketIsSound DEF KcpTypes
    <3>3. PacketsGo BY <1>1, <2>4, <3>2, SendsSound
    <3>4. Stays(n) BY <1>1, <2>4, KeepStays DEF timerVars
    <3> QED BY <1>1, <1>2, <2>1, <3>1, <3>3, <3>4, Nothing DEF Goes
  <2> QED BY <1>11, <2>2, <2>3, <2>4 DEF HeartbeatProbe
<1>12. CASE HeartbeatExamine(n)
  <2>1. /\ timers[n]["examine"] > 0 /\ triggerTimes' = triggerTimes /\ net' \subseteq net
        /\ Open(n) /\ "examine" \in TimerKinds
    BY <1>3, <1>12, KindsOfTimers DEF HeartbeatExamine, netVars
  <2>2. CASE CountTimeout(n) /\ EndTimer(n, "examine") /\ KeepSession
    <3>1. Stays(n) BY <1>1, <2>1, <2>2, EndGoes, KeepStays
    <3> QED BY <1>1, <1>2, <2>1, <2>2, <3>1, TimeoutsGo, Nothing DEF Goes
  <2>3. CASE HeartbeatTimeout(n, "examine")
    BY <1>1, <1>2, <1>10, <2>1, <2>3, Nothing DEF Goes
  <2>4. CASE CountTimeout(n) /\ KeepSession /\ UNCHANGED timerVars
    <3>1. Stays(n) BY <1>1, <2>4, KeepStays DEF timerVars
    <3> QED BY <1>1, <1>2, <2>1, <2>4, <3>1, TimeoutsGo, Nothing DEF Goes
  <2> QED BY <1>12, <2>2, <2>3, <2>4 DEF HeartbeatExamine
<1> QED BY <1>4, <1>5, <1>6, <1>7, <1>8, <1>9, <1>11, <1>12 DEF Timer

LEMMA HandlerGoes ==
    ASSUME IInv, NEW n \in Nodes, NEW w \in Workers, Handle(n, w)
    PROVE  Goes(n)
<1> DEFINE t == task[n][w]
<1>1. /\ t \in Tasks /\ SoundTask(n, t) /\ Numbers \subseteq Nat /\ 0 \in Numbers
      /\ opened \in [Nodes -> Nat] /\ opened[n] \in Numbers
      /\ session \in [Nodes -> Sessions] /\ TimeoutMod \in Nat \ {0}
  BY Bounds, OpenedStays DEF IInv, Domains, NodeInv, TaskInv
<1>2. t.from \in Numbers /\ t.id \in Numbers BY <1>1 DEF Tasks
<1>3. Open(n) => session[n].obj \in 1..PoolSize BY DEF IInv, NodeInv, SessionInv
<1>4. ASSUME opened' = opened PROVE opened' \in [Nodes -> Nat] BY <1>1, <1>4
<1>5. ASSUME NEW types, Recv(n, w, types) PROVE Found(n, t.id) /\ Open(n)
  BY <1>5 DEF Recv, Found
<1>6. CASE GatewayReply(n, w) \/ Refuse(n, w)
  <2>1. /\ UNCHANGED <<session, object, pool, opened, triggerTimes, timers, leftTimers, setting>>
        /\ Finish(n, w)
    BY <1>6 DEF GatewayReply, Refuse, nodeVars, timerVars, rareVars
  <2>2. PICK type \in {"PING_ACK", "CONNECT_RFS"} : Transmit({Packet(n, type)})
    BY <1>6 DEF GatewayReply, Refuse
  <2>3. SoundPacket(Packet(n, type)) BY PacketIsSound DEF BaseTypes, AskTypes
  <2>4. PacketsGo BY <2>1, <2>2, <2>3, SendsSound
  <2>5. Stays(n) BY <2>1, KeepStays DEF KeepSession
  <2> QED BY <1>4, <2>1, <2>4, <2>5, FinishGoes, Nothing DEF Goes
<1>7. CASE GatewayAck(n, w) \/ GatewayIgnore(n, w) \/ RecvGone(n, w)
  <2>1. /\ UNCHANGED <<session, object, pool, opened, triggerTimes, timers, leftTimers, setting>>
        /\ Finish(n, w) /\ net' \subseteq net
    BY <1>7 DEF GatewayAck, GatewayIgnore, RecvGone, nodeVars, timerVars, rareVars, netVars
  <2>2. Stays(n) BY <2>1, KeepStays DEF KeepSession
  <2> QED BY <1>4, <2>1, <2>2, FinishGoes, Nothing DEF Goes
<1>8. CASE Accept(n, w)
  <2>1. /\ NewSession(n, t.from) /\ t.type = "CONNECT_REQ"
        /\ timers' = timers /\ object' = object /\ triggerTimes' = triggerTimes
        /\ net' \subseteq net /\ setting' = setting
        /\ task' = [task EXCEPT ![n][w].pc = "accept", ![n][w].id = opened'[n]]
    BY <1>8 DEF Accept, Running, timerVars, netVars, rareVars
  <2>2. Starts(n) BY <1>2, <2>1 DEF Starts
  <2>3. /\ opened' = [opened EXCEPT ![n] = opened[n] + 1] /\ opened' \in [Nodes -> Nat]
        /\ session'[n].id = opened'[n] /\ session'[n].id # 0
        /\ session'[n].peer = t.from
    BY <2>1, NewOpened
  <2>4. opened'[n] \in Numbers
    BY <1>1, <2>1, <2>3, Bounds DEF NewSession, Numbers, IInv
  <2>5. PICK u \in Tasks : u = [t EXCEPT !.pc = "accept", !.id = opened'[n]]
    BY <1>1, <2>4 DEF Tasks
  <2>6. /\ u.id = opened'[n] /\ u.pc = "accept" /\ u.from = t.from /\ u.type = t.type
    BY <1>1, <2>5 DEF Tasks
  <2>7. Had(n, t.from) BY <1>1, <2>1 DEF SoundTask, AskTypes
  <2>8. t.from \in 1..opened'[Other(n)]
    <3>1. Other(n) # n /\ Other(n) \in Nodes BY OtherOf
    <3> QED BY <1>1, <2>3, <2>7, <3>1 DEF Had
  <2>9. SoundTask(n, u)'
    BY <2>3, <2>6, <2>8 DEF SoundTask, Had, SettingTypes
  <2>10. TaskGoes(n)
    <3>1. task \in [Nodes -> [Workers -> Tasks]] BY DEF IInv, Domains
    <3>2. task' = [task EXCEPT ![n][w] = u] BY <1>1, <2>1, <2>5, <3>1
    <3> QED BY <2>9, <3>2 DEF TaskGoes
  <2> QED BY <2>1, <2>2, <2>10, Nothing DEF Goes
<1>9. CASE AcceptFind(n, w)
  <2>1. /\ UNCHANGED <<session, object, pool, opened, triggerTimes, timers, leftTimers, setting>>
        /\ t.pc = "accept"
    BY <1>9 DEF AcceptFind, nodeVars, timerVars, rareVars
  <2>2. Stays(n) BY <2>1, KeepStays DEF KeepSession
  <2>3. CASE /\ Found(n, t.id) /\ SendNothing
             /\ task' = [task EXCEPT ![n][w].pc = "set", ![n][w].obj = session[n].obj]
    <3>1. session[n].obj \in 1..PoolSize /\ session[n].obj \in 0..PoolSize
      BY <1>1, <1>3, <2>3 DEF Found, Sessions
    <3>2. PICK u \in Tasks : u = [t EXCEPT !.pc = "set", !.obj = session[n].obj]
      BY <1>1, <3>1 DEF Tasks, SettingTypes
    <3>3. /\ u.id = t.id /\ u.pc = "set" /\ u.from = t.from /\ u.type = t.type
          /\ u.obj = session[n].obj
      BY <1>1, <3>2 DEF Tasks
    <3>4. SoundTask(n, u)'
      BY <1>1, <2>1, <2>3, <3>1, <3>3 DEF SoundTask, Had, SettingTypes, Found, Open
    <3>5. task' = [task EXCEPT ![n][w] = u]
      BY <1>1, <2>3, <3>2 DEF IInv, Domains
    <3> QED BY <2>1, <2>2, <2>3, <3>4, <3>5, Nothing DEF Goes, TaskGoes, SendNothing
  <2>4. CASE Finish(n, w) /\ Transmit({Packet(n, "CONNECT_RFS")})
    <3>1. SoundPacket(Packet(n, "CONNECT_RFS")) BY PacketIsSound DEF BaseTypes, AskTypes
    <3>2. PacketsGo BY <2>1, <2>4, <3>1, SendsSound
    <3> QED BY <1>4, <2>1, <2>2, <2>4, <3>2, FinishGoes, Nothing DEF Goes
  <2> QED BY <1>9, <2>3, <2>4 DEF AcceptFind
<1>10. ASSUME NEW s \in Statuses, NEW x \in 0..(TimeoutMod - 1), t.pc \in SettingTypes,
              SetStatus(n, w, s, x)
       PROVE  ObjectsGo(n)
  <2>1. t.obj \in 1..PoolSize BY <1>1, <1>10 DEF SoundTask
  <2>2. [status |-> s, timeouts |-> x] \in Objects BY DEF Objects
  <2> QED BY <1>10, <2>1, <2>2, ObjectSet DEF SetStatus
<1>11. ASSUME t.pc \in SettingTypes PROVE TimeoutsFound(n, w) \in 0..(TimeoutMod - 1)
  <2>1. t.obj \in 1..PoolSize BY <1>1, <1>11 DEF SoundTask
  <2>2. object[n][t.obj] \in Objects BY <2>1 DEF IInv, Domains
  <2> QED BY <2>2 DEF TimeoutsFound, Objects
<1>12. ASSUME NEW k \in {"probe", "examine"}, Watch(n, w, k)
       PROVE  timers' = timers \/ TimersGo(n)
  BY <1>12, AddGoes DEF Watch, Found, timerVars
<1>13. CASE AcceptSet(n, w)
  <2>1. /\ t.pc = "set" /\ SetStatus(n, w, CONNECT_COMPLETE, 0) /\ Watch(n, w, "examine")
        /\ Finish(n, w) /\ KeepSession /\ opened' = opened
        /\ triggerTimes' = triggerTimes /\ setting' = setting
    BY <1>13 DEF AcceptSet, rareVars
  <2>2. ObjectsGo(n) BY <1>1, <1>10, <2>1 DEF SettingTypes, Statuses
  <2>3. Stays(n) BY <1>12, <2>1, KeepStays
  <2> DEFINE p == [Packet(n, "CONNECT_ACK") EXCEPT !.from = t.id]
  <2>4. Transmit({p}) BY <1>13 DEF AcceptSet
  <2>5. SoundPacket(p)
    <3>0. t.id # 0 /\ t.id <= opened[n] /\ t.id \in Nat /\ opened[n] \in Nat
      BY <1>1, <1>2, <2>1 DEF SoundTask
    <3>1. t.id \in 1..opened[n] BY <3>0
    <3>2. Other(n) \in Nodes /\ Other(Other(n)) = n BY OtherOf
    <3>3. p = [to |-> Other(n), type |-> "CONNECT_ACK", from |-> t.id] BY DEF Packet
    <3>4. p \in Packets BY <1>2, <3>2, <3>3 DEF Packets, Types, BaseTypes
    <3> QED BY <3>1, <3>2, <3>3, <3>4 DEF SoundPacket, Had
  <2> HIDE DEF p
  <2>6. PacketsGo BY <2>1, <2>4, <2>5, SendsSound
  <2> QED BY <1>4, <2>1, <2>2, <2>3, <2>6, FinishGoes, Nothing DEF Goes
<1>14. CASE RecvAnswer(n, w)
  <2>1. /\ Open(n) /\ ResetTimeout(n) /\ Finish(n, w) /\ KeepSession /\ opened' = opened
        /\ timers' = timers /\ triggerTimes' = triggerTimes /\ setting' = setting
    BY <1>5, <1>14 DEF RecvAnswer, rareVars, timerVars
  <2> DEFINE ps == {Packet(n, a) : a \in Answer(t.type)}
  <2>2. Transmit(ps) BY <1>14 DEF RecvAnswer
  <2>3. \A a \in Answer(t.type) : a \in BaseTypes \cup KcpTypes
    BY DEF Answer, BaseTypes, KcpTypes
  <2>4. \A p \in ps : SoundPacket(p) BY <2>1, <2>3, PacketIsSound
  <2> HIDE DEF ps
  <2>5. PacketsGo BY <2>1, <2>2, <2>4, SendsSound
  <2>6. Stays(n) BY <2>1, KeepStays
  <2> QED BY <1>4, <2>1, <2>5, <2>6, TimeoutsGo, FinishGoes, Nothing DEF Goes
<1>15. CASE RecvPingAck(n, w) \/ RecvConnectAck(n, w)
  <2>1. /\ Found(n, t.id) /\ Open(n) /\ ResetTimeout(n) /\ KeepSession /\ opened' = opened
        /\ timers' = timers /\ triggerTimes' = triggerTimes /\ setting' = setting
        /\ net' \subseteq net
    BY <1>5, <1>15 DEF RecvPingAck, RecvConnectAck, rareVars, netVars, timerVars
  <2>2. PICK pc \in {"ping", "complete"} :
            /\ pc = "complete" => t.type = "CONNECT_ACK"
            /\ \/ task' = [task EXCEPT ![n][w] = Idle]
               \/ task' = [task EXCEPT ![n][w] = [@ EXCEPT !.pc = pc, !.obj = session[n].obj]]
    BY <1>15 DEF RecvPingAck, RecvConnectAck, Recv, Running
  <2>4. ASSUME task' = [task EXCEPT ![n][w] = [@ EXCEPT !.pc = pc, !.obj = session[n].obj]]
        PROVE  TaskGoes(n)
    <3>1. session[n].obj \in 1..PoolSize /\ session[n].obj \in 0..PoolSize
      BY <1>1, <1>3, <2>1 DEF Sessions
    <3>2. PICK u \in Tasks : u = [t EXCEPT !.pc = pc, !.obj = session[n].obj]
      BY <1>1, <3>1 DEF Tasks, SettingTypes
    <3>3. /\ u.id = t.id /\ u.pc = pc /\ u.from = t.from /\ u.type = t.type
          /\ u.obj = session[n].obj
      BY <1>1, <3>2 DEF Tasks
    <3>4. session'[n] = session[n] BY <2>1 DEF KeepSession
    <3>5. SoundTask(n, u)'
      BY <1>1, <2>1, <2>2, <3>1, <3>3, <3>4 DEF SoundTask, Had
    <3>6. task' = [task EXCEPT ![n][w] = u] BY <2>4, <3>2
    <3> QED BY <3>5, <3>6 DEF TaskGoes
  <2>5. Stays(n) BY <2>1, KeepStays
  <2>6. TaskGoes(n)
    <3>1. CASE task' = [task EXCEPT ![n][w] = Idle]
      BY <1>4, <2>1, <3>1, FinishGoes DEF Finish
    <3> QED BY <2>2, <2>4, <3>1
  <2> QED BY <2>1, <2>5, <2>6, TimeoutsGo, Nothing DEF Goes
<1>16. CASE CompletePing(n, w)
  <2>1. /\ t.pc = "ping" /\ SetStatus(n, w, PING_COMPLETE, TimeoutsFound(n, w))
        /\ Finish(n, w) /\ KeepSession /\ opened' = opened /\ timers' = timers
        /\ triggerTimes' = triggerTimes /\ setting' = setting /\ net' \subseteq net
    BY <1>16 DEF CompletePing, rareVars, netVars, timerVars
  <2>2. ObjectsGo(n) BY <1>10, <1>11, <2>1 DEF SettingTypes, Statuses
  <2>3. Stays(n) BY <2>1, KeepStays
  <2> QED BY <1>4, <2>1, <2>2, <2>3, FinishGoes, Nothing DEF Goes
<1>17. CASE CompleteConnect(n, w)
  <2>1. /\ t.pc = "complete" /\ SetStatus(n, w, CONNECT_COMPLETE, TimeoutsFound(n, w))
        /\ Watch(n, w, "probe") /\ Meet(n, w) /\ Finish(n, w)
        /\ pool' = pool /\ opened' = opened /\ leftTimers' = leftTimers
        /\ triggerTimes' = triggerTimes /\ setting' = setting /\ net' \subseteq net
    BY <1>17 DEF CompleteConnect, rareVars, netVars
  <2>2. ObjectsGo(n) BY <1>10, <1>11, <2>1 DEF SettingTypes, Statuses
  <2>3. Had(n, t.from) BY <1>1, <2>1 DEF SoundTask, AskTypes
  <2>4. \/ session' = session
        \/ session' = [session EXCEPT ![n].peer = t.from]
    <3>1. CASE Found(n, t.id) BY <2>1, <3>1 DEF Meet
    <3>2. CASE ~Found(n, t.id)
      <4>1. session' = [session EXCEPT ![n].peer = session[n].peer] BY <2>1, <3>2 DEF Meet
      <4>2. [session[n] EXCEPT !.peer = session[n].peer] = session[n]
        BY <1>1 DEF Sessions
      <4> QED BY <1>1, <4>1, <4>2
    <3> QED BY <3>1, <3>2
  <2>5. timers' = timers \/ TimersGo(n) BY <1>12, <2>1
  <2>6. Stays(n) BY <1>2, <2>1, <2>3, <2>4, <2>5 DEF Stays, LeftGo, TimersGo
  <2> QED BY <1>4, <2>1, <2>2, <2>6, FinishGoes, Nothing DEF Goes
<1>18. CASE RecvDisconnect(n, w)
  <2>1. /\ Open(n) /\ ResetTimeout(n) /\ CloseSession(n, "none") /\ Finish(n, w)
        /\ opened' = opened /\ triggerTimes' = triggerTimes /\ setting' = setting
        /\ net' \subseteq net
    BY <1>5, <1>18 DEF RecvDisconnect, rareVars, netVars
  <2>2. Ends(n) BY <2>1, CloseGoes
  <2> QED BY <1>4, <2>1, <2>2, TimeoutsGo, FinishGoes, Nothing DEF Goes
<1>19. CASE PingHelp(n, w) \/ HelpAck(n, w) \/ HelpRfs(n, w)
  <2>1. /\ Finish(n, w) /\ object' = object /\ triggerTimes' = triggerTimes
        /\ setting' = setting /\ net' \subseteq net
    BY <1>19 DEF PingHelp, HelpAck, HelpRfs, rareVars, netVars
  <2>2. (Stays(n) \/ Starts(n) \/ Ends(n)) /\ opened' \in [Nodes -> Nat]
    <3>1. CASE PingHelp(n, w)
      <4>1. CASE KeepSession /\ UNCHANGED <<opened, timerVars>>
        BY <1>4, <4>1, KeepStays DEF timerVars
      <4>2. CASE NewSession(n, 0) /\ AddTimer(n, "ping")
        BY <1>1, <4>2, StartGoes, NewOpened, KindsOfTimers
      <4> QED BY <3>1, <4>1, <4>2 DEF PingHelp
    <3>2. CASE HelpAck(n, w) BY <3>2, PeerTimerGoes DEF HelpAck
    <3>3. CASE HelpRfs(n, w)
      <4>1. opened' = opened BY <3>3 DEF HelpRfs
      <4>2. CASE Open(n) /\ CloseSession(n, "none") BY <1>4, <4>1, <4>2, CloseGoes
      <4>3. CASE UNCHANGED timerVars /\ KeepSession
        BY <1>4, <4>1, <4>3, KeepStays DEF timerVars
      <4> QED BY <3>3, <4>2, <4>3 DEF HelpRfs
    <3> QED BY <1>19, <3>1, <3>2, <3>3
  <2> QED BY <2>1, <2>2, FinishGoes, Nothing DEF Goes
<1> QED BY <1>6, <1>7, <1>8, <1>9, <1>13, <1>14, <1>15, <1>16, <1>17, <1>18, <1>19 DEF Handle

LEMMA ReceiveGoes ==
    ASSUME IInv, NEW w \in Workers, NEW p \in net, Receive(w, p)
    PROVE  p.to \in Nodes /\ Goes(p.to)
<1> DEFINE n == p.to
           u == [pc |-> "run", type |-> p.type, from |-> p.from, id |-> session[n].id, obj |-> 0]
<1>1. p \in Packets /\ n \in Nodes /\ (p.type \in AskTypes => Had(n, p.from))
  BY DEF IInv, SoundPacket, Packets
<1>2. /\ UNCHANGED <<session, object, pool, opened, triggerTimes, timers, leftTimers, setting>>
      /\ net' \subseteq net /\ task' = [task EXCEPT ![n][w] = u]
  BY DEF Receive, nodeVars, timerVars, rareVars
<1>3. session[n] \in Sessions /\ session[n].id <= opened[n]
  BY <1>1 DEF IInv, Domains, NodeInv, SessionInv
<1>4. u \in Tasks
  <2>1. 0 \in 0..PoolSize BY Bounds DEF IInv
  <2> QED BY <1>1, <1>3, <2>1 DEF Tasks, Packets, Sessions
<1>5. SoundTask(n, u)
  BY <1>1, <1>3 DEF SoundTask, SettingTypes
<1>6. Stays(n) BY <1>1, <1>2, KeepStays DEF KeepSession
<1>7. TaskGoes(n)
  <2>1. PICK v \in Tasks : v = u BY <1>4
  <2>2. SoundTask(n, v)' BY <1>2, <1>5, <2>1 DEF SoundTask, Had, Found, Open
  <2> QED BY <1>2, <2>1, <2>2 DEF TaskGoes
<1> QED BY <1>1, <1>2, <1>6, <1>7, Nothing DEF Goes

-----------------------------------------------------------------------------
(* The invariant.                                                            *)

\* A node that starts again has nothing but the number of its sessions.
LEMMA RestartKeeps ==
    ASSUME IInv, NEW n \in Nodes, Restart(n)
    PROVE  IInv'
<1> DEFINE S == 1..PoolSize
           objects == [o \in S |-> FreshObject]
           whole == [i \in S |-> i]
           tasks == [w \in Workers |-> Idle]
           zeros == [k \in ConnectKinds |-> 0]
           left == [k \in EagerKinds |-> 0]
<1>1. /\ session' = [session EXCEPT ![n] = NoSession] /\ object' = [object EXCEPT ![n] = objects]
      /\ pool' = [pool EXCEPT ![n] = whole] /\ triggerTimes' = [triggerTimes EXCEPT ![n] = zeros]
      /\ timers' = [timers EXCEPT ![n] = NoTimers]
      /\ leftTimers' = [leftTimers EXCEPT ![n] = left]
      /\ task' = [task EXCEPT ![n] = tasks]
      /\ opened' = opened /\ net' = net /\ setting' = setting
  BY DEF Restart, netVars
<1>2. /\ Numbers \subseteq Nat /\ 0 \in Numbers /\ TimeoutMod \in Nat \ {0}
      /\ PoolSize \in Nat \ {0} /\ MaxTimers \in Nat \ {0}
      /\ \A k \in ConnectKinds : Limit(k) \in Nat
      /\ opened \in [Nodes -> Numbers] /\ opened[n] \in Nat
  BY Bounds DEF IInv, Domains
<1>3. /\ Numbers' = Numbers /\ Sessions' = Sessions /\ Tasks' = Tasks /\ MaxTimers' = MaxTimers
      /\ Packets' = Packets /\ \A k \in ConnectKinds : Limit(k)' = Limit(k)
  BY <1>1 DEF Numbers, Sessions, Tasks, Packets, MaxTimers, Limit, CONNECT_TIMEOUT_COUNT
<1>4. objects \in [S -> Objects]
  BY <1>2 DEF Objects, Statuses, FreshObject
<1>5. whole \in Seq(S) /\ DOMAIN whole = S /\ \A i \in S : whole[i] = i
  <2>1. whole \in [1..PoolSize -> S] BY DEF S
  <2>2. whole \in Seq(S) BY <1>2, <2>1, SeqDef
  <2> QED BY <2>2
<1>6. /\ NoSession \in Sessions /\ Idle \in Tasks /\ tasks \in [Workers -> Tasks]
      /\ NoTimers \in [TimerKinds -> 0..MaxTimers]
      /\ zeros \in [ConnectKinds -> Nat] /\ left \in [EagerKinds -> Nat]
  BY <1>2 DEF NoSession, Sessions, Idle, Tasks, NoTimers
<1>7. /\ \A k \in ConnectKinds : zeros[k] = 0
      /\ \A k \in EagerKinds : left[k] = 0
      /\ \A k \in TimerKinds : NoTimers[k] = 0
      /\ \A w \in Workers : tasks[w] = Idle
  BY DEF NoTimers
<1> HIDE DEF objects, whole, tasks, zeros, left, S
<1>8. Domains'
  BY <1>1, <1>3, <1>4, <1>5, <1>6 DEF IInv, Domains, S
<1>9. \A p \in net' : SoundPacket(p)'
  BY <1>1, <1>3 DEF IInv, SoundPacket, Had
<1>10. /\ session'[n] = NoSession /\ pool'[n] = whole /\ triggerTimes'[n] = zeros
       /\ timers'[n] = NoTimers /\ leftTimers'[n] = left /\ task'[n] = tasks
  BY <1>1 DEF IInv, Domains
<1>11. NodeInv(n)'
  <2>1. SessionInv(n)' BY <1>1, <1>2, <1>10 DEF SessionInv, Open, NoSession
  <2>2. PoolInv(n)'
    <3>1. ~Open(n)' BY <1>10 DEF Open, NoSession
    <3>2. {whole[i] : i \in S} = S BY <1>5
    <3> QED BY <1>5, <1>10, <3>1, <3>2 DEF PoolInv, S
  <2>3. CountsInv(n)'
    <3>1. \A k \in ConnectKinds : triggerTimes'[n][k] \in 0..(Limit(k)' + 1)
      BY <1>2, <1>3, <1>7, <1>10
    <3>2. \A k \in EagerKinds : leftTimers'[n][k] + timers'[n][k] <= opened'[n]
      BY <1>1, <1>2, <1>7, <1>10, KindsOfTimers
    <3>3. timers'[n]["relay"] + timers'[n]["check"] <= 1 BY <1>7, <1>10, KindsOfTimers
    <3> QED BY <3>1, <3>2, <3>3 DEF CountsInv
  <2>4. TaskInv(n)'
    <3>1. SoundTask(n, Idle)' BY <1>1, <1>2 DEF SoundTask, Idle, AskTypes, SettingTypes
    <3>2. \A w \in Workers : task'[n][w] = Idle BY <1>7, <1>10
    <3> QED BY <3>1, <3>2 DEF TaskInv
  <2> QED BY <2>1, <2>2, <2>3, <2>4 DEF NodeInv
<1>12. ASSUME NEW m \in Nodes \ {n} PROVE NodeInv(m)'
  <2>1. /\ session'[m] = session[m] /\ pool'[m] = pool[m] /\ triggerTimes'[m] = triggerTimes[m]
        /\ timers'[m] = timers[m] /\ leftTimers'[m] = leftTimers[m] /\ task'[m] = task[m]
    BY <1>1 DEF IInv, Domains
  <2>2. SessionInv(m) /\ PoolInv(m) /\ CountsInv(m) /\ TaskInv(m) BY DEF IInv, NodeInv
  <2>3. SessionInv(m)' /\ PoolInv(m)' /\ CountsInv(m)'
    BY <1>1, <1>3, <2>1, <2>2 DEF SessionInv, PoolInv, CountsInv, Open
  <2>4. TaskInv(m)'
    BY <1>1, <2>1, <2>2 DEF TaskInv, SoundTask, Had, Found, Open
  <2> QED BY <2>3, <2>4 DEF NodeInv
<1> QED BY <1>8, <1>9, <1>11, <1>12 DEF IInv

LEMMA InitInv == Init => IInv
<1> SUFFICES ASSUME Init PROVE IInv OBVIOUS
<1>1. setting \in Settings BY DEF Init
<1>2. /\ setting.maxSessions \in Nat /\ MaxTimers \in Nat \ {0} /\ CONNECT_TIMEOUT_COUNT \in Nat
      /\ PING_TIMEOUT_COUNT \in Nat /\ PoolSize \in Nat \ {0} /\ TimeoutMod \in Nat \ {0}
  BY <1>1, HandshakeAssumption DEF MaxTimers, CONNECT_TIMEOUT_COUNT
<1>3. 0 \in Numbers /\ \A k \in ConnectKinds : Limit(k) \in Nat BY <1>2 DEF Numbers, Limit
<1> DEFINE S == 1..PoolSize
           whole == [i \in S |-> i]
<1>4. whole \in Seq(S) /\ DOMAIN whole = S /\ \A i \in S : whole[i] = i
  <2>1. whole \in [1..PoolSize -> S] BY DEF S
  <2>2. whole \in Seq(S) BY <1>2, <2>1, SeqDef
  <2> QED BY <2>2
<1> HIDE DEF whole, S
<1>5. pool = [m \in Nodes |-> whole] BY DEF Init, whole, S
<1>6. NoSession \in Sessions /\ Idle \in Tasks /\ NoTimers \in [TimerKinds -> 0..MaxTimers]
      /\ FreshObject \in Objects
  BY <1>2, <1>3 DEF NoSession, Sessions, Idle, Tasks, NoTimers, FreshObject, Objects, Statuses
<1>7. Domains BY <1>1, <1>3, <1>4, <1>5, <1>6 DEF Init, Domains, S
<1>8. ASSUME NEW n \in Nodes PROVE NodeInv(n)
  <2>1. /\ session[n] = NoSession /\ pool[n] = whole /\ opened[n] = 0 /\ timers[n] = NoTimers
        /\ \A k \in ConnectKinds : triggerTimes[n][k] = 0
        /\ \A k \in EagerKinds : leftTimers[n][k] = 0
        /\ \A w \in Workers : task[n][w] = Idle
    BY <1>5 DEF Init
  <2>2. SessionInv(n) BY <2>1 DEF SessionInv, Open, NoSession
  <2>3. PoolInv(n)
    <3>1. ~Open(n) BY <2>1 DEF Open, NoSession
    <3>2. {whole[i] : i \in S} = S BY <1>4
    <3> QED BY <1>4, <2>1, <3>1, <3>2 DEF PoolInv, S
  <2>4. CountsInv(n) BY <1>3, <2>1, KindsOfTimers DEF CountsInv, NoTimers
  <2>5. TaskInv(n)
    BY <2>1 DEF TaskInv, SoundTask, Idle, AskTypes, SettingTypes
  <2> QED BY <2>2, <2>3, <2>4, <2>5 DEF NodeInv
<1>9. net = {} BY DEF Init
<1> QED BY <1>7, <1>8, <1>9 DEF IInv

LEMMA NextInv == IInv /\ [Next]_vars => IInv'
<1> SUFFICES ASSUME IInv, [Next]_vars PROVE IInv' OBVIOUS
<1>1. CASE UNCHANGED vars
  <2>1. UNCHANGED <<session, object, pool, opened, triggerTimes, timers, leftTimers, task,
                    net, setting>>
    BY <1>1 DEF vars, nodeVars, timerVars, netVars, rareVars
  <2>2. Domains' BY <2>1 DEF IInv, Domains, Sessions, Numbers, Tasks, MaxTimers
  <2>3. \A p \in net' : SoundPacket(p)' BY <2>1 DEF IInv, SoundPacket, Packets, Numbers, Had
  <2>4. ASSUME NEW n \in Nodes PROVE NodeInv(n)'
    <3>1. SessionInv(n)' /\ PoolInv(n)' /\ CountsInv(n)'
      BY <2>1 DEF IInv, NodeInv, SessionInv, PoolInv, CountsInv, Open, Limit,
                  CONNECT_TIMEOUT_COUNT
    <3>2. TaskInv(n)' BY <2>1 DEF IInv, NodeInv, TaskInv, SoundTask, Had, Found, Open
    <3> QED BY <3>1, <3>2 DEF NodeInv
  <2> QED BY <2>2, <2>3, <2>4 DEF IInv
<1>2. ASSUME NEW n \in Nodes, Restart(n) PROVE IInv' BY <1>2, RestartKeeps
<1>3. ASSUME NEW n \in Nodes, Application(n) PROVE IInv' BY <1>3, ApplicationGoes, GoesOn
<1>4. ASSUME NEW n \in Nodes, Timer(n) PROVE IInv' BY <1>4, TimerGoes, GoesOn
<1>5. ASSUME NEW n \in Nodes, NEW w \in Workers, Handle(n, w) PROVE IInv'
  BY <1>5, HandlerGoes, GoesOn
<1>6. ASSUME NEW w \in Workers, NEW p \in net, Receive(w, p) PROVE IInv'
  BY <1>6, ReceiveGoes, GoesOn
<1> QED BY <1>1, <1>2, <1>3, <1>4, <1>5, <1>6 DEF Next

LEMMA Invariant == Spec => []IInv
  BY InitInv, NextInv, PTL DEF Spec

\* Everything stays within its bounds, whatever these are: what the code counts
\* modulo 256 and up to the limits of its timers, and the ten objects, of which
\* new_session() and disconnect() never have one twice.
THEOREM HandshakeTypes == Spec => []TypeOK
<1>1. IInv => TypeOK
  <2> SUFFICES ASSUME IInv PROVE TypeOK OBVIOUS
  <2>1. Domains /\ \A n \in Nodes : SessionInv(n) /\ PoolInv(n) /\ CountsInv(n)
    BY DEF IInv, NodeInv
  <2>2. /\ session \in [Nodes -> [id : 0..setting.maxSessions, obj : 0..PoolSize,
                                  peer : 0..setting.maxSessions]]
        /\ object \in [Nodes -> [1..PoolSize ->
               [status : {DISCONNECT, PING_COMPLETE, CONNECT_COMPLETE},
                timeouts : 0..(TimeoutMod - 1)]]]
        /\ timers \in [Nodes -> [TimerKinds -> 0..MaxTimers]]
    BY <2>1 DEF Domains, Sessions, Numbers, Objects, Statuses
  <2>3. ASSUME NEW n \in Nodes
        PROVE  /\ pool[n] \in Seq(1..PoolSize)
               /\ {pool[n][i] : i \in DOMAIN pool[n]} =
                      1..PoolSize \ (IF Open(n) THEN {session[n].obj} ELSE {})
               /\ \A i, j \in DOMAIN pool[n] : pool[n][i] = pool[n][j] => i = j
               /\ \A k \in ConnectKinds : triggerTimes[n][k] \in 0..(Limit(k) + 1)
    BY <2>1 DEF Domains, PoolInv, CountsInv
  <2>4. leftTimers \in [Nodes -> [EagerKinds -> 0..setting.maxSessions]]
    <3>1. ASSUME NEW n \in Nodes, NEW k \in EagerKinds
          PROVE  leftTimers[n][k] \in 0..setting.maxSessions
      <4>1. /\ leftTimers[n][k] \in Nat /\ timers[n][k] \in Nat
            /\ leftTimers[n][k] + timers[n][k] <= opened[n]
        <5>1. k \in TimerKinds /\ MaxTimers \in Nat BY <2>1, Bounds, KindsOfTimers
        <5>2. leftTimers[n][k] \in Nat /\ timers[n][k] \in 0..MaxTimers BY <2>1, <5>1 DEF Domains
        <5> QED BY <2>1, <5>1, <5>2 DEF CountsInv
      <4>2. opened[n] \in Nat /\ opened[n] <= setting.maxSessions /\ setting.maxSessions \in Nat
        BY <2>1, Bounds DEF Domains, Numbers
      <4> QED BY <4>1, <4>2
    <3> QED BY <2>1, <3>1 DEF Domains
  <2>5. net \subseteq [to : Nodes, type : BaseTypes \cup KcpTypes \cup RelayTypes,
                       from : 0..setting.maxSessions]
    BY DEF IInv, SoundPacket, Packets, Types, Numbers
  <2> QED BY <2>2, <2>3, <2>4, <2>5 DEF TypeOK
<1> QED BY <1>1, Invariant, PTL

-----------------------------------------------------------------------------
(* What becomes of a session.                                                *)

Heartbeats == {"probe", "examine"}
Connecting == ConnectKinds \cup {"check"}

\* The part of ConnectsWithPeer that is about n.
PeerOnlyBy(n) == HasPeer(n) => HasPeer(n)' \/ SetForAnother(n) \/ OpenedConnected(n)
Keeps(n) == LeftAloneOnlyBy(n) /\ PeerOnlyBy(n)

LEMMA EndsKeeps ==
    ASSUME IInv, NEW n \in Nodes, Ends(n)
    PROVE  Keeps(n)
<1>1. ~Open(n)'
  BY DEF Ends, CloseSession, Open, NoSession, IInv, Domains
<1> QED BY <1>1 DEF Keeps, LeftAloneOnlyBy, PeerOnlyBy, Attended, HasPeer, Connected

\* A new session comes with a timer that connects it, or a task that accepts it,
\* and if its object says that it is connected, that is not its own doing.
LEMMA StartsKeeps ==
    ASSUME IInv, NEW n \in Nodes, NEW from \in Numbers, NewSession(n, from), object' = object,
           Accepting(n)' \/ \E k \in ConnectKinds : AddTimer(n, k)
    PROVE  Keeps(n)
<1>1. ~Open(n) /\ Open(n)' /\ session'[n].id # session[n].id
  BY NewOpened DEF NewSession, Open
<1>2. Connected(n)' => OpenedConnected(n)
  BY <1>1 DEF Connected, OpenedConnected, Status
<1>3. ~Connected(n)' => Attended(n)' \/ TimerRefused
  <2>1. CASE Accepting(n)' BY <2>1 DEF Attended
  <2>2. ASSUME NEW k \in ConnectKinds, AddTimer(n, k), ~TimerRefused
        PROVE  Runs(n, Connecting)'
    <3>1. k \in TimerKinds /\ timers \in [Nodes -> [TimerKinds -> 0..MaxTimers]]
          /\ MaxTimers \in Nat
      BY KindsOfTimers, Bounds DEF IInv, Domains
    <3>2. timers' = [timers EXCEPT ![n][k] = @ + 1]
      BY <2>2 DEF AddTimer, TimerRefused
    <3> QED BY <3>1, <3>2 DEF Runs, Connecting
  <2> QED BY <2>1, <2>2 DEF Attended, Connecting
<1> QED BY <1>2, <1>3 DEF Keeps, LeftAloneOnlyBy, PeerOnlyBy, HasPeer

\* The session and its status stay: all depends on the timers and on the tasks.
LEMMA StaysKeeps ==
    ASSUME IInv, NEW n \in Nodes, Goes(n), Stays(n),
           Open(n) => object'[n][session[n].obj].status = object[n][session[n].obj].status,
           Connected(n) /\ Runs(n, Heartbeats) => Runs(n, Heartbeats)',
           ~Connected(n) /\ Runs(n, Connecting) =>
               Runs(n, Connecting)' \/ LeftOpen(n) \/ TimerRefused,
           Open(n) /\ Accepting(n) => Accepting(n)'
    PROVE  Keeps(n)
<1>1. session \in [Nodes -> Sessions] /\ Numbers \subseteq Nat
  BY Bounds DEF IInv, Domains
<1>2. session'[n].id = session[n].id /\ session'[n].obj = session[n].obj
  BY <1>1 DEF Stays, Sessions
<1>3. (Open(n)' <=> Open(n)) /\ (Connected(n)' <=> Connected(n))
  BY <1>2 DEF Open, Connected, Status
<1>4. LeftAloneOnlyBy(n)
  BY <1>3 DEF LeftAloneOnlyBy, Attended, Heartbeats, Connecting
<1>5. HasPeer(n) => HasPeer(n)'
  <2>1. PICK id \in Nat : session'[n].peer = id /\ (id = session[n].peer \/ Had(n, id))
    BY <1>1 DEF Stays, Sessions
  <2>2. Had(n, id) => Had(n, id)' BY HadStep
  <2> QED BY <1>3, <2>1, <2>2 DEF HasPeer, Had
<1> QED BY <1>4, <1>5 DEF Keeps, PeerOnlyBy

\* Timers of other kinds than the one that ends, and all when one is added.
LEMMA OtherTimers ==
    ASSUME IInv, NEW n \in Nodes, NEW k \in TimerKinds, NEW kinds \in SUBSET (TimerKinds \ {k}),
           timers' = [timers EXCEPT ![n][k] = @ - 1], Runs(n, kinds)
    PROVE  Runs(n, kinds)'
  BY DEF IInv, Domains, Runs

LEMMA MoreTimers ==
    ASSUME IInv, NEW n \in Nodes, NEW k \in TimerKinds, NEW kinds \in SUBSET TimerKinds,
           AddTimer(n, k), Runs(n, kinds)
    PROVE  Runs(n, kinds)'
<1>1. timers \in [Nodes -> [TimerKinds -> 0..MaxTimers]] /\ MaxTimers \in Nat
  BY Bounds DEF IInv, Domains
<1>2. CASE timers' = timers BY <1>2 DEF Runs
<1>3. CASE timers' = [timers EXCEPT ![n][k] = @ + 1]
  <2>1. \A j \in TimerKinds : timers[n][j] > 0 => timers'[n][j] > 0 BY <1>1, <1>3
  <2> QED BY <2>1 DEF Runs
<1> QED BY <1>2, <1>3 DEF AddTimer

\* A task other than the one that is accepting.
LEMMA AcceptingStays ==
    ASSUME IInv, NEW n \in Nodes, NEW w \in Workers, NEW u,
           task' = task \/ task' = [task EXCEPT ![n][w] = u],
           session'[n].id = session[n].id,
           task[n][w].pc \in {"accept", "set"} => task[n][w].id # session[n].id,
           Accepting(n)
    PROVE  Accepting(n)'
<1>1. task \in [Nodes -> [Workers -> Tasks]] BY DEF IInv, Domains
<1>2. PICK v \in Workers : task[n][v].pc \in {"accept", "set"} /\ task[n][v].id = session[n].id
  BY DEF Accepting
<1>3. task'[n][v] = task[n][v] BY <1>1, <1>2
<1> QED BY <1>2, <1>3 DEF Accepting

LEMMA KindsSplit ==
    /\ Heartbeats \subseteq TimerKinds /\ Connecting \subseteq TimerKinds
    /\ Heartbeats \cap Connecting = {}
  BY KindsOfTimers DEF Heartbeats, Connecting

\* Nobody but n sets the status of its objects, starts its timers or its tasks.
LEMMA OtherKeeps ==
    ASSUME IInv, NEW n \in Nodes, NEW m \in Nodes \ {n}, Goes(m) \/ Restart(m)
    PROVE  Keeps(n)
<1>1. /\ session'[n] = session[n] /\ timers'[n] = timers[n] /\ task'[n] = task[n]
      /\ object'[n] = object[n] /\ opened[Other(n)] <= opened'[Other(n)]
      /\ opened[Other(n)] \in Nat /\ opened'[Other(n)] \in Nat
  <2>1. CASE Goes(m)
    <3>1. opened' \in [Nodes -> Nat] /\ opened \in [Nodes -> Nat]
      BY <2>1, Bounds, DomainsStep DEF IInv, Domains
    <3> QED BY <2>1, <3>1, DomainsStep, CountsStep, TasksStep, OtherOf DEF Goes, ObjectsGo
  <2>2. CASE Restart(m)
    <3>1. opened' = opened /\ opened \in [Nodes -> Nat]
      BY <2>2, OpenedStays DEF Restart
    <3> QED BY <2>2, <3>1, OtherOf DEF Restart, IInv, Domains
  <2> QED BY <2>1, <2>2
<1>2. (Open(n)' <=> Open(n)) /\ (Connected(n)' <=> Connected(n))
  BY <1>1 DEF Open, Connected, Status
<1>3. Attended(n) => Attended(n)'
  BY <1>1, <1>2 DEF Attended, Runs, Accepting
<1>4. HasPeer(n) => HasPeer(n)' BY <1>1, <1>2 DEF HasPeer
<1> QED BY <1>3, <1>4 DEF Keeps, LeftAloneOnlyBy, PeerOnlyBy

LEMMA RestartKeepsOwn ==
    ASSUME IInv, NEW n \in Nodes, Restart(n)
    PROVE  Keeps(n)
<1>1. ~Open(n)' BY DEF Restart, Open, NoSession, IInv, Domains
<1> QED BY <1>1 DEF Keeps, LeftAloneOnlyBy, PeerOnlyBy, Attended, HasPeer, Connected

LEMMA ApplicationKeeps ==
    ASSUME IInv, NEW n \in Nodes, Application(n)
    PROVE  Keeps(n)
<1>1. Goes(n) BY ApplicationGoes
<1>2. 0 \in Numbers BY Bounds DEF IInv
<1>3. object' = object /\ task' = task
  BY DEF Application, ConnectTracker, ConnectPeer, ConnectByRelay
<1>4. ASSUME NEW k \in ConnectKinds, NewSession(n, 0), AddTimer(n, k) PROVE Keeps(n)
  BY <1>2, <1>3, <1>4, StartsKeeps
<1>5. ASSUME KeepSession, opened' = opened, timers' = timers \/ AddTimer(n, "peer"), Open(n)
      PROVE  Keeps(n)
  <2>1. timers' = timers \/ TimersGo(n) BY <1>5, AddGoes
  <2>2. Stays(n) BY <1>5, <2>1, KeepStays
  <2>3. \A kinds \in SUBSET TimerKinds : Runs(n, kinds) => Runs(n, kinds)'
    <3>1. CASE timers' = timers BY <3>1 DEF Runs
    <3>2. CASE AddTimer(n, "peer") BY <3>2, MoreTimers, KindsOfTimers
    <3> QED BY <1>5, <3>1, <3>2
  <2>4. Accepting(n) => Accepting(n)' BY <1>3, <1>5 DEF Accepting, KeepSession
  <2> QED BY <1>1, <1>3, <2>2, <2>3, <2>4, StaysKeeps, KindsSplit
<1>6. ASSUME KeepSession, ~Open(n) PROVE Keeps(n)
  <2>1. ~Open(n)' BY <1>6 DEF KeepSession, Open
  <2> QED BY <2>1 DEF Keeps, LeftAloneOnlyBy, PeerOnlyBy, Attended, HasPeer, Connected
<1>7. CASE ConnectTracker(n)
  <2>1. CASE NewSession(n, 0) /\ AddTimer(n, "tracker") BY <1>4, <2>1, KindsOfTimers
  <2>2. CASE UNCHANGED <<opened, timerVars>> /\ KeepSession
    BY <1>5, <1>6, <2>2 DEF timerVars
  <2> QED BY <1>7, <2>1, <2>2 DEF ConnectTracker
<1>8. CASE ConnectPeer(n)
  BY <1>4, <1>5, <1>8, KindsOfTimers DEF ConnectPeer, PeerTimer
<1>9. CASE ConnectByRelay(n)
  BY <1>4, <1>9, KindsOfTimers DEF ConnectByRelay
<1> QED BY <1>7, <1>8, <1>9 DEF Application

\* A timer that connects ends when its session is connected, and a heartbeat when it
\* is not, or with the session.
LEMMA TimerKeeps ==
    ASSUME IInv, NEW n \in Nodes, Timer(n)
    PROVE  Keeps(n)
<1>1. Goes(n) BY TimerGoes
<1>2. task' = task /\ opened' = opened
  BY DEF Timer, TryConnectTracker, TryConnectPeer, TryConnectPeerRelay, TryPingPeer,
         CheckConnectPeerStatus, CountAndEnd, HeartbeatProbe, HeartbeatExamine
<1>3. \A k \in TimerKinds : timers[n][k] > 0 => Open(n) BY TimersOfSessions
<1>4. timers \in [Nodes -> [TimerKinds -> 0..MaxTimers]] /\ MaxTimers \in Nat
  BY Bounds DEF IInv, Domains
<1>5. ASSUME NEW k \in TimerKinds, timers[n][k] > 0, CloseSession(n, k) PROVE Keeps(n)
  <2>1. Ends(n) BY <1>2, <1>3, <1>5, CloseGoes
  <2> QED BY <2>1, EndsKeeps
<1>6. ASSUME KeepSession, TimersGo(n),
             Open(n) => object'[n][session[n].obj].status = object[n][session[n].obj].status,
             Connected(n) /\ Runs(n, Heartbeats) => Runs(n, Heartbeats)',
             ~Connected(n) /\ Runs(n, Connecting) =>
                 Runs(n, Connecting)' \/ LeftOpen(n) \/ TimerRefused
      PROVE  Keeps(n)
  <2>1. Stays(n) BY <1>2, <1>6, KeepStays
  <2>2. Accepting(n) => Accepting(n)' BY <1>2, <1>6 DEF Accepting, KeepSession
  <2> QED BY <1>1, <1>6, <2>1, <2>2, StaysKeeps
<1>7. ASSUME KeepSession, timers' = timers,
             Open(n) => object'[n][session[n].obj].status = object[n][session[n].obj].status
      PROVE  Keeps(n)
  BY <1>6, <1>7 DEF TimersGo, Runs
<1>8. ASSUME NEW k \in TimerKinds, timers[n][k] > 0,
             timers' = [timers EXCEPT ![n][k] = @ - 1], KeepSession,
             object'[n][session[n].obj].status = object[n][session[n].obj].status,
             k \in Connecting => Connected(n) \/ LeftOpen(n) \/ TimerRefused,
             k \in Heartbeats => ~Connected(n)
      PROVE  Keeps(n)
  <2>1. TimersGo(n) BY <1>8 DEF TimersGo
  <2>2. k \notin Heartbeats /\ Runs(n, Heartbeats) => Runs(n, Heartbeats)'
    <3>1. k \notin Heartbeats => Heartbeats \in SUBSET (TimerKinds \ {k}) BY KindsSplit
    <3> QED BY <1>8, <3>1, OtherTimers
  <2>3. k \notin Connecting /\ Runs(n, Connecting) => Runs(n, Connecting)'
    <3>1. k \notin Connecting => Connecting \in SUBSET (TimerKinds \ {k}) BY KindsSplit
    <3> QED BY <1>8, <3>1, OtherTimers
  <2> QED BY <1>6, <1>8, <2>1, <2>2, <2>3
<1>9. ASSUME NEW k \in ConnectKinds, timers[n][k] > 0, Try(n, k), KeepSession, object' = object
      PROVE  Keeps(n)
  <2>1. k \in TimerKinds BY KindsOfTimers
  <2>2. CASE timers' = timers BY <1>7, <1>9, <2>2
  <2>3. CASE Status(n) = CONNECT_COMPLETE /\ EndTimer(n, k)
    <3>1. Connected(n) BY <1>3, <1>9, <2>1, <2>3 DEF Connected
    <3>2. k \notin Heartbeats BY KindsOfTimers DEF Heartbeats
    <3> QED BY <1>8, <1>9, <2>1, <2>3, <3>1, <3>2 DEF EndTimer
  <2> QED BY <1>9, <2>2, <2>3 DEF Try, timerVars
<1>10. CASE TryConnectTracker(n)
  BY <1>5, <1>9, <1>10, KindsOfTimers DEF TryConnectTracker
<1>11. CASE TryConnectPeer(n)
  BY <1>5, <1>9, <1>11, KindsOfTimers DEF TryConnectPeer
<1>12. ASSUME NEW k \in {"relay", "ping"}, timers[n][k] > 0, EndTimer(n, k), KeepSession,
              object' = object
       PROVE  Keeps(n)
  <2>1. k \in TimerKinds /\ k \notin Heartbeats BY KindsOfTimers DEF Heartbeats
  <2>2. timers'[n][k] < timers[n][k] BY <1>4, <1>12, <2>1 DEF EndTimer
  <2>3. Connected(n) \/ LeftOpen(n) BY <2>2 DEF LeftOpen
  <2> QED BY <1>8, <1>12, <2>1, <2>3 DEF EndTimer
<1>13. CASE TryConnectPeerRelay(n)
  <2>1. timers[n]["relay"] > 0 /\ KeepSession /\ object' = object /\ "relay" \in TimerKinds
    BY <1>13, KindsOfTimers DEF TryConnectPeerRelay
  <2>2. CASE EndTimer(n, "relay") BY <1>12, <2>1, <2>2
  <2>3. CASE timers' = [timers EXCEPT ![n]["relay"] = @ - 1, ![n]["check"] = @ + 1]
    <3>1. TimersGo(n) BY <2>1, <2>3 DEF TimersGo
    <3>2. /\ timers'[n]["check"] = timers[n]["check"] + 1 /\ "check" \in Connecting
          /\ \A k \in Heartbeats : timers'[n][k] = timers[n][k]
      BY <1>4, <2>1, <2>3, KindsOfTimers DEF Heartbeats, Connecting
    <3>3. timers'[n]["check"] > 0 BY <1>4, <3>2, KindsOfTimers
    <3>4. Runs(n, Connecting)' /\ (Runs(n, Heartbeats) => Runs(n, Heartbeats)')
      BY <3>2, <3>3 DEF Runs
    <3> QED BY <1>6, <2>1, <3>1, <3>4
  <2>4. CASE timers' = [timers EXCEPT ![n]["relay"] = @ - 1] /\ refusals' = refusals + 1
    <3>1. "relay" \notin Heartbeats BY DEF Heartbeats
    <3> QED BY <1>8, <2>1, <2>4, <3>1 DEF TimerRefused
  <2>5. CASE Try(n, "relay") BY <1>9, <2>1, <2>5, KindsOfTimers
  <2> QED BY <1>13, <2>2, <2>3, <2>4, <2>5 DEF TryConnectPeerRelay
<1>14. CASE CheckConnectPeerStatus(n)
  <2>1. timers[n]["check"] > 0 /\ object' = object /\ "check" \in TimerKinds
    BY <1>14, KindsOfTimers DEF CheckConnectPeerStatus
  <2>2. CASE CloseSession(n, "check") BY <1>5, <2>1, <2>2
  <2>3. CASE Status(n) = CONNECT_COMPLETE /\ EndTimer(n, "check") /\ KeepSession
    <3>1. Connected(n) /\ "check" \notin Heartbeats
      BY <1>3, <2>1, <2>3 DEF Connected, Heartbeats
    <3> QED BY <1>8, <2>1, <2>3, <3>1 DEF EndTimer
  <2> QED BY <1>14, <2>2, <2>3 DEF CheckConnectPeerStatus
<1>15. CASE TryPingPeer(n)
  <2>1. timers[n]["ping"] > 0 /\ KeepSession /\ object' = object
    BY <1>15 DEF TryPingPeer
  <2>2. EndTimer(n, "ping") \/ timers' = timers BY <1>15 DEF TryPingPeer, timerVars
  <2> QED BY <1>7, <1>12, <2>1, <2>2
<1>16. ASSUME NEW k \in EagerKinds, CountAndEnd(n, k) PROVE Keeps(n)
  <2>1. /\ session' = session /\ object' = object /\ timers' = timers
        /\ Stays(n) /\ task' = task
    BY <1>2, <1>16 DEF CountAndEnd, timerVars, Stays, TimersGo, LeftGo
  <2>2. Accepting(n) => Accepting(n)' BY <2>1 DEF Accepting
  <2> QED BY <1>1, <2>1, <2>2, StaysKeeps DEF Runs
<1>17. ASSUME NEW k \in Heartbeats, timers[n][k] > 0, KeepSession, EndTimer(n, k),
              Status(n) # CONNECT_COMPLETE, object' = object \/ CountTimeout(n)
       PROVE  Keeps(n)
  <2>1. k \in TimerKinds /\ k \notin Connecting BY KindsSplit
  <2>2. Open(n) /\ ~Connected(n) BY <1>3, <1>17, <2>1 DEF Connected
  <2>3. session[n].obj \in 1..PoolSize BY <2>2 DEF IInv, NodeInv, SessionInv
  <2>4. object'[n][session[n].obj].status = object[n][session[n].obj].status
    BY <1>17, <2>2, <2>3, TimeoutsGo
  <2> QED BY <1>8, <1>17, <2>1, <2>2, <2>4 DEF EndTimer
<1>18. ASSUME KeepSession, timers' = timers, CountTimeout(n), Open(n) PROVE Keeps(n)
  <2>1. session[n].obj \in 1..PoolSize BY <1>18 DEF IInv, NodeInv, SessionInv
  <2> QED BY <1>7, <1>18, <2>1, TimeoutsGo
<1>19. CASE HeartbeatProbe(n)
  <2>1. timers[n]["probe"] > 0 /\ "probe" \in TimerKinds /\ "probe" \in Heartbeats
    BY <1>19, KindsOfTimers DEF HeartbeatProbe, Heartbeats
  <2> QED BY <1>3, <1>5, <1>17, <1>18, <1>19, <2>1
      DEF HeartbeatProbe, HeartbeatTimeout, timerVars
<1>20. CASE HeartbeatExamine(n)
  <2>1. timers[n]["examine"] > 0 /\ "examine" \in TimerKinds /\ "examine" \in Heartbeats
    BY <1>20, KindsOfTimers DEF HeartbeatExamine, Heartbeats
  <2> QED BY <1>3, <1>5, <1>17, <1>18, <1>20, <2>1
      DEF HeartbeatExamine, HeartbeatTimeout, timerVars
<1> QED BY <1>10, <1>11, <1>13, <1>14, <1>15, <1>16, <1>19, <1>20 DEF Timer

\* A task that sets the status does so to the object of its own session, if that is
\* there: then the session is watched, unless it is a PING_ACK that comes too late.
LEMMA HandlerKeeps ==
    ASSUME IInv, NEW n \in Nodes, NEW w \in Workers, Handle(n, w)
    PROVE  Keeps(n)
<1> DEFINE t == task[n][w]
<1>1. Goes(n) BY HandlerGoes
<1>2. /\ t \in Tasks /\ SoundTask(n, t) /\ Numbers \subseteq Nat /\ 0 \in Numbers
      /\ session \in [Nodes -> Sessions] /\ opened \in [Nodes -> Nat]
      /\ task \in [Nodes -> [Workers -> Tasks]]
      /\ object \in [Nodes -> [1..PoolSize -> Objects]]
  BY Bounds DEF IInv, Domains, NodeInv, TaskInv
<1>3. t.from \in Numbers BY <1>2 DEF Tasks
<1>4. Open(n) => session[n].obj \in 1..PoolSize BY DEF IInv, NodeInv, SessionInv
<1>5. ASSUME KeepSession, ~Open(n) PROVE Keeps(n)
  <2>1. ~Open(n)' BY <1>5 DEF KeepSession, Open
  <2> QED BY <2>1 DEF Keeps, LeftAloneOnlyBy, PeerOnlyBy, Attended, HasPeer, Connected
\* Most handlers leave the timers, the status and who is accepting as they are.
<1>6. ASSUME KeepSession, opened' = opened, timers' = timers \/ (Open(n) /\ AddTimer(n, "peer")),
             Open(n) => object'[n][session[n].obj].status = object[n][session[n].obj].status,
             Open(n) /\ Accepting(n) => Accepting(n)'
      PROVE  Keeps(n)
  <2>1. Stays(n) BY <1>6, AddGoes, KeepStays
  <2>2. \A kinds \in SUBSET TimerKinds : Runs(n, kinds) => Runs(n, kinds)'
    <3>1. CASE timers' = timers BY <3>1 DEF Runs
    <3>2. CASE AddTimer(n, "peer") BY <3>2, MoreTimers, KindsOfTimers
    <3> QED BY <1>6, <3>1, <3>2
  <2> QED BY <1>1, <1>6, <2>1, <2>2, StaysKeeps, KindsSplit
<1>7. ASSUME NEW u, task' = [task EXCEPT ![n][w] = u], session'[n].id = session[n].id,
             t.pc \in {"accept", "set"} => ~Found(n, t.id)
      PROVE  Open(n) /\ Accepting(n) => Accepting(n)'
  BY <1>7, AcceptingStays DEF Found
<1>8. ASSUME CountTimeout(n) \/ ResetTimeout(n), Open(n)
      PROVE  object'[n][session[n].obj].status = object[n][session[n].obj].status
  BY <1>4, <1>8, TimeoutsGo
<1>9. CASE GatewayReply(n, w) \/ Refuse(n, w) \/ GatewayAck(n, w) \/ GatewayIgnore(n, w)
           \/ RecvGone(n, w)
  <2>1. /\ KeepSession /\ object' = object /\ opened' = opened /\ timers' = timers
        /\ task' = [task EXCEPT ![n][w] = Idle] /\ t.pc = "run" /\ session' = session
    BY <1>9 DEF GatewayReply, Refuse, GatewayAck, GatewayIgnore, RecvGone, Running, Finish,
                nodeVars, timerVars, KeepSession
  <2> QED BY <1>6, <1>7, <2>1
<1>10. CASE Accept(n, w)
  <2>1. /\ NewSession(n, t.from) /\ object' = object
        /\ task' = [task EXCEPT ![n][w].pc = "accept", ![n][w].id = opened'[n]]
    BY <1>10 DEF Accept
  <2>2. session'[n].id = opened'[n] BY <2>1, NewOpened
  <2>3. task'[n][w].pc = "accept" /\ task'[n][w].id = opened'[n]
    BY <1>2, <2>1 DEF Tasks
  <2>4. Accepting(n)' BY <2>2, <2>3 DEF Accepting
  <2> QED BY <1>3, <2>1, <2>4, StartsKeeps
<1>11. CASE AcceptFind(n, w)
  <2>1. /\ KeepSession /\ object' = object /\ opened' = opened /\ timers' = timers
        /\ session' = session
    BY <1>11 DEF AcceptFind, nodeVars, timerVars, KeepSession
  <2>2. CASE /\ Found(n, t.id)
             /\ task' = [task EXCEPT ![n][w].pc = "set", ![n][w].obj = session[n].obj]
    <3>1. task'[n][w].pc = "set" /\ task'[n][w].id = t.id BY <1>2, <2>2 DEF Tasks
    <3>2. Accepting(n)' BY <2>1, <2>2, <3>1 DEF Accepting, Found
    <3> QED BY <1>6, <2>1, <3>2
  <2>3. CASE ~Found(n, t.id) /\ Finish(n, w)
    <3>1. task' = [task EXCEPT ![n][w] = Idle] BY <2>3 DEF Finish
    <3> QED BY <1>6, <1>7, <2>1, <2>3, <3>1
  <2> QED BY <1>11, <2>2, <2>3 DEF AcceptFind
<1>12. CASE RecvAnswer(n, w) \/ RecvPingAck(n, w) \/ RecvConnectAck(n, w)
  <2>1. /\ KeepSession /\ opened' = opened /\ timers' = timers /\ t.pc = "run"
        /\ ResetTimeout(n) /\ session' = session
        /\ \E u : task' = [task EXCEPT ![n][w] = u]
    BY <1>12 DEF RecvAnswer, RecvPingAck, RecvConnectAck, Recv, Running, Finish, timerVars,
                 KeepSession
  <2> QED BY <1>6, <1>7, <1>8, <2>1
\* The three that set the status, in the object that they have found.
<1>13. ASSUME NEW s \in Statuses, NEW x, t.pc \in SettingTypes, SetStatus(n, w, s, x)
       PROVE  /\ object'[n][t.obj].status = s
              /\ Open(n) /\ session[n].obj # t.obj =>
                     object'[n][session[n].obj] = object[n][session[n].obj]
  <2>1. t.obj \in 1..PoolSize BY <1>2, <1>13 DEF SoundTask
  <2> DEFINE o == t.obj
             v == [status |-> s, timeouts |-> x]
  <2>2. object' = [object EXCEPT ![n][o] = v] BY <1>13 DEF SetStatus
  <2>3. v.status = s OBVIOUS
  <2> HIDE DEF o, v
  <2>4. object'[n][o] = v /\ \A p \in 1..PoolSize \ {o} : object'[n][p] = object[n][p]
    BY <1>2, <2>1, <2>2 DEF o
  <2> QED BY <1>4, <2>3, <2>4 DEF o
<1>14. ASSUME Finish(n, w), t.pc \in SettingTypes, Open(n), session[n].obj = t.obj,
              ~Found(n, t.id)
       PROVE  SetForAnother(n)
  <2>1. task'[n][w] = Idle BY <1>2, <1>14 DEF Finish
  <2> QED BY <1>14, <2>1 DEF SetForAnother, Sets, SettingTypes, Found
<1>15. ASSUME SetForAnother(n) PROVE Keeps(n)
  BY <1>15 DEF Keeps, LeftAloneOnlyBy, PeerOnlyBy
\* Another object, so that the session is not that of the task.
<1>16. ASSUME NEW s \in Statuses, NEW x, SetStatus(n, w, s, x), t.pc \in SettingTypes,
              session[n].obj # t.obj, Open(n), session' = session, pool' = pool,
              leftTimers' = leftTimers, opened' = opened, timers' = timers, Finish(n, w)
       PROVE  Keeps(n)
  <2>1. ~Found(n, t.id) BY <1>2, <1>16 DEF SoundTask
  <2>2. KeepSession /\ task' = [task EXCEPT ![n][w] = Idle] BY <1>16 DEF KeepSession, Finish
  <2> QED BY <1>6, <1>7, <1>13, <1>16, <2>1, <2>2
<1>17. CASE AcceptSet(n, w)
  <2>1. /\ t.pc = "set" /\ SetStatus(n, w, CONNECT_COMPLETE, 0) /\ Watch(n, w, "examine")
        /\ Finish(n, w) /\ KeepSession /\ opened' = opened
        /\ t.pc \in SettingTypes /\ CONNECT_COMPLETE \in Statuses
    BY <1>17 DEF AcceptSet, SettingTypes, Statuses
  <2>2. session' = session /\ pool' = pool /\ leftTimers' = leftTimers
    BY <2>1 DEF KeepSession
  <2>3. CASE ~Open(n) BY <1>5, <2>1, <2>3
  <2>4. CASE Open(n) /\ ~Found(n, t.id)
    <3>1. timers' = timers BY <2>1, <2>4 DEF Watch, timerVars
    <3> QED BY <1>14, <1>15, <1>16, <2>1, <2>2, <2>4, <3>1
  <2>5. CASE Found(n, t.id)
    <3>1. session[n].obj = t.obj /\ Had(n, session[n].peer) BY <1>2, <2>1, <2>5 DEF SoundTask
    <3>2. Connected(n)'
      BY <1>13, <2>1, <2>2, <2>5, <3>1 DEF Connected, Status, Open, Found
    <3>3. AddTimer(n, "examine") BY <2>1, <2>5 DEF Watch
    <3>4. timers \in [Nodes -> [TimerKinds -> 0..MaxTimers]] /\ MaxTimers \in Nat
      BY Bounds DEF IInv, Domains
    <3>5. ~TimerRefused => Runs(n, Heartbeats)'
      <4>1. ASSUME timers' = [timers EXCEPT ![n]["examine"] = @ + 1]
            PROVE  timers'[n]["examine"] > 0
        BY <3>4, <4>1, KindsOfTimers
      <4> QED BY <3>3, <4>1 DEF AddTimer, TimerRefused, Runs, Heartbeats
    <3>6. HasPeer(n)' BY <2>1, <2>2, <3>1 DEF HasPeer, Had
    <3> QED BY <3>2, <3>5, <3>6 DEF Keeps, LeftAloneOnlyBy, PeerOnlyBy, Attended, Heartbeats
  <2> QED BY <2>3, <2>4, <2>5
<1>18. CASE CompletePing(n, w)
  <2>1. /\ t.pc = "ping" /\ SetStatus(n, w, PING_COMPLETE, TimeoutsFound(n, w))
        /\ Finish(n, w) /\ KeepSession /\ opened' = opened /\ timers' = timers
        /\ t.pc \in SettingTypes /\ PING_COMPLETE \in Statuses
        /\ PING_COMPLETE # CONNECT_COMPLETE
    BY <1>18 DEF CompletePing, SettingTypes, Statuses, timerVars, PING_COMPLETE,
                 CONNECT_COMPLETE
  <2>2. session' = session /\ pool' = pool /\ leftTimers' = leftTimers
    BY <2>1 DEF KeepSession
  <2>3. CASE ~Open(n) BY <1>5, <2>1, <2>3
  <2>4. CASE Open(n) /\ session[n].obj # t.obj BY <1>16, <2>1, <2>2, <2>4
  <2>5. CASE Open(n) /\ session[n].obj = t.obj
    <3>1. ~Connected(n)'
      BY <1>13, <2>1, <2>2, <2>5 DEF Connected, Status, Open
    <3>2. HasPeer(n)' BY <3>1 DEF HasPeer
    <3>3. Connected(n) => SetBack(n)
      <4>1. task'[n][w] = Idle BY <1>2, <2>1 DEF Finish
      <4> QED BY <2>1, <2>5, <4>1 DEF SetBack, Sets
    <3>4. Accepting(n) => Accepting(n)'
      BY <1>7, <2>1, <2>2, <2>5 DEF Finish
    <3>5. Runs(n, Connecting) => Runs(n, Connecting)' BY <2>1 DEF Runs
    <3> QED BY <2>5, <3>1, <3>2, <3>3, <3>4, <3>5
        DEF Keeps, LeftAloneOnlyBy, PeerOnlyBy, Attended, Connecting
  <2> QED BY <2>3, <2>4, <2>5
<1>19. CASE CompleteConnect(n, w)
  <2>1. /\ t.pc = "complete" /\ SetStatus(n, w, CONNECT_COMPLETE, TimeoutsFound(n, w))
        /\ Watch(n, w, "probe") /\ Meet(n, w) /\ Finish(n, w)
        /\ pool' = pool /\ opened' = opened /\ leftTimers' = leftTimers
        /\ t.pc \in SettingTypes /\ CONNECT_COMPLETE \in Statuses
    BY <1>19 DEF CompleteConnect, SettingTypes, Statuses
  <2>2. ~Found(n, t.id) => session' = session
    <3>1. ~Found(n, t.id) => session' = [session EXCEPT ![n].peer = session[n].peer]
      BY <2>1 DEF Meet
    <3>2. [session[n] EXCEPT !.peer = session[n].peer] = session[n] BY <1>2 DEF Sessions
    <3> QED BY <1>2, <3>1, <3>2
  <2>3. CASE ~Open(n)
    <3>1. ~Found(n, t.id) BY <2>3 DEF Found
    <3> QED BY <1>5, <2>1, <2>2, <2>3, <3>1 DEF KeepSession
  <2>4. CASE Open(n) /\ ~Found(n, t.id)
    <3>1. timers' = timers BY <2>1, <2>4 DEF Watch, timerVars
    <3> QED BY <1>14, <1>15, <1>16, <2>1, <2>2, <2>4, <3>1
  <2>5. CASE Found(n, t.id)
    <3>1. session[n].obj = t.obj /\ Had(n, t.from)
      BY <1>2, <2>1, <2>5 DEF SoundTask, AskTypes
    <3>2. /\ session'[n].id = session[n].id /\ session'[n].obj = session[n].obj
          /\ session'[n].peer = t.from
      BY <1>2, <2>1, <2>5 DEF Meet, Sessions
    <3>3. Connected(n)'
      BY <1>13, <2>1, <2>5, <3>1, <3>2 DEF Connected, Status, Open, Found
    <3>4. AddTimer(n, "probe") BY <2>1, <2>5 DEF Watch
    <3>5. timers \in [Nodes -> [TimerKinds -> 0..MaxTimers]] /\ MaxTimers \in Nat
      BY Bounds DEF IInv, Domains
    <3>6. ~TimerRefused => Runs(n, Heartbeats)'
      <4>1. ASSUME timers' = [timers EXCEPT ![n]["probe"] = @ + 1]
            PROVE  timers'[n]["probe"] > 0
        BY <3>5, <4>1, KindsOfTimers
      <4> QED BY <3>4, <4>1 DEF AddTimer, TimerRefused, Runs, Heartbeats
    <3>7. HasPeer(n)' BY <2>1, <3>1, <3>2 DEF HasPeer, Had
    <3> QED BY <3>3, <3>6, <3>7 DEF Keeps, LeftAloneOnlyBy, PeerOnlyBy, Attended, Heartbeats
  <2> QED BY <2>3, <2>4, <2>5
<1>20. ASSUME Open(n), CloseSession(n, "none"), opened' = opened PROVE Keeps(n)
  <2>1. Ends(n) BY <1>20, CloseGoes
  <2> QED BY <2>1, EndsKeeps
<1>21. CASE RecvDisconnect(n, w)
  BY <1>20, <1>21 DEF RecvDisconnect, Recv, Found
<1>22. CASE PingHelp(n, w) \/ HelpAck(n, w) \/ HelpRfs(n, w)
  <2>1. task' = [task EXCEPT ![n][w] = Idle] /\ object' = object /\ t.pc = "run"
    BY <1>22 DEF PingHelp, HelpAck, HelpRfs, Running, Finish
  <2>2. ASSUME NEW k \in ConnectKinds, NewSession(n, 0), AddTimer(n, k) PROVE Keeps(n)
    BY <1>2, <2>1, <2>2, StartsKeeps
  <2>3. ASSUME KeepSession, opened' = opened,
               timers' = timers \/ (Open(n) /\ AddTimer(n, "peer"))
        PROVE  Keeps(n)
    <3>1. session' = session BY <2>3 DEF KeepSession
    <3> QED BY <1>6, <1>7, <2>1, <2>3, <3>1
  <2>4. CASE PingHelp(n, w)
    BY <2>2, <2>3, <2>4, KindsOfTimers DEF PingHelp, timerVars
  <2>5. CASE HelpAck(n, w)
    BY <2>2, <2>3, <2>5, KindsOfTimers DEF HelpAck, PeerTimer
  <2>6. CASE HelpRfs(n, w)
    BY <1>20, <2>3, <2>6 DEF HelpRfs, timerVars
  <2> QED BY <1>22, <2>4, <2>5, <2>6
<1> QED BY <1>9, <1>10, <1>11, <1>12, <1>17, <1>18, <1>19, <1>21, <1>22 DEF Handle

LEMMA ReceiveKeeps ==
    ASSUME IInv, NEW w \in Workers, NEW p \in net, Receive(w, p)
    PROVE  Keeps(p.to)
<1>1. p.to \in Nodes /\ Goes(p.to) BY ReceiveGoes
<1>2. PICK n \in Nodes : n = p.to BY <1>1
<1>3. /\ KeepSession /\ opened' = opened /\ timers' = timers /\ object' = object
      /\ session' = session /\ task[n][w].pc = "idle" /\ Goes(n)
      /\ \E u : task' = [task EXCEPT ![n][w] = u]
  BY <1>1, <1>2 DEF Receive, nodeVars, timerVars, KeepSession
<1>4. Stays(n) BY <1>3, KeepStays
<1>5. Accepting(n) => Accepting(n)' BY <1>3, AcceptingStays
<1>6. Keeps(n) BY <1>3, <1>4, <1>5, StaysKeeps DEF Runs
<1> QED BY <1>2, <1>6

LEMMA StepKeeps ==
    ASSUME IInv, Next, NEW n \in Nodes
    PROVE  Keeps(n)
<1>1. ASSUME NEW m \in Nodes, Application(m) \/ Timer(m) \/ \E w \in Workers : Handle(m, w)
      PROVE  Keeps(n)
  <2>1. Goes(m) /\ Keeps(m)
    BY <1>1, ApplicationGoes, TimerGoes, HandlerGoes, ApplicationKeeps, TimerKeeps, HandlerKeeps
  <2>2. CASE m = n BY <2>1, <2>2
  <2>3. CASE m # n BY <2>1, <2>3, OtherKeeps
  <2> QED BY <2>2, <2>3
<1>2. ASSUME NEW w \in Workers, NEW p \in net, Receive(w, p) PROVE Keeps(n)
  <2>1. PICK m \in Nodes : m = p.to /\ Goes(m) /\ Keeps(m)
    BY <1>2, ReceiveGoes, ReceiveKeeps
  <2>2. CASE m = n BY <2>1, <2>2
  <2>3. CASE m # n BY <2>1, <2>3, OtherKeeps
  <2> QED BY <2>2, <2>3
<1>3. ASSUME NEW m \in Nodes, Restart(m) PROVE Keeps(n)
  <2>1. CASE m = n BY <1>3, <2>1, RestartKeepsOwn
  <2>2. CASE m # n BY <1>3, <2>2, OtherKeeps
  <2> QED BY <2>1, <2>2
<1> QED BY <1>1, <1>2, <1>3 DEF Next

\* Whatever is lost, late or done twice, and however workers, timers and sessions of
\* the same object interleave: a session is left with nobody to watch or to connect
\* it only in the situations that LeftAloneOnlyBy names.
THEOREM SessionsAreAttended == Spec => SessionsAttended
<1>1. ASSUME IInv, Next PROVE \A n \in Nodes : LeftAloneOnlyBy(n)
  BY <1>1, StepKeeps DEF Keeps
<1>2. IInv /\ [Next]_vars => [\A n \in Nodes : LeftAloneOnlyBy(n)]_vars BY <1>1
<1> QED BY <1>2, Invariant, PTL DEF Spec, SessionsAttended

\* A session is held for connected without a session of the other node only after a
\* status was set for, or left by, another session of the same object.
THEOREM ConnectionsHavePeers == Spec => ConnectsWithPeer
<1>1. ASSUME IInv, Next PROVE \A n \in Nodes : PeerOnlyBy(n)
  BY <1>1, StepKeeps DEF Keeps
<1>2. IInv /\ [Next]_vars =>
          [\A n \in Nodes : HasPeer(n) => HasPeer(n)' \/ SetForAnother(n) \/ OpenedConnected(n)]_vars
  BY <1>1 DEF PeerOnlyBy
<1> QED BY <1>2, Invariant, PTL DEF Spec, ConnectsWithPeer

=============================================================================
