--------------------------- MODULE SessionManager ---------------------------
(***************************************************************************)
(* How sessions are opened and closed (module_net/session_manager.cpp), by *)
(* the threads that do it: the workers of the thread pool, which run the   *)
(* _gateway and _recv tasks of the reactor, and the timer thread, whose    *)
(* callbacks run with m_TimerMutex held.                                   *)
(*                                                                         *)
(* Opening goes through PeerManager::connect_peer and new_session, closing *)
(* through session, get_peer_addr, _delete_session, disconnect_peer and a  *)
(* recycle timer.  None of the two is atomic: m_SessionMutex guards the    *)
(* assignment to m_SessionArr but not the tests before it.  Each step      *)
(* below is what one thread does between two points where another thread   *)
(* can get in between.                                                     *)
(***************************************************************************)
EXTENDS PeerManager, FiniteSets

CONSTANTS
    Workers,      \* the threads of the pool that run tasks
    TIMER,        \* the thread in Timer::thread_loop
    Objects,      \* the Session objects that may come to exist
    InitialPool,  \* the sequence of those that init() creates
    NULL,         \* nullptr
    MaxClosed     \* bound: ids on their way back to use, and disconnects begun

Threads == Workers \cup {TIMER}
FREE == "free"

ASSUME SessionAssumption ==
    /\ TIMER \notin Workers
    /\ FREE \notin Threads
    /\ NULL \notin Objects
    /\ MaxClosed \in Nat
    /\ InitialPool \in Seq(Objects)
    /\ \A i, j \in DOMAIN InitialPool : InitialPool[i] = InitialPool[j] => i = j

VARIABLES
    sessionArr,   \* m_SessionArr
    pool,         \* m_ObjList of m_SessionPool
    made,         \* the objects created so far
    peerAddr,     \* m_PeerAddr of each object
    sessionLock,  \* the holder of m_SessionMutex, or FREE
    timerLock,    \* the holder of m_TimerMutex, or FREE
    task,         \* what each thread is doing, with its locals
    callbacks,    \* the ids for which a callback that may disconnect is running
    recycling,    \* the ids whose recycle timers are running, in their order
    timersFull,   \* whether m_TimerCount is MAX_TIMER_NUM, see Next
    crashed,      \* a null pointer was dereferenced: the process is gone
    met           \* history: two threads have worked on one address at a time

tableVars == <<sessionArr, pool, made, peerAddr>>
timerVars == <<callbacks, recycling>>
lockVars == <<sessionLock, timerLock>>
vars == <<pmVars, tableVars, lockVars, task, timerVars, timersFull, crashed, met>>

Idle == [pc |-> "idle", addr |-> NoAddr, sid |-> 0, obj |-> NULL, inTimer |-> FALSE]

Init ==
    /\ PeerManagerInit
    /\ sessionArr = [s \in SessionIds |-> NULL]
    /\ pool = InitialPool
    /\ made = {InitialPool[i] : i \in DOMAIN InitialPool}
    /\ peerAddr = [o \in Objects |-> NoAddr]
    /\ sessionLock = FREE
    /\ timerLock = FREE
    /\ task = [t \in Threads |-> Idle]
    /\ callbacks = {}
    /\ recycling = <<>>
    /\ timersFull = FALSE
    /\ crashed = FALSE
    /\ met = FALSE

At(t, pc) == ~crashed /\ task[t].pc = pc
Goto(t, pc) == task' = [task EXCEPT ![t].pc = pc]
\* The end of what t was doing; a timer callback gives m_TimerMutex back.
Done(t) ==
    /\ task' = [task EXCEPT ![t] = Idle]
    /\ timerLock' = IF timerLock = t THEN FREE ELSE timerLock

-----------------------------------------------------------------------------
(* Opening: _gateway() of the receiver, on_accept(), new_session(); and      *)
(* connect_peer(), ping_peer() and _connect(), which go the same way.        *)

\* The reactor finds no session of the address and queues a task.
TakeGateway(w, a) ==
    /\ At(w, "idle")
    /\ SessionIdOf(a) = 0
    /\ task' = [task EXCEPT ![w] = [Idle EXCEPT !.pc = "gateway", !.addr = a]]
    /\ UNCHANGED <<pmVars, tableVars, lockVars, timerVars, crashed>>

Connect(w) ==
    /\ At(w, "gateway")
    /\ \E r \in SessionIds \cup {ERROR_SESSION_ID} :
           /\ ConnectPeer(task[w].addr, r)
           /\ task' = [task EXCEPT ![w] =
                  IF r = ERROR_SESSION_ID THEN Idle
                  ELSE [@ EXCEPT !.pc = "new", !.sid = r]]
    /\ UNCHANGED <<tableVars, lockVars, timerVars, crashed>>

\* new_session() looks at the slot before it locks.
NewSessionTest(w) ==
    /\ At(w, "new")
    /\ task' = [task EXCEPT ![w] =
                   IF sessionArr[@.sid] # NULL THEN Idle
                   ELSE [@ EXCEPT !.pc = "allocate"]]
    /\ UNCHANGED <<pmVars, tableVars, lockVars, timerVars, crashed>>

\* ObjectPool::allocate(): the last of the list, or a new object o.
Allocate(o) ==
    \/ /\ pool # <<>>
       /\ o = pool[Len(pool)]
       /\ pool' = SubSeq(pool, 1, Len(pool) - 1)
       /\ UNCHANGED made
    \/ /\ pool = <<>>
       /\ o \in Objects \ made
       /\ made' = made \cup {o}
       /\ UNCHANGED pool

\* The list may hand out a null pointer, on which init() is called.
NewSessionAllocate(w) ==
    LET s == task[w].sid IN
    /\ At(w, "allocate")
    /\ sessionLock = FREE
    /\ \E o \in Objects \cup {NULL} :
           /\ Allocate(o)
           /\ sessionArr' = [sessionArr EXCEPT ![s] = o]
           /\ IF o = NULL
                THEN crashed' = TRUE /\ UNCHANGED peerAddr
                ELSE /\ peerAddr' = [peerAddr EXCEPT ![o] = task[w].addr]
                     /\ UNCHANGED crashed
    /\ sessionLock' = w
    /\ Goto(w, "init")
    /\ UNCHANGED <<pmVars, timerLock, timerVars>>

\* Slip: m_SessionMutex is not released.
SlipInitKeepsLock(w) ==
    /\ At(w, "init")
    /\ timerLock = FREE
    /\ Goto(w, "accept")
    /\ UNCHANGED <<pmVars, tableVars, lockVars, timerVars, crashed>>

\* Session::init() ends in init_kcp(), which calls add_timer().
NewSessionInit(w) ==
    /\ At(w, "init")
    /\ timerLock = FREE
    /\ sessionLock' = FREE
    /\ Goto(w, "accept")
    /\ UNCHANGED <<pmVars, tableVars, timerLock, timerVars, crashed>>

\* handle_on_accept() and the callers of new_session() register the callback
\* that watches the session; the former not if the session is gone again.
\* When the timers are at their limit the session stays without a callback.
Accept(w) ==
    LET s == task[w].sid IN
    /\ At(w, "accept")
    /\ \/ sessionArr[s] = NULL /\ UNCHANGED callbacks
       \/ /\ sessionArr[s] # NULL
          /\ timerLock = FREE
          /\ callbacks' = IF timersFull THEN callbacks ELSE callbacks \cup {s}
    /\ Done(w)
    /\ UNCHANGED <<pmVars, tableVars, sessionLock, recycling, crashed>>

-----------------------------------------------------------------------------
(* Closing: disconnect() by a worker, disconnect_in_timer() by the timer.    *)

Closing == {t \in Threads : task[t].pc \in
               {"disconnect", "address", "delete", "release", "unmap", "recycle"}}
MayClose == Len(sessionIdQueue) + Len(recycling) + Cardinality(Closing) < MaxClosed

\* The reactor finds the session of the address and queues a task with its id;
\* the message turns out to end the session.
TakeRecv(w, a) ==
    /\ At(w, "idle")
    /\ SessionIdOf(a) # 0
    /\ MayClose
    /\ task' = [task EXCEPT ![w] =
                   [Idle EXCEPT !.pc = "disconnect", !.addr = a, !.sid = SessionIdOf(a)]]
    /\ UNCHANGED <<pmVars, tableVars, lockVars, timerVars, crashed>>

\* A callback of the session s finds its object and gives the session up, by
\* disconnect_in_timer(); only try_nat_probe_tracker, once the NAT type is
\* known, calls disconnect().
TakeTimeout(s) ==
    /\ At(TIMER, "idle")
    /\ timerLock = FREE
    /\ s \in callbacks
    /\ sessionArr[s] # NULL
    /\ MayClose
    /\ timerLock' = TIMER
    /\ \E inTimer \in BOOLEAN :
           task' = [task EXCEPT ![TIMER] =
               [pc |-> "disconnect", addr |-> peerAddr[sessionArr[s]], sid |-> s,
                obj |-> NULL, inTimer |-> inTimer]]
    /\ callbacks' = callbacks \ {s}
    /\ UNCHANGED <<pmVars, tableVars, sessionLock, recycling, crashed>>

\* A callback that finds no session ends.
CallbackEnds(s) ==
    /\ At(TIMER, "idle")
    /\ timerLock = FREE
    /\ s \in callbacks
    /\ sessionArr[s] = NULL
    /\ callbacks' = callbacks \ {s}
    /\ UNCHANGED <<pmVars, tableVars, lockVars, task, recycling, crashed>>

\* session(SessionId), without the lock.
FindSession(t) ==
    /\ At(t, "disconnect")
    /\ \/ /\ sessionArr[task[t].sid] = NULL
          /\ Done(t)
       \/ /\ sessionArr[task[t].sid] # NULL
          /\ task' = [task EXCEPT ![t].pc = "address",
                                 ![t].obj = sessionArr[task[t].sid]]
          /\ UNCHANGED timerLock
    /\ UNCHANGED <<pmVars, tableVars, sessionLock, timerVars, crashed>>

\* get_peer_addr() of the object found, whosever it is by now.
ReadAddress(t) ==
    /\ At(t, "address")
    /\ task' = [task EXCEPT ![t].pc = "delete", ![t].addr = peerAddr[task[t].obj]]
    /\ UNCHANGED <<pmVars, tableVars, lockVars, timerVars, crashed>>

\* _delete_session() looks at the slot before it locks.
DeleteTest(t) ==
    /\ At(t, "delete")
    /\ Goto(t, IF sessionArr[task[t].sid] = NULL THEN "unmap" ELSE "release")
    /\ UNCHANGED <<pmVars, tableVars, lockVars, timerVars, crashed>>

\* Slip: the pool gets the object found before the lock, not the slot's.
SlipReleaseFound(t) ==
    /\ At(t, "release")
    /\ sessionLock = FREE
    /\ pool' = <<task[t].obj>> \o pool
    /\ sessionArr' = [sessionArr EXCEPT ![task[t].sid] = NULL]
    /\ Goto(t, "unmap")
    /\ UNCHANGED <<pmVars, made, peerAddr, lockVars, timerVars, crashed>>

\* Slip: the slot is emptied and its object forgotten.
SlipReleaseNothing(t) ==
    /\ At(t, "release")
    /\ sessionLock = FREE
    /\ sessionArr' = [sessionArr EXCEPT ![task[t].sid] = NULL]
    /\ Goto(t, "unmap")
    /\ UNCHANGED <<pmVars, pool, made, peerAddr, lockVars, timerVars, crashed>>

\* Under the lock, ObjectPool::release() of what the slot holds now.
DeleteRelease(t) ==
    LET s == task[t].sid IN
    /\ At(t, "release")
    /\ sessionLock = FREE
    /\ pool' = <<sessionArr[s]>> \o pool
    /\ sessionArr' = [sessionArr EXCEPT ![s] = NULL]
    /\ Goto(t, "unmap")
    /\ UNCHANGED <<pmVars, made, peerAddr, lockVars, timerVars, crashed>>

\* Slip: disconnect_peer() is not called.
SlipUnmapNothing(t) ==
    /\ At(t, "unmap")
    /\ Goto(t, "recycle")
    /\ UNCHANGED <<pmVars, tableVars, lockVars, timerVars, crashed>>

Unmap(t) ==
    /\ At(t, "unmap")
    /\ DisconnectPeer(task[t].addr)
    /\ Goto(t, "recycle")
    /\ UNCHANGED <<tableVars, lockVars, timerVars, crashed>>

\* disconnect() takes m_TimerMutex in add_timer(), disconnect_in_timer() relies
\* on its caller to have it.  The mutex is not recursive.  When the timers are at
\* their limit the answer is false, and both only log it: the id is lost.
StartRecycle(t) ==
    /\ At(t, "recycle")
    /\ task[t].inTimer \/ timerLock = FREE
    /\ recycling' = IF timersFull THEN recycling ELSE Append(recycling, task[t].sid)
    /\ Done(t)
    /\ UNCHANGED <<pmVars, tableVars, sessionLock, callbacks, crashed>>

\* Slip: recycle_session returns false, so that its timer runs again.
SlipRecycleAgain ==
    /\ At(TIMER, "idle")
    /\ timerLock = FREE
    /\ recycling # <<>>
    /\ RecycleSession(Head(recycling))
    /\ UNCHANGED <<tableVars, lockVars, task, timerVars, crashed>>

\* The callback recycle_session, 20 seconds later.  The other callbacks run
\* every 10 seconds at least: one of that id that finds no session has ended.
Recycle ==
    /\ At(TIMER, "idle")
    /\ timerLock = FREE
    /\ recycling # <<>>
    /\ Head(recycling) \in callbacks => sessionArr[Head(recycling)] # NULL
    /\ RecycleSession(Head(recycling))
    /\ recycling' = Tail(recycling)
    /\ UNCHANGED <<tableVars, lockVars, task, callbacks, crashed>>

-----------------------------------------------------------------------------
Open(w) == Connect(w) \/ NewSessionTest(w) \/ NewSessionAllocate(w) \/ NewSessionInit(w)
           \/ Accept(w)
Close(t) == FindSession(t) \/ ReadAddress(t) \/ DeleteTest(t) \/ DeleteRelease(t)
            \/ Unmap(t) \/ StartRecycle(t)

Step ==
    \/ \E w \in Workers : Open(w) \/ \E a \in Addrs : TakeGateway(w, a) \/ TakeRecv(w, a)
    \/ \E t \in Threads : Close(t)
    \/ \E s \in SessionIds : TakeTimeout(s) \/ CallbackEnds(s)
    \/ Recycle

\* Two threads open or close a session with one address.  Nothing in the code
\* prevents it; met separates what holds all the same from what needs that it
\* does not happen.
Engaged(a) == {t \in Threads : task[t].pc # "idle" /\ task[t].addr = a}
Meeting == \E a \in Addrs : \E t, u \in Engaged(a) : t # u

\* Timers that other parts add, and that end, may change timersFull at any time,
\* but only a thread that is about to add a timer looks at it.
AddsTimer == \E t \in Threads : task[t].pc \in {"accept", "recycle"}

Next ==
    /\ Step
    /\ timersFull' \in IF AddsTimer' THEN BOOLEAN ELSE {FALSE}
    /\ met' = (met \/ Meeting')

Spec == Init /\ [][Next]_vars

-----------------------------------------------------------------------------
Slots == {s \in SessionIds : sessionArr[s] # NULL}
Pooled == {pool[i] : i \in DOMAIN pool}
Registered == {a \in Addrs : sessionIdMap[a] # 0}

\* The tables have their types, and a lock is held by a thread that is where
\* it holds it.
TypeOK ==
    /\ sessionIdMap \in [Addrs -> SessionIds \cup {0}]
    /\ sessionArr \in [SessionIds -> made \cup {NULL}]
    /\ pool \in Seq(made \cup {NULL})
    /\ made \subseteq Objects
    /\ peerAddr \in [Objects -> Addrs \cup {NoAddr}]
    /\ \A w \in Workers : sessionLock = w <=> task[w].pc = "init"
    /\ sessionLock # TIMER
    /\ timerLock = TIMER <=> task[TIMER].pc # "idle"
    /\ timerLock \in {TIMER, FREE}

\* Whatever the threads interleave, a Session object is in one place only: one
\* slot of m_SessionArr, or one place of the pool.  Two sessions never share
\* an object, and no session uses one that the pool may hand out.
ObjectsNotShared ==
    /\ \A s, u \in Slots : sessionArr[s] = sessionArr[u] => s = u
    /\ \A s \in Slots : sessionArr[s] \notin Pooled
    /\ \A i, j \in DOMAIN pool : pool[i] = pool[j] /\ pool[i] # NULL => i = j

\* As long as no two threads meet on an address, the two tables agree: an
\* address has a session id exactly when the slot of that id holds the object
\* of that address, for every address that no thread is working on.
SlotsMatchIds ==
    ~met => \A a \in Addrs : Engaged(a) = {} =>
        \A s \in SessionIds :
            sessionIdMap[a] = s <=> s \in Slots /\ peerAddr[sessionArr[s]] = a

\* ... every object is in a slot or in the pool ...
ObjectsComeBack == ~met => made \subseteq {sessionArr[s] : s \in Slots} \cup Pooled

\* ... and opening and closing do what the atomic actions of PeerUse do: the
\* session closes when its address is unmapped, from then on its id waits for
\* its recycle timer, and once that is added it cools.  The opens and closes in
\* between are stuttering steps.
Unmapped == {task[t].sid : t \in {u \in Threads : task[u].pc = "recycle"}}
Cooling == {recycling[i] : i \in DOMAIN recycling}

Atomic == INSTANCE PeerUse WITH
    held <- [p \in PeerIds \cup {0} |-> 0], strayed <- FALSE, closing <- Unmapped,
    cooling <- Cooling, MaxHeld <- 0, MaxKeys <- 0

ImplementsPeerUse == Atomic!Init /\ [][met' \/ Atomic!Next]_<<Atomic!vars, met>>

-----------------------------------------------------------------------------
(* What a comment says and the code does not do.                             *)

\* "called in the tasks that the timer runs, disconnects the session" (the
\* comment on disconnect_in_timer): it is never stuck on a lock whose holder
\* waits for the timer.
TimerCanDisconnect ==
    ~(task[TIMER].pc = "release" /\ \E w \in Workers : task[w].pc = "init")

=============================================================================
