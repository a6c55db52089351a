------------------------ MODULE SessionManagerProofs --------------------------
(*****************************************************************************)
(* Theorems about SessionManager, for any number of workers, addresses and   *)
(* Session objects, and every interleaving of their steps: the types and the *)
(* holders of the locks are right, and no Session object is ever in two      *)
(* places; and as long as no two threads meet on an address, the steps in    *)
(* which sessions are opened and closed amount to the atomic Open, Close and *)
(* Recycle of PeerUse, and the tables of the session manager and of the peer *)
(* manager agree.                                                            *)
(*****************************************************************************)
EXTENDS SessionManager, TLAPS

PCs == {"idle", "gateway", "new", "allocate", "init", "accept",
        "disconnect", "address", "delete", "release", "unmap", "recycle"}
Tasks == [pc : PCs, addr : Addrs \cup {NoAddr}, sid : SessionIds \cup {0},
          obj : Objects \cup {NULL}, inTimer : BOOLEAN]

(* The inductive invariant.  A thread past its first step has a session id,  *)
(* and one that reads an address has an object.                              *)
TaskInv ==
    /\ task \in [Threads -> Tasks]
    /\ \A t \in Threads :
           /\ task[t].pc \notin {"idle", "gateway"} => task[t].sid \in SessionIds
           /\ task[t].pc = "address" => task[t].obj \in Objects

TableInv ==
    /\ made \subseteq Objects
    /\ sessionArr \in [SessionIds -> made \cup {NULL}]
    /\ pool \in Seq(made \cup {NULL})
    /\ peerAddr \in [Objects -> Addrs \cup {NoAddr}]
    /\ ObjectsNotShared

LockInv ==
    /\ \A w \in Workers : sessionLock = w <=> task[w].pc = "init"
    /\ sessionLock # TIMER
    /\ timerLock = TIMER <=> task[TIMER].pc # "idle"
    /\ timerLock \in {TIMER, FREE}

IdInv == sessionIdMap \in [Addrs -> SessionIds \cup {0}]

IInv == TaskInv /\ TableInv /\ LockInv /\ IdInv

LEMMA ThreadFacts ==
    /\ Workers \subseteq Threads
    /\ TIMER \in Threads
    /\ TIMER \notin Workers
    /\ FREE \notin Threads
    /\ NULL \notin Objects
    /\ 0 \notin SessionIds
BY SessionAssumption DEF Threads, SessionIds

(* ------------------------------ the tables ------------------------------ *)

\* The object that Allocate hands out is in no slot, and no longer in the pool.
LEMMA AllocateTakes ==
    ASSUME TableInv, NEW o, Allocate(o)
    PROVE  /\ made' \subseteq Objects
           /\ o \in made' \cup {NULL}
           /\ made \subseteq made'
           /\ pool' \in Seq(made \cup {NULL})
           /\ \A i \in DOMAIN pool' : i \in DOMAIN pool /\ pool'[i] = pool[i]
           /\ o # NULL => /\ \A s \in SessionIds : sessionArr[s] # o
                          /\ \A i \in DOMAIN pool' : pool'[i] # o
<1>1. CASE /\ pool # <<>>
           /\ o = pool[Len(pool)]
           /\ pool' = SubSeq(pool, 1, Len(pool) - 1)
           /\ UNCHANGED made
  <2>1. /\ Len(pool) \in Nat \ {0}
        /\ DOMAIN pool = 1..Len(pool)
        /\ o \in made \cup {NULL}
    BY <1>1 DEF TableInv
  <2>2. /\ pool' \in Seq(made \cup {NULL})
        /\ DOMAIN pool' = 1..(Len(pool) - 1)
        /\ \A i \in DOMAIN pool' : pool'[i] = pool[i]
    BY <1>1, <2>1 DEF TableInv
  <2>3. \A i \in DOMAIN pool' : i \in DOMAIN pool /\ i # Len(pool)
    BY <2>1, <2>2
  <2>4. Len(pool) \in DOMAIN pool
    BY <2>1
  <2>5. \A i, j \in DOMAIN pool : pool[i] = pool[j] /\ pool[i] # NULL => i = j
    BY DEF TableInv, ObjectsNotShared
  <2>6. o # NULL => \A i \in DOMAIN pool' : pool'[i] # o
    BY ONLY <1>1, <2>2, <2>3, <2>4, <2>5
  <2>7. o # NULL => \A s \in SessionIds : sessionArr[s] # o
    BY <1>1, <2>4 DEF TableInv, ObjectsNotShared, Slots, Pooled
  <2> QED
    BY <1>1, <2>1, <2>2, <2>3, <2>6, <2>7 DEF TableInv
<1>2. CASE /\ pool = <<>>
           /\ o \in Objects \ made
           /\ made' = made \cup {o}
           /\ UNCHANGED pool
  <2>1. o # NULL /\ \A s \in SessionIds : sessionArr[s] # o
    BY <1>2, ThreadFacts DEF TableInv
  <2>2. DOMAIN pool' = {}
    BY <1>2
  <2> QED
    BY <1>2, <2>1, <2>2 DEF TableInv
<1> QED
  BY <1>1, <1>2 DEF Allocate

LEMMA AllocateKeepsTables ==
    ASSUME IInv, NEW w \in Workers, NewSessionAllocate(w)
    PROVE  TableInv'
<1> DEFINE s == task[w].sid
<1>1. PICK o \in Objects \cup {NULL} :
         /\ Allocate(o)
         /\ sessionArr' = [sessionArr EXCEPT ![s] = o]
         /\ IF o = NULL
              THEN crashed' = TRUE /\ UNCHANGED peerAddr
              ELSE /\ peerAddr' = [peerAddr EXCEPT ![o] = task[w].addr]
                   /\ UNCHANGED crashed
  BY DEF NewSessionAllocate
<1>2. TableInv
  BY DEF IInv
<1>3. /\ made' \subseteq Objects
      /\ o \in made' \cup {NULL}
      /\ made \subseteq made'
      /\ pool' \in Seq(made \cup {NULL})
      /\ \A i \in DOMAIN pool' : i \in DOMAIN pool /\ pool'[i] = pool[i]
      /\ o # NULL => /\ \A u \in SessionIds : sessionArr[u] # o
                     /\ \A i \in DOMAIN pool' : pool'[i] # o
  BY <1>1, <1>2, AllocateTakes
<1>4. pool' \in Seq(made' \cup {NULL})
  BY <1>3
<1>5. sessionArr' \in [SessionIds -> made' \cup {NULL}]
  BY <1>1, <1>2, <1>3 DEF TableInv
<1>6. peerAddr' \in [Objects -> Addrs \cup {NoAddr}]
  <2>1. task[w].addr \in Addrs \cup {NoAddr}
    BY ThreadFacts DEF IInv, TaskInv, Tasks
  <2> QED
    BY <1>1, <1>2, <2>1 DEF TableInv
<1>7. \A u \in SessionIds : sessionArr'[u] = IF u = s THEN o ELSE sessionArr[u]
  BY <1>1, <1>2 DEF TableInv
<1>8. /\ \A u, v \in SessionIds :
            sessionArr[u] # NULL /\ sessionArr[u] = sessionArr[v] => u = v
      /\ \A u \in SessionIds : \A i \in DOMAIN pool :
            sessionArr[u] # NULL => sessionArr[u] # pool[i]
      /\ \A i, j \in DOMAIN pool : pool[i] = pool[j] /\ pool[i] # NULL => i = j
  BY <1>2 DEF TableInv, ObjectsNotShared, Slots, Pooled
<1> HIDE DEF s
<1>9. /\ \A u, v \in SessionIds :
            sessionArr'[u] # NULL /\ sessionArr'[u] = sessionArr'[v] => u = v
      /\ \A u \in SessionIds : \A i \in DOMAIN pool' :
            sessionArr'[u] # NULL => sessionArr'[u] # pool'[i]
      /\ \A i, j \in DOMAIN pool' : pool'[i] = pool'[j] /\ pool'[i] # NULL => i = j
  BY ONLY <1>3, <1>7, <1>8
<1>10. ObjectsNotShared'
  BY <1>9 DEF ObjectsNotShared, Slots, Pooled
<1> QED
  BY <1>3, <1>4, <1>5, <1>6, <1>10 DEF TableInv

LEMMA ReleaseKeepsTables ==
    ASSUME IInv, NEW t \in Threads, DeleteRelease(t)
    PROVE  TableInv'
<1> DEFINE s == task[t].sid
<1>1. /\ TableInv
      /\ s \in SessionIds
  BY DEF IInv, TaskInv, DeleteRelease, At
<1>2. /\ pool' = <<sessionArr[s]>> \o pool
      /\ sessionArr' = [sessionArr EXCEPT ![s] = NULL]
      /\ UNCHANGED <<made, peerAddr>>
  BY DEF DeleteRelease
<1>3. sessionArr[s] \in made \cup {NULL} /\ pool \in Seq(made \cup {NULL})
  BY <1>1 DEF TableInv
<1> HIDE DEF s
<1>4. /\ pool' \in Seq(made \cup {NULL})
      /\ DOMAIN pool' = 1..(Len(pool) + 1)
      /\ DOMAIN pool = 1..Len(pool)
      /\ Len(pool) \in Nat
      /\ pool'[1] = sessionArr[s]
      /\ \A i \in DOMAIN pool' : i # 1 => pool'[i] = pool[i - 1]
  BY <1>2, <1>3
<1>5. \A i \in DOMAIN pool' : i # 1 => i \in Int /\ i - 1 \in DOMAIN pool
  BY <1>4
<1>6. sessionArr' \in [SessionIds -> made \cup {NULL}]
  BY <1>1, <1>2 DEF TableInv
<1>7. \A u \in SessionIds : sessionArr'[u] = IF u = s THEN NULL ELSE sessionArr[u]
  BY <1>1, <1>2 DEF TableInv
<1>8. /\ \A u, v \in SessionIds :
            sessionArr[u] # NULL /\ sessionArr[u] = sessionArr[v] => u = v
      /\ \A u \in SessionIds : \A i \in DOMAIN pool :
            sessionArr[u] # NULL => sessionArr[u] # pool[i]
      /\ \A i, j \in DOMAIN pool : pool[i] = pool[j] /\ pool[i] # NULL => i = j
  BY <1>1 DEF TableInv, ObjectsNotShared, Slots, Pooled
<1>9. \A u, v \in SessionIds :
         sessionArr'[u] # NULL /\ sessionArr'[u] = sessionArr'[v] => u = v
  BY ONLY <1>7, <1>8
<1>10. \A u \in SessionIds : \A i \in DOMAIN pool' :
          sessionArr'[u] # NULL => sessionArr'[u] # pool'[i]
  BY ONLY <1>1, <1>4, <1>5, <1>7, <1>8
<1>11. \A i, j \in DOMAIN pool' : pool'[i] = pool'[j] /\ pool'[i] # NULL => i = j
  <2> SUFFICES ASSUME NEW i \in DOMAIN pool', NEW j \in DOMAIN pool',
                      pool'[i] = pool'[j], pool'[i] # NULL
               PROVE  i = j
    OBVIOUS
  <2>1. CASE i # 1 /\ j # 1
    <3>1. /\ i - 1 \in DOMAIN pool /\ j - 1 \in DOMAIN pool
          /\ pool[i - 1] = pool[j - 1] /\ pool[i - 1] # NULL
          /\ i \in Int /\ j \in Int
      BY <1>4, <1>5, <2>1
    <3>2. i - 1 = j - 1
      BY ONLY <1>8, <3>1
    <3> QED
      BY ONLY <3>1, <3>2
  <2>2. CASE i = 1 /\ j # 1
    <3>1. /\ j - 1 \in DOMAIN pool
          /\ sessionArr[s] = pool[j - 1]
          /\ sessionArr[s] # NULL
      BY <1>4, <1>5, <2>2
    <3> QED
      BY ONLY <1>1, <1>8, <3>1
  <2>3. CASE i # 1 /\ j = 1
    <3>1. /\ i - 1 \in DOMAIN pool
          /\ sessionArr[s] = pool[i - 1]
          /\ sessionArr[s] # NULL
      BY <1>4, <1>5, <2>3
    <3> QED
      BY ONLY <1>1, <1>8, <3>1
  <2> QED
    BY <2>1, <2>2, <2>3
<1>12. ObjectsNotShared'
  BY <1>9, <1>10, <1>11 DEF ObjectsNotShared, Slots, Pooled
<1> QED
  BY <1>1, <1>2, <1>4, <1>6, <1>12 DEF TableInv

(* ----------------------- the threads and the locks ----------------------- *)

\* A thread that goes on to pc p.
LEMMA GotoTask ==
    ASSUME TaskInv, NEW t \in Threads, NEW p \in PCs, Goto(t, p),
           p \notin {"idle", "gateway"} => task[t].sid \in SessionIds,
           p # "address"
    PROVE  /\ TaskInv'
           /\ task'[t].pc = p
           /\ \A u \in Threads : u # t => task'[u] = task[u]
BY DEF TaskInv, Tasks, Goto

\* A thread whose task becomes x.
LEMMA SetTask ==
    ASSUME TaskInv, NEW t \in Threads, NEW x \in Tasks, task' = [task EXCEPT ![t] = x],
           x.pc \notin {"idle", "gateway"} => x.sid \in SessionIds,
           x.pc = "address" => x.obj \in Objects
    PROVE  /\ TaskInv'
           /\ task'[t] = x
           /\ \A u \in Threads : u # t => task'[u] = task[u]
BY DEF TaskInv

LEMMA IdleTask == Idle \in Tasks /\ Idle.pc = "idle"
BY DEF Idle, Tasks, PCs

\* The lock invariant survives the step of a thread t that takes no lock.
LEMMA LocksKept ==
    ASSUME LockInv, NEW t \in Threads,
           \A u \in Threads : u # t => task'[u] = task[u],
           UNCHANGED lockVars,
           t \in Workers => (task[t].pc = "init" <=> task'[t].pc = "init"),
           t = TIMER => (task[t].pc = "idle" <=> task'[t].pc = "idle")
    PROVE  LockInv'
BY ThreadFacts DEF LockInv, lockVars

\* A thread that is done gives the timer's mutex back.
LEMMA DoneKeeps ==
    ASSUME TaskInv, LockInv, NEW t \in Threads, Done(t), UNCHANGED sessionLock,
           task[t].pc # "init"
    PROVE  TaskInv' /\ LockInv'
<1>1. /\ TaskInv'
      /\ task'[t] = Idle
      /\ \A u \in Threads : u # t => task'[u] = task[u]
  BY SetTask, IdleTask DEF Done
<1>2. task'[t].pc = "idle"
  BY <1>1, IdleTask
<1>3. \A w \in Workers : task'[w].pc = "init" <=> task[w].pc = "init"
  BY <1>1, <1>2, ThreadFacts
<1>4. timerLock' = IF timerLock = t THEN FREE ELSE timerLock
  BY DEF Done
<1>5. CASE t = TIMER
  BY <1>1, <1>2, <1>3, <1>4, <1>5, ThreadFacts DEF LockInv
<1>6. CASE t # TIMER
  <2>1. task'[TIMER] = task[TIMER] /\ timerLock' = timerLock
    BY <1>1, <1>4, <1>6, ThreadFacts DEF LockInv
  <2> QED
    BY <1>1, <1>3, <2>1 DEF LockInv
<1> QED
  BY <1>5, <1>6

\* A thread that goes on, without a lock being taken or released.
LEMMA GotoKeeps ==
    ASSUME TaskInv, LockInv, NEW t \in Threads,
           NEW p \in PCs \ {"idle", "gateway", "address", "init"}, Goto(t, p),
           task[t].pc \notin {"idle", "gateway", "init"}, UNCHANGED lockVars
    PROVE  TaskInv' /\ LockInv'
<1>1. task[t].sid \in SessionIds
  BY DEF TaskInv
<1>2. /\ TaskInv'
      /\ task'[t].pc = p
      /\ \A u \in Threads : u # t => task'[u] = task[u]
  BY <1>1, GotoTask
<1>3. LockInv'
  BY <1>2, LocksKept
<1> QED
  BY <1>2, <1>3

LEMMA TablesUnchanged ==
    ASSUME UNCHANGED tableVars
    PROVE  /\ TableInv => TableInv'
           /\ UNCHANGED sessionIdMap => (IdInv => IdInv')
BY DEF tableVars, TableInv, ObjectsNotShared, Slots, Pooled, IdInv

(* --------------------------- the steps of Next --------------------------- *)

(* A step of opening keeps the invariant; only NewSessionAllocate touches    *)
(* the tables, only Connect the ids.                                         *)
LEMMA OpenKeeps ==
    ASSUME IInv, NEW w \in Workers, Open(w)
    PROVE  IInv'
<1>0. /\ TaskInv /\ TableInv /\ LockInv /\ IdInv
      /\ w \in Threads /\ w # TIMER
  BY ThreadFacts DEF IInv
<1>1. CASE Connect(w)
  <2>1. PICK r \in SessionIds \cup {ERROR_SESSION_ID} :
          /\ ConnectPeer(task[w].addr, r)
          /\ task' = [task EXCEPT ![w] =
                 IF r = ERROR_SESSION_ID THEN Idle
                 ELSE [@ EXCEPT !.pc = "new", !.sid = r]]
    BY <1>1 DEF Connect
  <2> DEFINE x == IF r = ERROR_SESSION_ID THEN Idle
                  ELSE [task[w] EXCEPT !.pc = "new", !.sid = r]
  <2>2. x \in Tasks /\ x.pc \in {"idle", "new"}
        /\ (x.pc = "new" => x.sid \in SessionIds)
    <3>1. task[w] \in Tasks
      BY <1>0 DEF TaskInv
    <3>2. r # ERROR_SESSION_ID =>
             /\ [task[w] EXCEPT !.pc = "new", !.sid = r] \in Tasks
             /\ [task[w] EXCEPT !.pc = "new", !.sid = r].pc = "new"
             /\ [task[w] EXCEPT !.pc = "new", !.sid = r].sid = r
             /\ r \in SessionIds
      BY <2>1, <3>1 DEF Tasks, PCs
    <3> QED
      BY <3>2, IdleTask
  <2>3. task' = [task EXCEPT ![w] = x]
    BY <1>0, <2>1 DEF TaskInv
  <2> HIDE DEF x
  <2>4. TaskInv' /\ task'[w] = x /\ \A u \in Threads : u # w => task'[u] = task[u]
    BY <1>0, <2>2, <2>3, SetTask
  <2>5. LockInv'
    BY <1>0, <1>1, <2>2, <2>4, LocksKept DEF Connect, At
  <2>6. IdInv'
    BY <1>0, <2>1 DEF IdInv, ConnectPeer, pmVars, sessionIdVars
  <2> QED
    BY <1>0, <1>1, <2>4, <2>5, <2>6, TablesUnchanged DEF IInv, Connect
<1>2. CASE NewSessionTest(w)
  <2>1. PICK x \in Tasks :
          /\ task' = [task EXCEPT ![w] = x]
          /\ x.pc \in {"idle", "allocate"}
          /\ x.pc = "allocate" => x.sid \in SessionIds
    <3>1. task[w] \in Tasks /\ task[w].sid \in SessionIds
      BY <1>0, <1>2 DEF TaskInv, NewSessionTest, At
    <3>2. [task[w] EXCEPT !.pc = "allocate"] \in Tasks
      BY <3>1 DEF Tasks, PCs
    <3>3. task' = [task EXCEPT ![w] = IF sessionArr[task[w].sid] # NULL THEN Idle
                                      ELSE [task[w] EXCEPT !.pc = "allocate"]]
      BY <1>0, <1>2 DEF NewSessionTest, TaskInv
    <3>4. CASE sessionArr[task[w].sid] # NULL
      BY <3>3, <3>4, IdleTask
    <3>5. CASE sessionArr[task[w].sid] = NULL
      BY <3>1, <3>2, <3>3, <3>5 DEF Tasks
    <3> QED
      BY <3>4, <3>5
  <2>2. TaskInv' /\ task'[w] = x /\ \A u \in Threads : u # w => task'[u] = task[u]
    BY <1>0, <2>1, SetTask
  <2>3. LockInv'
    BY <1>0, <1>2, <2>1, <2>2, LocksKept DEF NewSessionTest, At
  <2> QED
    BY <1>0, <1>2, <2>2, <2>3, TablesUnchanged
       DEF IInv, NewSessionTest, pmVars, sessionIdVars
<1>3. CASE NewSessionAllocate(w)
  <2>1. TableInv'
    BY <1>3, AllocateKeepsTables
  <2>2. task[w].sid \in SessionIds /\ Goto(w, "init")
    BY <1>0, <1>3 DEF TaskInv, NewSessionAllocate, At
  <2>3. /\ TaskInv'
        /\ task'[w].pc = "init"
        /\ \A u \in Threads : u # w => task'[u] = task[u]
    BY <1>0, <2>2, GotoTask DEF PCs
  <2>4. /\ sessionLock = FREE
        /\ sessionLock' = w
        /\ timerLock' = timerLock
        /\ IdInv'
    BY <1>0, <1>3 DEF NewSessionAllocate, IdInv, pmVars, sessionIdVars
  <2>5. LockInv'
    BY <1>0, <2>3, <2>4, ThreadFacts DEF LockInv
  <2> QED
    BY <2>1, <2>3, <2>4, <2>5 DEF IInv
<1>4. CASE NewSessionInit(w)
  <2>1. task[w].sid \in SessionIds /\ Goto(w, "accept") /\ task[w].pc = "init"
    BY <1>0, <1>4 DEF TaskInv, NewSessionInit, At
  <2>2. /\ TaskInv'
        /\ task'[w].pc = "accept"
        /\ \A u \in Threads : u # w => task'[u] = task[u]
    BY <1>0, <2>1, GotoTask DEF PCs
  <2>3. sessionLock' = FREE /\ timerLock' = timerLock
    BY <1>4 DEF NewSessionInit
  <2>4. LockInv'
    BY <1>0, <2>1, <2>2, <2>3, ThreadFacts DEF LockInv
  <2> QED
    BY <1>0, <1>4, <2>2, <2>4, TablesUnchanged
       DEF IInv, NewSessionInit, pmVars, sessionIdVars
<1>5. CASE Accept(w)
  <2>1. Done(w) /\ UNCHANGED sessionLock /\ task[w].pc # "init"
    BY <1>5 DEF Accept, At
  <2>2. TaskInv' /\ LockInv'
    BY <1>0, <2>1, DoneKeeps
  <2> QED
    BY <1>0, <1>5, <2>2, TablesUnchanged DEF IInv, Accept, pmVars, sessionIdVars
<1> QED
  BY <1>1, <1>2, <1>3, <1>4, <1>5 DEF Open

\* A worker takes a task from the queue of the reactor.
LEMMA TakeKeeps ==
    ASSUME IInv, NEW w \in Workers, NEW a \in Addrs, TakeGateway(w, a) \/ TakeRecv(w, a)
    PROVE  IInv'
<1>1. /\ TaskInv /\ TableInv /\ LockInv /\ IdInv
      /\ w \in Threads /\ w # TIMER
  BY ThreadFacts DEF IInv
<1>2. PICK x \in Tasks :
        /\ task' = [task EXCEPT ![w] = x]
        /\ x.pc \in {"gateway", "disconnect"}
        /\ x.pc = "disconnect" => x.sid \in SessionIds
  <2>1. Idle \in Tasks
    BY IdleTask
  <2>2. CASE TakeGateway(w, a)
    <3>1. [Idle EXCEPT !.pc = "gateway", !.addr = a] \in Tasks
      BY <2>1 DEF Tasks, PCs
    <3> QED
      BY <2>1, <2>2, <3>1 DEF TakeGateway, Tasks
  <2>3. CASE TakeRecv(w, a)
    <3>1. sessionIdMap[a] \in SessionIds
      BY <1>1, <2>3 DEF TakeRecv, SessionIdOf, IdInv
    <3>2. [Idle EXCEPT !.pc = "disconnect", !.addr = a, !.sid = sessionIdMap[a]] \in Tasks
      BY <2>1, <3>1 DEF Tasks, PCs
    <3> QED
      BY <2>1, <2>3, <3>1, <3>2 DEF TakeRecv, SessionIdOf, Tasks
  <2> QED
    BY <2>2, <2>3
<1>3. TaskInv' /\ task'[w] = x /\ \A u \in Threads : u # w => task'[u] = task[u]
  BY <1>1, <1>2, SetTask
<1>4. UNCHANGED <<pmVars, tableVars, lockVars>> /\ task[w].pc = "idle"
  BY DEF TakeGateway, TakeRecv, At
<1>5. LockInv'
  BY <1>1, <1>2, <1>3, <1>4, LocksKept
<1> QED
  BY <1>1, <1>3, <1>4, <1>5, TablesUnchanged DEF IInv, pmVars, sessionIdVars

\* A step of closing keeps the invariant; DeleteRelease alone touches the
\* tables, Unmap alone the ids.
LEMMA CloseKeeps ==
    ASSUME IInv, NEW t \in Threads, Close(t)
    PROVE  IInv'
<1>0. TaskInv /\ TableInv /\ LockInv /\ IdInv
  BY DEF IInv
<1>1. CASE FindSession(t)
  <2>1. task[t].pc = "disconnect" /\ task[t].sid \in SessionIds /\ task[t] \in Tasks
    BY <1>0, <1>1 DEF FindSession, At, TaskInv
  <2>2. TaskInv' /\ LockInv'
    <3>1. CASE Done(t)
      BY <1>0, <1>1, <2>1, <3>1, DoneKeeps DEF FindSession
    <3>2. CASE ~Done(t)
      <4> DEFINE x == [task[t] EXCEPT !.pc = "address", !.obj = sessionArr[task[t].sid]]
      <4>1. /\ sessionArr[task[t].sid] # NULL
            /\ task' = [task EXCEPT ![t] = x]
            /\ UNCHANGED lockVars
        BY <1>0, <1>1, <3>2 DEF FindSession, TaskInv, lockVars
      <4>2. sessionArr[task[t].sid] \in Objects
        BY <1>0, <2>1, <4>1 DEF TableInv
      <4>3. x \in Tasks /\ x.pc = "address" /\ x.sid \in SessionIds /\ x.obj \in Objects
        BY <2>1, <4>2 DEF Tasks, PCs
      <4> HIDE DEF x
      <4>4. TaskInv' /\ task'[t] = x /\ \A u \in Threads : u # t => task'[u] = task[u]
        BY <1>0, <4>1, <4>3, SetTask
      <4>5. LockInv'
        BY <1>0, <2>1, <4>1, <4>3, <4>4, LocksKept
      <4> QED
        BY <4>4, <4>5
    <3> QED
      BY <3>1, <3>2
  <2> QED
    BY <1>0, <1>1, <2>2, TablesUnchanged DEF IInv, FindSession, pmVars, sessionIdVars
<1>2. CASE ReadAddress(t)
  <2> DEFINE x == [task[t] EXCEPT !.pc = "delete", !.addr = peerAddr[task[t].obj]]
  <2>1. /\ task[t].pc = "address" /\ task[t] \in Tasks
        /\ task[t].sid \in SessionIds /\ task[t].obj \in Objects
        /\ task' = [task EXCEPT ![t] = x]
        /\ UNCHANGED lockVars
    BY <1>0, <1>2 DEF ReadAddress, At, TaskInv
  <2>2. peerAddr[task[t].obj] \in Addrs \cup {NoAddr}
    BY <1>0, <2>1 DEF TableInv
  <2>3. x \in Tasks /\ x.pc = "delete" /\ x.sid \in SessionIds
    BY <2>1, <2>2 DEF Tasks, PCs
  <2> HIDE DEF x
  <2>4. TaskInv' /\ task'[t] = x /\ \A u \in Threads : u # t => task'[u] = task[u]
    BY <1>0, <2>1, <2>3, SetTask
  <2>5. LockInv'
    BY <1>0, <2>1, <2>3, <2>4, LocksKept
  <2> QED
    BY <1>0, <1>2, <2>4, <2>5, TablesUnchanged DEF IInv, ReadAddress, pmVars, sessionIdVars
<1>3. CASE DeleteTest(t)
  <2>1. PICK p \in {"unmap", "release"} :
          Goto(t, p) /\ task[t].pc = "delete" /\ UNCHANGED lockVars
    BY <1>3 DEF DeleteTest, At
  <2>2. TaskInv' /\ LockInv'
    BY <1>0, <2>1, GotoKeeps DEF PCs
  <2> QED
    BY <1>0, <1>3, <2>2, TablesUnchanged DEF IInv, DeleteTest, pmVars, sessionIdVars
<1>4. CASE DeleteRelease(t)
  <2>1. TableInv'
    BY <1>4, ReleaseKeepsTables
  <2>2. Goto(t, "unmap") /\ task[t].pc = "release" /\ UNCHANGED lockVars
    BY <1>4 DEF DeleteRelease, At
  <2>3. TaskInv' /\ LockInv'
    BY <1>0, <2>2, GotoKeeps DEF PCs
  <2> QED
    BY <1>0, <1>4, <2>1, <2>3 DEF IInv, IdInv, DeleteRelease, pmVars, sessionIdVars
<1>5. CASE Unmap(t)
  <2>1. Goto(t, "recycle") /\ task[t].pc = "unmap" /\ UNCHANGED lockVars
    BY <1>5 DEF Unmap, At
  <2>2. TaskInv' /\ LockInv'
    BY <1>0, <2>1, GotoKeeps DEF PCs
  <2>3. sessionIdMap' = [sessionIdMap EXCEPT ![task[t].addr] = 0]
    BY <1>5 DEF Unmap, DisconnectPeer
  <2>4. IdInv'
    BY <1>0, <2>3 DEF IdInv
  <2> QED
    BY <1>0, <1>5, <2>2, <2>4, TablesUnchanged DEF IInv, Unmap, IdInv
<1>6. CASE StartRecycle(t)
  <2>1. Done(t) /\ UNCHANGED sessionLock /\ task[t].pc = "recycle"
    BY <1>6 DEF StartRecycle, At
  <2>2. TaskInv' /\ LockInv'
    BY <1>0, <2>1, DoneKeeps
  <2> QED
    BY <1>0, <1>6, <2>2, TablesUnchanged DEF IInv, StartRecycle, pmVars, sessionIdVars
<1> QED
  BY <1>1, <1>2, <1>3, <1>4, <1>5, <1>6 DEF Close

\* A step of the timer that begins a callback, or runs one to its end.
LEMMA TimerKeeps ==
    ASSUME IInv,
           (\E s \in SessionIds : TakeTimeout(s) \/ CallbackEnds(s)) \/ Recycle
    PROVE  IInv'
<1>0. TaskInv /\ TableInv /\ LockInv /\ IdInv
  BY DEF IInv
<1>1. ASSUME NEW s \in SessionIds, TakeTimeout(s)
      PROVE  IInv'
  <2>1. /\ task[TIMER].pc = "idle"
        /\ sessionArr[s] \in Objects
    BY <1>0, <1>1 DEF TakeTimeout, At, TableInv
  <2>2. peerAddr[sessionArr[s]] \in Addrs \cup {NoAddr}
    BY <1>0, <2>1 DEF TableInv
  <2>3. PICK x \in Tasks :
          /\ task' = [task EXCEPT ![TIMER] = x]
          /\ x.pc = "disconnect"
          /\ x.sid \in SessionIds
    <3>1. PICK inTimer \in BOOLEAN :
            task' = [task EXCEPT ![TIMER] =
               [pc |-> "disconnect", addr |-> peerAddr[sessionArr[s]], sid |-> s,
                obj |-> NULL, inTimer |-> inTimer]]
      BY <1>1 DEF TakeTimeout
    <3> DEFINE y == [pc |-> "disconnect", addr |-> peerAddr[sessionArr[s]], sid |-> s,
                     obj |-> NULL, inTimer |-> inTimer]
    <3>2. y \in Tasks
      BY <2>2 DEF Tasks, PCs
    <3>3. y.pc = "disconnect" /\ y.sid \in SessionIds
      OBVIOUS
    <3>4. task' = [task EXCEPT ![TIMER] = y]
      BY <3>1
    <3> HIDE DEF y
    <3> QED
      BY <3>2, <3>3, <3>4
  <2>4. /\ TaskInv'
        /\ task'[TIMER] = x
        /\ \A u \in Threads : u # TIMER => task'[u] = task[u]
    BY <1>0, <2>3, SetTask, ThreadFacts
  <2>5. timerLock' = TIMER /\ UNCHANGED sessionLock
    BY <1>1 DEF TakeTimeout
  <2>6. LockInv'
    BY <1>0, <2>3, <2>4, <2>5, ThreadFacts DEF LockInv
  <2> QED
    BY <1>0, <1>1, <2>4, <2>6, TablesUnchanged DEF IInv, TakeTimeout, pmVars, sessionIdVars
<1>2. ASSUME NEW s \in SessionIds, CallbackEnds(s)
      PROVE  IInv'
  <2>1. TaskInv' /\ LockInv'
    BY <1>0, <1>2 DEF CallbackEnds, TaskInv, LockInv, lockVars
  <2> QED
    BY <1>0, <1>2, <2>1, TablesUnchanged DEF IInv, CallbackEnds, pmVars, sessionIdVars
<1>3. ASSUME Recycle
      PROVE  IInv'
  <2>1. TaskInv' /\ LockInv'
    BY <1>0, <1>3 DEF Recycle, TaskInv, LockInv, lockVars
  <2>2. IdInv'
    BY <1>0, <1>3 DEF Recycle, RecycleSession, IdInv
  <2> QED
    BY <1>0, <1>3, <2>1, <2>2, TablesUnchanged DEF IInv, Recycle, IdInv
<1> QED
  BY <1>1, <1>2, <1>3

(* ------------------------------ the theorems ------------------------------ *)

LEMMA InitIInv == Init => IInv
<1> SUFFICES ASSUME Init PROVE IInv
  OBVIOUS
<1>1. TaskInv
  BY IdleTask DEF Init, TaskInv, Idle
<1>2. LockInv
  BY IdleTask, ThreadFacts DEF Init, LockInv, Idle
<1>3. IdInv
  BY DEF Init, PeerManagerInit, IdInv
<1>4. TableInv
  <2>1. made \subseteq Objects /\ pool \in Seq(made \cup {NULL})
    BY SessionAssumption DEF Init
  <2>2. ObjectsNotShared
    BY SessionAssumption DEF Init, ObjectsNotShared, Slots, Pooled
  <2> QED
    BY <2>1, <2>2 DEF Init, TableInv
<1> QED
  BY <1>1, <1>2, <1>3, <1>4 DEF IInv

LEMMA NextIInv == IInv /\ [Next]_vars => IInv'
<1> SUFFICES ASSUME IInv, [Next]_vars PROVE IInv'
  OBVIOUS
<1>1. CASE Next
  BY <1>1, OpenKeeps, TakeKeeps, CloseKeeps, TimerKeeps DEF Next, Step
<1>2. CASE UNCHANGED vars
  <2>1. TaskInv' /\ LockInv' /\ IdInv'
    BY <1>2 DEF IInv, TaskInv, LockInv, IdInv, vars, lockVars, pmVars, sessionIdVars
  <2> QED
    BY <1>2, <2>1, TablesUnchanged DEF IInv, vars, IdInv
<1> QED
  BY <1>1, <1>2

\* The tables keep their types, m_SessionMutex is held by a worker inside
\* new_session() or by nobody, and m_TimerMutex by the timer thread exactly
\* while it runs a callback: in every state, whatever the threads interleave.
THEOREM TypeCorrect == Spec => []TypeOK
<1>1. IInv => TypeOK
  BY DEF IInv, TypeOK, TableInv, LockInv, IdInv
<1> QED
  BY <1>1, InitIInv, NextIInv, PTL DEF Spec

\* A Session object is never in two slots of m_SessionArr, never in a slot and
\* in the pool at once, and never twice in the pool: although new_session()
\* and _delete_session() look at a slot without the lock, no two sessions come
\* to share an object.
THEOREM ObjectsStayApart == Spec => []ObjectsNotShared
<1>1. IInv => ObjectsNotShared
  BY DEF IInv, TableInv
<1> QED
  BY <1>1, InitIInv, NextIInv, PTL DEF Spec

(* ------------------------- refinement of PeerUse -------------------------- *)

Unslotted == {"new", "allocate", "unmap"}
Slotted == {"init", "accept", "disconnect", "address", "delete", "release"}

\* How far a thread whose task is x has come with the id it has taken: from
\* m_SessionIdMap to m_SessionArr and back.
StepOf(x) ==
    /\ x.pc = "idle" => x.addr = NoAddr
    /\ x.pc # "idle" => x.addr \in Addrs
    /\ x.pc \in {"gateway", "recycle"} => sessionIdMap[x.addr] = 0
    /\ x.pc \in Unslotted => sessionIdMap[x.addr] = x.sid /\ sessionArr[x.sid] = NULL
    /\ x.pc \in Slotted => sessionIdMap[x.addr] = x.sid /\ sessionArr[x.sid] # NULL
    /\ x.pc = "address" => x.obj = sessionArr[x.sid]

\* What nobody is working on agrees in both tables.
LinkInv ==
    /\ \A t \in Threads : StepOf(task[t])
    /\ \A t, u \in Threads : task[t].addr = task[u].addr /\ task[t].addr # NoAddr => t = u
    /\ \A s \in SessionIds : sessionArr[s] # NULL =>
           /\ peerAddr[sessionArr[s]] \in Addrs
           /\ sessionIdMap[peerAddr[sessionArr[s]]] = s
    /\ \A a \in Addrs : sessionIdMap[a] # 0 /\ sessionArr[sessionIdMap[a]] = NULL =>
           \E t \in Threads : task[t].addr = a

\* Every object is in a slot or in the pool, and nothing else is in the pool.
PoolInv ==
    /\ ~crashed
    /\ \A i \in DOMAIN pool : pool[i] # NULL
    /\ \A o \in made : \/ \E s \in SessionIds : sessionArr[s] = o
                       \/ \E i \in DOMAIN pool : pool[i] = o

\* A session id is registered, or waits for its recycle timer to be started, or
\* to run, or in the queue, and in one place only.
AtRecycle(t) == task[t].pc = "recycle"

IdsInv ==
    /\ sessionNum \in 0..SessionCapacity
    /\ sessionIdQueue \in Seq(SessionIds)
    /\ recycling \in Seq(SessionIds)
    /\ \A a \in Addrs : sessionIdMap[a] <= sessionNum
    /\ \A a, b \in Addrs : sessionIdMap[a] = sessionIdMap[b] /\ sessionIdMap[a] # 0 => a = b
    /\ \A i \in DOMAIN sessionIdQueue :
           /\ sessionIdQueue[i] <= sessionNum
           /\ \A a \in Addrs : sessionIdMap[a] # sessionIdQueue[i]
           /\ \A j \in DOMAIN sessionIdQueue : sessionIdQueue[i] = sessionIdQueue[j] => i = j
           /\ \A j \in DOMAIN recycling : sessionIdQueue[i] # recycling[j]
    /\ \A i \in DOMAIN recycling :
           /\ recycling[i] <= sessionNum
           /\ \A a \in Addrs : sessionIdMap[a] # recycling[i]
           /\ \A j \in DOMAIN recycling : recycling[i] = recycling[j] => i = j
    /\ \A t \in Threads : AtRecycle(t) =>
           /\ task[t].sid <= sessionNum
           /\ \A a \in Addrs : sessionIdMap[a] # task[t].sid
           /\ \A i \in DOMAIN sessionIdQueue : sessionIdQueue[i] # task[t].sid
           /\ \A i \in DOMAIN recycling : recycling[i] # task[t].sid
           /\ \A u \in Threads : AtRecycle(u) /\ task[u].sid = task[t].sid => t = u

RInv == LinkInv /\ PoolInv /\ IdsInv

-----------------------------------------------------------------------------
(* The atomic operations are those of PeerManager.                           *)

LEMMA SameConnect ==
    ASSUME NEW a, NEW r, ConnectPeer(a, r)
    PROVE  Atomic!ConnectPeer(a, r)
  BY DEF ConnectPeer, Atomic!ConnectPeer, NextSessionId, Atomic!NextSessionId,
         ReferToGoodPeer, Atomic!ReferToGoodPeer, CreatePeer, Atomic!CreatePeer,
         NewPeer, Atomic!NewPeer, Inc, Atomic!Inc, SessionIds, Atomic!SessionIds,
         pmVars, peerVars, sessionIdVars, Atomic!pmVars, Atomic!peerVars, Atomic!sessionIdVars,
         ABSENT, Atomic!ABSENT, GOOD, Atomic!GOOD, QUESTIONABLE, Atomic!QUESTIONABLE,
         ERROR_SESSION_ID, Atomic!ERROR_SESSION_ID

LEMMA SameDisconnect ==
    ASSUME NEW a, DisconnectPeer(a)
    PROVE  Atomic!DisconnectPeer(a)
  BY DEF DisconnectPeer, Atomic!DisconnectPeer, ErasePeer, Atomic!ErasePeer, Dec, Atomic!Dec,
         DefaultPeer, Atomic!DefaultPeer, peerVars, Atomic!peerVars, BAD, Atomic!BAD,
         ABSENT, Atomic!ABSENT, QUESTIONABLE, Atomic!QUESTIONABLE

LEMMA SameRecycle ==
    ASSUME NEW s, RecycleSession(s)
    PROVE  Atomic!RecycleSession(s)
  BY DEF RecycleSession, Atomic!RecycleSession, peerVars, Atomic!peerVars

-----------------------------------------------------------------------------
(* Steps of one thread.                                                      *)

\* As long as no two threads meet, the threads after the step are apart.
LEMMA Apart ==
    ASSUME TaskInv', ~Meeting'
    PROVE  \A t, u \in Threads :
               /\ task'[t].pc # "idle" /\ task'[u].pc # "idle"
               /\ task'[t].addr = task'[u].addr /\ task'[t].addr \in Addrs
               => t = u
  BY DEF Meeting, Engaged

\* A thread goes on, or begins, or ends, and the tables stay.
LEMMA ThreadStep ==
    ASSUME LinkInv, NEW t \in Threads, NEW x,
           task \in [Threads -> Tasks],
           task' = [task EXCEPT ![t] = x], StepOf(x),
           UNCHANGED <<sessionIdMap, sessionArr, peerAddr>>,
           \A u \in Threads : task[u].addr = x.addr /\ x.addr # NoAddr => t = u,
           \/ x.addr = task[t].addr
           \/ sessionIdMap[task[t].addr] = 0
           \/ sessionArr[sessionIdMap[task[t].addr]] # NULL
    PROVE  LinkInv'
<1>1. task'[t] = x /\ \A u \in Threads : u # t => task'[u] = task[u]
  OBVIOUS
<1>2. \A u \in Threads : StepOf(task[u])'
  <2>1. TAKE u \in Threads
  <2>2. StepOf(task[u]) BY DEF LinkInv
  <2>3. task'[u] = x \/ task'[u] = task[u] BY <1>1
  <2> QED BY <2>2, <2>3 DEF StepOf
<1>3. \A u, v \in Threads : task'[u].addr = task'[v].addr /\ task'[u].addr # NoAddr => u = v
  BY <1>1 DEF LinkInv
<1>4. ASSUME NEW a \in Addrs, sessionIdMap[a] # 0, sessionArr[sessionIdMap[a]] = NULL
      PROVE  \E u \in Threads : task'[u].addr = a
  <2>1. PICK u \in Threads : task[u].addr = a BY <1>4 DEF LinkInv
  <2>2. CASE u = t BY <1>1, <1>4, <2>1, <2>2
  <2>3. CASE u # t BY <1>1, <2>1, <2>3
  <2> QED BY <2>2, <2>3
<1> QED BY <1>2, <1>3, <1>4 DEF LinkInv

\* The ids stay where they are.
LEMMA IdsKept ==
    ASSUME IdsInv, UNCHANGED <<sessionNum, sessionIdMap, sessionIdQueue, recycling>>,
           \A t \in Threads : task'[t].pc = "recycle" => task'[t] = task[t]
    PROVE  IdsInv'
<1>1. \A t \in Threads : AtRecycle(t)' => AtRecycle(t) /\ task'[t].sid = task[t].sid
  BY DEF AtRecycle
<1> QED BY <1>1 DEF IdsInv

\* A step of t after which its task is x, which moves no id.
LEMMA QuietStep ==
    ASSUME IInv, RInv, TaskInv', ~Meeting', NEW t \in Threads, NEW x,
           task' = [task EXCEPT ![t] = x], StepOf(x), x.pc # "recycle",
           UNCHANGED <<pmVars, tableVars, crashed, recycling>>,
           \/ x.addr = task[t].addr
           \/ sessionIdMap[task[t].addr] = 0
           \/ sessionArr[sessionIdMap[task[t].addr]] # NULL
           \/ task[t].pc = "idle"
    PROVE  RInv'
<1>1. task'[t] = x /\ task \in [Threads -> Tasks] /\ \A u \in Threads : u # t => task'[u] = task[u]
  BY DEF IInv, TaskInv
<1>2. UNCHANGED <<sessionIdMap, sessionArr, peerAddr, sessionNum, sessionIdQueue, pool, made>>
  BY DEF pmVars, sessionIdVars, tableVars
<1>3. \A u \in Threads : task[u].addr = x.addr /\ x.addr # NoAddr => t = u
  <2>1. SUFFICES ASSUME NEW u \in Threads, u # t, task[u].addr = x.addr, x.addr # NoAddr
                 PROVE  FALSE
    OBVIOUS
  <2>2. StepOf(task[u]) BY DEF RInv, LinkInv
  <2>3. task[u].pc # "idle" /\ x.pc # "idle" /\ x.addr \in Addrs
    BY <2>1, <2>2 DEF StepOf
  <2>4. t = u BY <1>1, <2>1, <2>3, Apart
  <2> QED BY <2>1, <2>4
<1>4. LinkInv'
  <2>1. CASE task[t].pc # "idle" BY <1>1, <1>2, <1>3, <2>1, ThreadStep DEF RInv
  <2>2. CASE task[t].pc = "idle"
    <3>0. \A u \in Threads : StepOf(task[u]) BY DEF RInv, LinkInv
    <3>1. task[t].addr = NoAddr /\ NoAddr \notin Addrs
      <4>1. StepOf(task[t]) BY <3>0
      <4>2. task[t].addr = NoAddr BY <2>2, <4>1 DEF StepOf
      <4> QED BY <4>2, ConstantsAssumption
    <3>2. \A u \in Threads : StepOf(task[u])'
      <4>1. TAKE u \in Threads
      <4>2. task'[u] = x \/ task'[u] = task[u] BY <1>1
      <4> QED BY <1>2, <3>0, <4>2 DEF StepOf
    <3>3. \A u, v \in Threads : task'[u].addr = task'[v].addr /\ task'[u].addr # NoAddr => u = v
      BY <1>1, <1>3 DEF RInv, LinkInv
    <3>4. \A a \in Addrs : sessionIdMap'[a] # 0 /\ sessionArr'[sessionIdMap'[a]] = NULL =>
              \E u \in Threads : task'[u].addr = a
      BY <1>1, <1>2, <3>1 DEF RInv, LinkInv
    <3> QED BY <1>2, <3>2, <3>3, <3>4 DEF RInv, LinkInv
  <2> QED BY <2>1, <2>2
<1>5. IdsInv' BY <1>1, <1>2, IdsKept DEF RInv
<1>6. PoolInv' BY <1>2 DEF RInv, PoolInv
<1> QED BY <1>4, <1>5, <1>6 DEF RInv

\* The session id of a registered address, and the slot of a session.
LEMMA Linked ==
    ASSUME IInv, RInv
    PROVE  /\ \A a \in Addrs : sessionIdMap[a] \in SessionIds \cup {0}
           /\ \A a \in Addrs : \A s \in SessionIds :
                  sessionIdMap[a] = s /\ sessionArr[s] # NULL => peerAddr[sessionArr[s]] = a
  BY ThreadFacts DEF IInv, IdInv, RInv, LinkInv, IdsInv

\* What is known of the thread t while no two threads meet.
LEMMA Known ==
    ASSUME IInv, RInv, NEW t \in Threads
    PROVE  /\ task[t] \in Tasks
           /\ StepOf(task[t])
           /\ task[t].pc \notin {"idle", "gateway"} => task[t].sid \in SessionIds
           /\ \A x : task' = [task EXCEPT ![t] = x] =>
                  task'[t] = x /\ \A u \in Threads : u # t => task'[u] = task[u]
           /\ \A p : Goto(t, p) => task' = [task EXCEPT ![t] = [task[t] EXCEPT !.pc = p]]
  BY DEF IInv, TaskInv, RInv, LinkInv, Goto

-----------------------------------------------------------------------------
(* The steps that leave the tables alone.                                    *)

LEMMA TakeQuiet ==
    ASSUME IInv, RInv, TaskInv', ~Meeting', NEW w \in Workers, NEW a \in Addrs,
           TakeGateway(w, a) \/ TakeRecv(w, a)
    PROVE  RInv'
<1>0. w \in Threads BY ThreadFacts
<1>1. /\ task[w].pc = "idle"
      /\ UNCHANGED <<pmVars, tableVars, crashed, recycling>>
  BY DEF TakeGateway, TakeRecv, At, timerVars
<1>2. CASE TakeGateway(w, a)
  <2> DEFINE x == [Idle EXCEPT !.pc = "gateway", !.addr = a]
  <2>1. task' = [task EXCEPT ![w] = x] /\ sessionIdMap[a] = 0
    BY <1>2 DEF TakeGateway, SessionIdOf
  <2>2. x.pc = "gateway" /\ x.addr = a BY DEF Idle
  <2> HIDE DEF x
  <2>3. StepOf(x) BY <2>1, <2>2 DEF StepOf, Unslotted, Slotted
  <2> QED BY <1>0, <1>1, <2>1, <2>2, <2>3, QuietStep
<1>3. CASE TakeRecv(w, a)
  <2> DEFINE x == [Idle EXCEPT !.pc = "disconnect", !.addr = a, !.sid = sessionIdMap[a]]
  <2>1. task' = [task EXCEPT ![w] = x] /\ sessionIdMap[a] # 0
    BY <1>3 DEF TakeRecv, SessionIdOf
  <2>2. x.pc = "disconnect" /\ x.addr = a /\ x.sid = sessionIdMap[a] BY DEF Idle
  <2> HIDE DEF x
  <2>3. sessionArr[sessionIdMap[a]] # NULL
    <3>1. SUFFICES ASSUME sessionArr[sessionIdMap[a]] = NULL PROVE FALSE OBVIOUS
    <3>2. PICK u \in Threads : task[u].addr = a BY <2>1, <3>1 DEF RInv, LinkInv
    <3>3. StepOf(task[u]) /\ StepOf(task[w]) BY <1>0, <3>2, Known
    <3>4. task[u].pc # "idle" /\ u # w
      <4>1. NoAddr \notin Addrs BY ConstantsAssumption
      <4> QED BY <1>1, <3>2, <3>3, <4>1 DEF StepOf
    <3>5. task'[w] = x /\ task'[u] = task[u] BY <1>0, <2>1, <3>2, <3>4, Known
    <3> QED BY <1>0, <2>2, <3>2, <3>4, <3>5, Apart
  <2>4. StepOf(x) BY <2>1, <2>2, <2>3 DEF StepOf, Unslotted, Slotted
  <2> QED BY <1>0, <1>1, <2>1, <2>2, <2>4, QuietStep
<1> QED BY <1>2, <1>3

LEMMA TimerQuiet ==
    ASSUME IInv, RInv, TaskInv', ~Meeting', NEW s \in SessionIds,
           TakeTimeout(s) \/ CallbackEnds(s)
    PROVE  RInv'
<1>1. CASE TakeTimeout(s)
  <2>1. PICK inTimer \in BOOLEAN :
          task' = [task EXCEPT ![TIMER] =
               [pc |-> "disconnect", addr |-> peerAddr[sessionArr[s]], sid |-> s,
                obj |-> NULL, inTimer |-> inTimer]]
    BY <1>1 DEF TakeTimeout
  <2> DEFINE x == [pc |-> "disconnect", addr |-> peerAddr[sessionArr[s]], sid |-> s,
                   obj |-> NULL, inTimer |-> inTimer]
  <2>2. /\ task' = [task EXCEPT ![TIMER] = x]
        /\ x.pc = "disconnect" /\ x.sid = s /\ x.addr = peerAddr[sessionArr[s]]
    BY <2>1
  <2> HIDE DEF x
  <2>3. /\ sessionArr[s] # NULL
        /\ task[TIMER].pc = "idle"
        /\ UNCHANGED <<pmVars, tableVars, crashed, recycling>>
    BY <1>1 DEF TakeTimeout, At
  <2>4. x.addr \in Addrs /\ sessionIdMap[x.addr] = s
    BY <2>2, <2>3 DEF RInv, LinkInv
  <2>5. StepOf(x) BY <2>2, <2>3, <2>4 DEF StepOf, Unslotted, Slotted
  <2> QED BY <2>2, <2>3, <2>5, QuietStep, ThreadFacts
<1>2. CASE CallbackEnds(s)
  <2>1. UNCHANGED <<pmVars, tableVars, task, crashed, recycling>>
    BY <1>2 DEF CallbackEnds
  <2> QED BY <2>1 DEF RInv, LinkInv, StepOf, PoolInv, IdsInv, AtRecycle, pmVars, sessionIdVars,
                      tableVars
<1> QED BY <1>1, <1>2

\* The threads that open a session find its slot empty, and accept it.
LEMMA OpenQuiet ==
    ASSUME IInv, RInv, TaskInv', ~Meeting', NEW w \in Workers,
           NewSessionTest(w) \/ NewSessionInit(w) \/ Accept(w)
    PROVE  RInv'
<1>0. w \in Threads /\ task[w] \in Tasks /\ StepOf(task[w])
  BY ThreadFacts, Known
<1>1. UNCHANGED <<pmVars, tableVars, crashed, recycling>>
  BY DEF NewSessionTest, NewSessionInit, Accept, timerVars
<1>2. CASE NewSessionTest(w)
  <2> DEFINE x == [task[w] EXCEPT !.pc = "allocate"]
  <2>1. task[w].pc = "new" /\ sessionArr[task[w].sid] = NULL
    BY <1>0, <1>2 DEF NewSessionTest, At, StepOf, Unslotted
  <2>2. task' = [task EXCEPT ![w] = x]
    BY <1>0, <1>2, <2>1 DEF NewSessionTest, IInv, TaskInv
  <2>3. x.pc = "allocate" /\ x.addr = task[w].addr /\ x.sid = task[w].sid
    BY <1>0 DEF Tasks
  <2> HIDE DEF x
  <2>4. StepOf(x) BY <1>0, <2>1, <2>3 DEF StepOf, Unslotted, Slotted
  <2> QED BY <1>0, <1>1, <2>2, <2>3, <2>4, QuietStep
<1>3. CASE NewSessionInit(w)
  <2> DEFINE x == [task[w] EXCEPT !.pc = "accept"]
  <2>1. task[w].pc = "init" /\ task' = [task EXCEPT ![w] = x]
    BY <1>0, <1>3, Known DEF NewSessionInit, At
  <2>2. x.pc = "accept" /\ x.addr = task[w].addr /\ x.sid = task[w].sid
    BY <1>0 DEF Tasks
  <2> HIDE DEF x
  <2>3. StepOf(x) BY <1>0, <2>1, <2>2 DEF StepOf, Unslotted, Slotted
  <2> QED BY <1>0, <1>1, <2>1, <2>2, <2>3, QuietStep
<1>4. CASE Accept(w)
  <2>1. task[w].pc = "accept" /\ task' = [task EXCEPT ![w] = Idle]
    BY <1>4 DEF Accept, At, Done
  <2>2. sessionArr[sessionIdMap[task[w].addr]] # NULL
    BY <1>0, <2>1 DEF StepOf, Slotted
  <2>3. StepOf(Idle) /\ Idle.pc = "idle" BY DEF StepOf, Idle, Unslotted, Slotted
  <2> QED BY <1>0, <1>1, <2>1, <2>2, <2>3, QuietStep
<1> QED BY <1>2, <1>3, <1>4

\* The threads that close one find it, with the address they have it from.
LEMMA CloseQuiet ==
    ASSUME IInv, RInv, TaskInv', ~Meeting', NEW t \in Threads,
           FindSession(t) \/ ReadAddress(t) \/ DeleteTest(t)
    PROVE  RInv'
<1>0. task[t] \in Tasks /\ StepOf(task[t]) BY Known
<1>1. UNCHANGED <<pmVars, tableVars, crashed, recycling>>
  BY DEF FindSession, ReadAddress, DeleteTest, timerVars
<1>2. CASE FindSession(t)
  <2> DEFINE x == [task[t] EXCEPT !.pc = "address", !.obj = sessionArr[task[t].sid]]
  <2>1. task[t].pc = "disconnect" /\ sessionArr[task[t].sid] # NULL
    BY <1>0, <1>2 DEF FindSession, At, StepOf, Slotted
  <2>2. task' = [task EXCEPT ![t] = x]
    BY <1>0, <1>2, <2>1 DEF FindSession, IInv, TaskInv
  <2>3. /\ x.pc = "address" /\ x.addr = task[t].addr /\ x.sid = task[t].sid
        /\ x.obj = sessionArr[task[t].sid]
    BY <1>0 DEF Tasks
  <2> HIDE DEF x
  <2>4. StepOf(x) BY <1>0, <2>1, <2>3 DEF StepOf, Unslotted, Slotted
  <2> QED BY <1>0, <1>1, <2>2, <2>3, <2>4, QuietStep
<1>3. CASE ReadAddress(t)
  <2> DEFINE x == [task[t] EXCEPT !.pc = "delete", !.addr = peerAddr[task[t].obj]]
  <2>1. /\ task[t].pc = "address"
        /\ task' = [task EXCEPT ![t] = x]
    BY <1>0, <1>3 DEF ReadAddress, At, IInv, TaskInv
  <2>2. peerAddr[task[t].obj] = task[t].addr
    <3>1. /\ task[t].addr \in Addrs /\ task[t].sid \in SessionIds
          /\ sessionIdMap[task[t].addr] = task[t].sid
          /\ sessionArr[task[t].sid] # NULL /\ task[t].obj = sessionArr[task[t].sid]
      BY <1>0, <2>1, Known DEF StepOf, Slotted
    <3> QED BY <3>1, Linked
  <2>3. x.pc = "delete" /\ x.addr = task[t].addr /\ x.sid = task[t].sid
    BY <1>0, <2>2 DEF Tasks
  <2> HIDE DEF x
  <2>4. StepOf(x) BY <1>0, <2>1, <2>3 DEF StepOf, Unslotted, Slotted
  <2> QED BY <1>0, <1>1, <2>1, <2>3, <2>4, QuietStep
<1>4. CASE DeleteTest(t)
  <2> DEFINE x == [task[t] EXCEPT !.pc = "release"]
  <2>1. task[t].pc = "delete" /\ sessionArr[task[t].sid] # NULL
    BY <1>0, <1>4 DEF DeleteTest, At, StepOf, Slotted
  <2>2. task' = [task EXCEPT ![t] = x]
    BY <1>4, <2>1, Known DEF DeleteTest
  <2>3. x.pc = "release" /\ x.addr = task[t].addr /\ x.sid = task[t].sid
    BY <1>0 DEF Tasks
  <2> HIDE DEF x
  <2>4. StepOf(x) BY <1>0, <2>1, <2>3 DEF StepOf, Unslotted, Slotted
  <2> QED BY <1>0, <1>1, <2>2, <2>3, <2>4, QuietStep
<1> QED BY <1>2, <1>3, <1>4

-----------------------------------------------------------------------------
(* The steps that move an id or an object.                                   *)

\* The id that _session_id() draws is in no table, and leaves the queue.
LEMMA DrawnIsNew ==
    ASSUME IdsInv, NEW s, NextSessionId(s)
    PROVE  /\ sessionNum' \in 0..SessionCapacity /\ sessionNum <= sessionNum'
           /\ sessionIdQueue' \in Seq(SessionIds)
           /\ \A i \in DOMAIN sessionIdQueue' : \E j \in DOMAIN sessionIdQueue :
                  sessionIdQueue'[i] = sessionIdQueue[j]
           /\ \A i, j \in DOMAIN sessionIdQueue' :
                  sessionIdQueue'[i] = sessionIdQueue'[j] => i = j
           /\ s \in SessionIds =>
                  /\ s <= sessionNum'
                  /\ \A i \in DOMAIN sessionIdQueue' : sessionIdQueue'[i] # s
                  /\ \A i \in DOMAIN recycling : recycling[i] # s
                  /\ \A a \in Addrs : sessionIdMap[a] # s
                  /\ \A t \in Threads : AtRecycle(t) => task[t].sid # s
<1>0. /\ SessionCapacity \in Nat
      /\ SessionIds = 1..SessionCapacity
      /\ ERROR_SESSION_ID \notin SessionIds
  BY ConstantsAssumption DEF SessionIds, ERROR_SESSION_ID
<1>1. CASE sessionIdQueue # <<>>
  <2>1. /\ s = Head(sessionIdQueue)
        /\ sessionIdQueue' = Tail(sessionIdQueue)
        /\ UNCHANGED sessionNum
    BY <1>1 DEF NextSessionId
  <2>2. /\ sessionIdQueue \in Seq(SessionIds)
        /\ Len(sessionIdQueue) \in Nat \ {0}
        /\ DOMAIN sessionIdQueue = 1..Len(sessionIdQueue)
    BY <1>1 DEF IdsInv
  <2>3. /\ sessionIdQueue' \in Seq(SessionIds)
        /\ DOMAIN sessionIdQueue' = 1..(Len(sessionIdQueue) - 1)
        /\ \A i \in DOMAIN sessionIdQueue' :
               i + 1 \in DOMAIN sessionIdQueue /\ i \in Nat \ {0}
               /\ sessionIdQueue'[i] = sessionIdQueue[i + 1]
        /\ 1 \in DOMAIN sessionIdQueue /\ s = sessionIdQueue[1]
    BY <2>1, <2>2
  <2>4. /\ \A i, j \in DOMAIN sessionIdQueue : sessionIdQueue[i] = sessionIdQueue[j] => i = j
        /\ s <= sessionNum
        /\ \A i \in DOMAIN recycling : recycling[i] # s
        /\ \A a \in Addrs : sessionIdMap[a] # s
        /\ \A t \in Threads : AtRecycle(t) => task[t].sid # s
        /\ sessionNum \in 0..SessionCapacity
    BY <2>3 DEF IdsInv
  <2>5. \A i, j \in DOMAIN sessionIdQueue' : sessionIdQueue'[i] = sessionIdQueue'[j] => i = j
    <3>1. TAKE i, j \in DOMAIN sessionIdQueue'
    <3>2. HAVE sessionIdQueue'[i] = sessionIdQueue'[j]
    <3>3. i + 1 = j + 1 BY <2>3, <2>4, <3>2
    <3> QED BY <2>3, <3>3
  <2>6. \A i \in DOMAIN sessionIdQueue' : sessionIdQueue'[i] # s
    <3>1. TAKE i \in DOMAIN sessionIdQueue'
    <3>2. i + 1 # 1 BY <2>3
    <3> QED BY <2>3, <2>4, <3>2
  <2>7. sessionNum' \in 0..SessionCapacity /\ sessionNum <= sessionNum' /\ s <= sessionNum'
    <3>1. sessionNum' = sessionNum BY <2>1
    <3> QED BY ONLY <1>0, <2>4, <3>1
  <2>8. \A i \in DOMAIN sessionIdQueue' : \E j \in DOMAIN sessionIdQueue :
            sessionIdQueue'[i] = sessionIdQueue[j]
    BY ONLY <2>3
  <2> QED BY ONLY <2>3, <2>4, <2>5, <2>6, <2>7, <2>8
<1>2. CASE sessionIdQueue = <<>>
  <2>0. \/ /\ sessionNum # SessionCapacity
           /\ s = sessionNum + 1
           /\ sessionNum' = s
           /\ UNCHANGED sessionIdQueue
        \/ /\ s = ERROR_SESSION_ID
           /\ UNCHANGED <<sessionNum, sessionIdQueue>>
    BY <1>2 DEF NextSessionId
  <2>1. DOMAIN sessionIdQueue' = {} /\ sessionIdQueue' \in Seq(SessionIds)
    <3>1. sessionIdQueue' = <<>> BY <1>2, <2>0
    <3> QED BY ONLY <3>1
  <2>2. /\ sessionNum' \in 0..SessionCapacity
        /\ sessionNum <= sessionNum'
        /\ s \in SessionIds => s = sessionNum + 1 /\ s = sessionNum'
    <3>1. sessionNum \in 0..SessionCapacity BY DEF IdsInv
    <3> QED BY ONLY <1>0, <2>0, <3>1
  <2>3. ASSUME s \in SessionIds
        PROVE  /\ \A i \in DOMAIN recycling : recycling[i] # s
               /\ \A a \in Addrs : sessionIdMap[a] # s
               /\ \A t \in Threads : AtRecycle(t) => task[t].sid # s
    <3>1. s = sessionNum + 1 /\ sessionNum \in Nat /\ ~(s <= sessionNum)
      BY <2>2, <2>3 DEF IdsInv
    <3> QED BY <3>1 DEF IdsInv
  <2>4. s \in SessionIds => s <= sessionNum'
    BY ONLY <1>0, <2>2
  <2> QED BY ONLY <2>1, <2>2, <2>3, <2>4
<1> QED BY <1>1, <1>2

LEMMA ConnectKeeps ==
    ASSUME IInv, IInv', RInv, ~Meeting', NEW w \in Workers, Connect(w)
    PROVE  RInv'
<1> DEFINE a == task[w].addr
<1>0. /\ w \in Threads /\ task[w] \in Tasks /\ StepOf(task[w])
      /\ task[w].pc = "gateway"
      /\ UNCHANGED <<sessionArr, peerAddr, pool, made, crashed, recycling>>
  BY ThreadFacts, Known DEF Connect, At, tableVars, timerVars
<1>1. a \in Addrs /\ sessionIdMap[a] = 0 /\ task \in [Threads -> Tasks]
      /\ sessionIdMap \in [Addrs -> SessionIds \cup {0}]
  BY <1>0 DEF StepOf, IInv, TaskInv, IdInv
<1>2. PICK r \in SessionIds \cup {ERROR_SESSION_ID} :
         /\ ConnectPeer(a, r)
         /\ task' = [task EXCEPT ![w] =
                IF r = ERROR_SESSION_ID THEN Idle
                ELSE [@ EXCEPT !.pc = "new", !.sid = r]]
  BY DEF Connect
<1> HIDE DEF a
<1>3. PoolInv' BY <1>0 DEF RInv, PoolInv
<1>4. CASE r = ERROR_SESSION_ID
  <2>0. ERROR_SESSION_ID \notin SessionIds
    BY ConstantsAssumption DEF SessionIds, ERROR_SESSION_ID
  <2>1. UNCHANGED sessionIdMap /\ \E s : NextSessionId(s)
    BY <1>1, <1>2, <1>4, <2>0 DEF ConnectPeer
  <2>2. task' = [task EXCEPT ![w] = Idle]
    BY <1>2, <1>4
  <2>3. StepOf(Idle) /\ Idle.addr = NoAddr /\ Idle.pc = "idle"
    BY DEF StepOf, Idle, Unslotted, Slotted
  <2>4. LinkInv'
    BY <1>0, <1>1, <2>1, <2>2, <2>3, ThreadStep DEF RInv, a
  <2>5. \A t \in Threads : AtRecycle(t)' => AtRecycle(t) /\ task'[t] = task[t]
    BY <1>0, <2>2, <2>3, Known DEF AtRecycle
  <2>6. IdsInv'
    <3>1. PICK s : NextSessionId(s) BY <2>1
    <3>2. IdsInv BY DEF RInv
    <3>3. /\ sessionNum' \in 0..SessionCapacity /\ sessionNum <= sessionNum'
          /\ sessionIdQueue' \in Seq(SessionIds)
          /\ \A i \in DOMAIN sessionIdQueue' : \E j \in DOMAIN sessionIdQueue :
                 sessionIdQueue'[i] = sessionIdQueue[j]
          /\ \A i, j \in DOMAIN sessionIdQueue' :
                 sessionIdQueue'[i] = sessionIdQueue'[j] => i = j
      BY <3>1, <3>2, DrawnIsNew
    <3>4. \A n \in SessionIds \cup {0} : n <= sessionNum => n <= sessionNum'
      BY <3>2, <3>3 DEF SessionIds, IdsInv
    <3>5. /\ \A i \in DOMAIN sessionIdQueue : sessionIdQueue[i] \in SessionIds
          /\ \A i \in DOMAIN recycling : recycling[i] \in SessionIds
          /\ \A t \in Threads : AtRecycle(t) => task[t].sid \in SessionIds
      BY <3>2, Known DEF IdsInv, AtRecycle
    <3> QED BY <1>0, <1>1, <2>1, <2>5, <3>2, <3>3, <3>4, <3>5 DEF IdsInv
  <2> QED BY <1>3, <2>4, <2>6 DEF RInv
<1>5. CASE r \in SessionIds
  <2>0. r # ERROR_SESSION_ID /\ r # 0
    BY <1>5, ConstantsAssumption DEF SessionIds, ERROR_SESSION_ID
  <2>1. NextSessionId(r) /\ sessionIdMap' = [sessionIdMap EXCEPT ![a] = r]
    BY <1>1, <1>2, <2>0 DEF ConnectPeer
  <2> DEFINE x == [task[w] EXCEPT !.pc = "new", !.sid = r]
  <2>2. task' = [task EXCEPT ![w] = x]
    BY <1>1, <1>2, <2>0
  <2>3. x.pc = "new" /\ x.sid = r /\ x.addr = a
    BY <1>0 DEF Tasks, a
  <2> HIDE DEF x
  <2>4. task'[w] = x /\ \A u \in Threads : u # w => task'[u] = task[u]
    BY <1>0, <2>2, Known
  <2>5. IdsInv BY DEF RInv
  <2>6. /\ sessionNum' \in 0..SessionCapacity /\ sessionNum <= sessionNum'
        /\ sessionIdQueue' \in Seq(SessionIds)
        /\ \A i \in DOMAIN sessionIdQueue' : \E j \in DOMAIN sessionIdQueue :
               sessionIdQueue'[i] = sessionIdQueue[j]
        /\ \A i, j \in DOMAIN sessionIdQueue' :
               sessionIdQueue'[i] = sessionIdQueue'[j] => i = j
        /\ r <= sessionNum'
        /\ \A i \in DOMAIN sessionIdQueue' : sessionIdQueue'[i] # r
        /\ \A i \in DOMAIN recycling : recycling[i] # r
        /\ \A b \in Addrs : sessionIdMap[b] # r
        /\ \A t \in Threads : AtRecycle(t) => task[t].sid # r
    BY <1>5, <2>1, <2>5, DrawnIsNew
  <2>7. \A b \in Addrs : sessionIdMap'[b] = IF b = a THEN r ELSE sessionIdMap[b]
    BY <1>1, <2>1
  <2>8. sessionArr[r] = NULL
    BY <1>5, <2>6 DEF RInv, LinkInv
  <2>9. LinkInv'
    <3>1. StepOf(task[w])'
      BY <1>1, <2>3, <2>4, <2>7, <2>8, <1>0, ConstantsAssumption DEF StepOf, Unslotted, Slotted
    <3>2. ASSUME NEW u \in Threads, u # w PROVE StepOf(task[u])' /\ task[u].addr # a
      <4>0. a = task[w].addr /\ a # NoAddr
        BY <1>1, ConstantsAssumption DEF a
      <4>1. StepOf(task[u]) /\ task[u].addr # a
        BY <1>0, <3>2, <4>0 DEF RInv, LinkInv
      <4>2. task[u].pc # "idle" => sessionIdMap'[task[u].addr] = sessionIdMap[task[u].addr]
        BY <2>7, <4>1 DEF StepOf
      <4>3. task'[u] = task[u] BY <2>4, <3>2
      <4> QED BY <1>0, <4>1, <4>2, <4>3 DEF StepOf, Unslotted, Slotted
    <3>3. \A t \in Threads : StepOf(task[t])'
      BY <3>1, <3>2
    <3>4. \A t, u \in Threads : task'[t].addr = task'[u].addr /\ task'[t].addr # NoAddr => t = u
      <4>1. \A t \in Threads : task'[t].addr = task[t].addr
        BY <2>3, <2>4 DEF a
      <4> QED BY <4>1 DEF RInv, LinkInv
    <3>5. \A s \in SessionIds : sessionArr'[s] # NULL =>
             /\ peerAddr'[sessionArr'[s]] \in Addrs
             /\ sessionIdMap'[peerAddr'[sessionArr'[s]]] = s
      <4>1. TAKE s \in SessionIds
      <4>2. HAVE sessionArr'[s] # NULL
      <4>3. peerAddr[sessionArr[s]] \in Addrs /\ sessionIdMap[peerAddr[sessionArr[s]]] = s
        BY <1>0, <4>2 DEF RInv, LinkInv
      <4>4. s # 0 BY ThreadFacts
      <4>5. peerAddr[sessionArr[s]] # a BY <1>1, <4>3, <4>4
      <4> QED BY <1>0, <2>7, <4>3, <4>5
    <3>6. \A b \in Addrs : sessionIdMap'[b] # 0 /\ sessionArr'[sessionIdMap'[b]] = NULL =>
             \E t \in Threads : task'[t].addr = b
      <4>1. TAKE b \in Addrs
      <4>2. HAVE sessionIdMap'[b] # 0 /\ sessionArr'[sessionIdMap'[b]] = NULL
      <4>3. CASE b = a BY <1>0, <2>3, <2>4, <4>3
      <4>4. CASE b # a
        <5>1. PICK t \in Threads : task[t].addr = b
          BY <1>0, <2>7, <4>2, <4>4 DEF RInv, LinkInv
        <5>2. t # w BY <4>4, <5>1 DEF a
        <5> QED BY <2>4, <5>1, <5>2
      <4> QED BY <4>3, <4>4
    <3> QED BY <3>3, <3>4, <3>5, <3>6 DEF LinkInv
  <2>10. \A t \in Threads : AtRecycle(t)' => AtRecycle(t) /\ task'[t] = task[t]
    BY <2>3, <2>4 DEF AtRecycle
  <2>11. IdsInv'
    <3>1. \A n \in SessionIds \cup {0} : n <= sessionNum => n <= sessionNum'
      BY <2>5, <2>6 DEF SessionIds, IdsInv
    <3>2. /\ \A i \in DOMAIN sessionIdQueue : sessionIdQueue[i] \in SessionIds
          /\ \A i \in DOMAIN recycling : recycling[i] \in SessionIds
          /\ \A t \in Threads : AtRecycle(t) => task[t].sid \in SessionIds
      BY <2>5, Known DEF IdsInv, AtRecycle
    <3>3. \A b \in Addrs : sessionIdMap'[b] <= sessionNum'
      BY <1>1, <2>5, <2>6, <2>7, <3>1 DEF IdsInv
    <3>4. \A b, c \in Addrs :
             sessionIdMap'[b] = sessionIdMap'[c] /\ sessionIdMap'[b] # 0 => b = c
      BY <2>5, <2>6, <2>7 DEF IdsInv
    <3>5. \A i \in DOMAIN sessionIdQueue' :
           /\ sessionIdQueue'[i] <= sessionNum'
           /\ \A b \in Addrs : sessionIdMap'[b] # sessionIdQueue'[i]
           /\ \A j \in DOMAIN recycling : sessionIdQueue'[i] # recycling[j]
      BY <2>5, <2>6, <2>7, <3>1, <3>2 DEF IdsInv
    <3>6. \A i \in DOMAIN recycling :
           /\ recycling[i] <= sessionNum'
           /\ \A b \in Addrs : sessionIdMap'[b] # recycling[i]
           /\ \A j \in DOMAIN recycling : recycling[i] = recycling[j] => i = j
      BY <2>5, <2>6, <2>7, <3>1, <3>2 DEF IdsInv
    <3>7. \A t \in Threads : AtRecycle(t) =>
           /\ task[t].sid <= sessionNum'
           /\ \A b \in Addrs : sessionIdMap'[b] # task[t].sid
           /\ \A i \in DOMAIN sessionIdQueue' : sessionIdQueue'[i] # task[t].sid
           /\ \A i \in DOMAIN recycling : recycling[i] # task[t].sid
           /\ \A u \in Threads : AtRecycle(u) /\ task[u].sid = task[t].sid => t = u
      BY <2>5, <2>6, <2>7, <3>1, <3>2 DEF IdsInv
    <3>8. recycling \in Seq(SessionIds) BY <2>5 DEF IdsInv
    <3> QED BY <1>0, <2>6, <2>10, <3>3, <3>4, <3>5, <3>6, <3>7, <3>8 DEF IdsInv
  <2> QED BY <1>3, <2>9, <2>11 DEF RInv
<1> QED BY <1>4, <1>5

\* A thread that works on a registered address is the only one with its id.
LEMMA AloneWithId ==
    ASSUME IInv, RInv, NEW t \in Threads, NEW u \in Threads, u # t,
           task[t].pc \in Unslotted \cup Slotted, task[u].pc \in Unslotted \cup Slotted
    PROVE  task[u].sid # task[t].sid
<1>1. /\ task[t].addr \in Addrs /\ sessionIdMap[task[t].addr] = task[t].sid
      /\ task[u].addr \in Addrs /\ sessionIdMap[task[u].addr] = task[u].sid
      /\ task[t].sid \in SessionIds
  BY Known DEF StepOf, Unslotted, Slotted
<1>2. task[t].addr # task[u].addr
  <2>1. task[t].addr # NoAddr BY <1>1, ConstantsAssumption
  <2>2. \A v, y \in Threads : task[v].addr = task[y].addr /\ task[v].addr # NoAddr => v = y
    BY DEF RInv, LinkInv
  <2> QED BY <2>1, <2>2
<1> QED BY <1>1, <1>2, ThreadFacts DEF RInv, IdsInv

\* new_session() puts an object into the slot of the id that its thread holds.
LEMMA AllocateKeepsLinks ==
    ASSUME IInv, IInv', RInv, NEW w \in Workers, NewSessionAllocate(w)
    PROVE  RInv'
<1> DEFINE s == task[w].sid
           a == task[w].addr
           x == [task[w] EXCEPT !.pc = "init"]
<1>0. /\ w \in Threads /\ task[w] \in Tasks /\ task[w].pc = "allocate"
      /\ s \in SessionIds /\ a \in Addrs /\ sessionIdMap[a] = s /\ sessionArr[s] = NULL
  <2>1. w \in Threads /\ task[w].pc = "allocate"
    BY ThreadFacts DEF NewSessionAllocate, At
  <2> QED BY <2>1, Known DEF StepOf, Unslotted
<1>1. PICK o \in Objects \cup {NULL} :
         /\ Allocate(o)
         /\ sessionArr' = [sessionArr EXCEPT ![s] = o]
         /\ IF o = NULL
              THEN crashed' = TRUE /\ UNCHANGED peerAddr
              ELSE /\ peerAddr' = [peerAddr EXCEPT ![o] = a]
                   /\ UNCHANGED crashed
  BY DEF NewSessionAllocate
<1>2. /\ UNCHANGED <<sessionIdMap, sessionNum, sessionIdQueue, recycling>>
      /\ task' = [task EXCEPT ![w] = x]
  BY <1>0, Known DEF NewSessionAllocate, pmVars, sessionIdVars, timerVars
<1>3. x.pc = "init" /\ x.sid = s /\ x.addr = a
  BY <1>0 DEF Tasks
<1> HIDE DEF s, a, x
<1>4. task'[w] = x /\ \A u \in Threads : u # w => task'[u] = task[u]
  BY <1>0, <1>2, Known
<1>5. TableInv BY DEF IInv
<1>6. /\ \A i \in DOMAIN pool' : i \in DOMAIN pool /\ pool'[i] = pool[i]
      /\ o # NULL => \A v \in SessionIds : sessionArr[v] # o
  BY <1>1, <1>5, AllocateTakes
<1>7. /\ o # NULL
      /\ \A i \in DOMAIN pool : pool[i] = o \/ \E j \in DOMAIN pool' : pool'[j] = pool[i]
      /\ made' \subseteq made \cup {o}
  <2>1. CASE pool # <<>>
    <3>1. /\ o = pool[Len(pool)]
          /\ pool' = SubSeq(pool, 1, Len(pool) - 1)
          /\ UNCHANGED made
      BY <1>1, <2>1 DEF Allocate
    <3>2. /\ pool \in Seq(made \cup {NULL})
          /\ Len(pool) \in Nat \ {0}
          /\ DOMAIN pool = 1..Len(pool)
      BY <1>5, <2>1 DEF TableInv
    <3>3. /\ DOMAIN pool' = 1..(Len(pool) - 1)
          /\ \A i \in DOMAIN pool' : pool'[i] = pool[i]
      BY <3>1, <3>2
    <3>4. \A i \in DOMAIN pool : i = Len(pool) \/ i \in DOMAIN pool'
      BY ONLY <3>2, <3>3
    <3>5. Len(pool) \in DOMAIN pool BY ONLY <3>2
    <3>6. o # NULL BY <3>1, <3>5 DEF RInv, PoolInv
    <3>7. \A i \in DOMAIN pool : pool[i] = o \/ \E j \in DOMAIN pool' : pool'[j] = pool[i]
      BY ONLY <3>1, <3>3, <3>4
    <3> QED BY <3>1, <3>6, <3>7
  <2>2. CASE pool = <<>>
    <3>1. o \in Objects \ made /\ made' = made \cup {o} BY <1>1, <2>2 DEF Allocate
    <3>2. DOMAIN pool = {} BY <2>2
    <3> QED BY <3>1, <3>2, ThreadFacts
  <2> QED BY <2>1, <2>2
<1>8. /\ \A v \in SessionIds : sessionArr'[v] = IF v = s THEN o ELSE sessionArr[v]
      /\ \A q \in Objects : peerAddr'[q] = IF q = o THEN a ELSE peerAddr[q]
      /\ UNCHANGED crashed
  BY <1>1, <1>5, <1>7 DEF TableInv
<1>9. PoolInv'
  <2>1. \A i \in DOMAIN pool' : pool'[i] # NULL BY <1>6 DEF RInv, PoolInv
  <2>2. \A q \in made' : \/ \E v \in SessionIds : sessionArr'[v] = q
                         \/ \E i \in DOMAIN pool' : pool'[i] = q
    <3>1. TAKE q \in made'
    <3>2. CASE q = o BY <1>0, <1>8, <3>2
    <3>3. CASE q # o
      <4>1. q \in made /\ q # NULL BY <1>5, <1>7, <3>3, ThreadFacts DEF TableInv
      <4>2. CASE \E v \in SessionIds : sessionArr[v] = q
        BY <1>0, <1>8, <4>1, <4>2
      <4>3. CASE \E i \in DOMAIN pool : pool[i] = q
        BY <1>7, <3>3, <4>3
      <4> QED BY <4>1, <4>2, <4>3 DEF RInv, PoolInv
    <3> QED BY <3>2, <3>3
  <2> QED BY <1>8, <2>1, <2>2 DEF RInv, PoolInv
<1>10. LinkInv'
  <2>1. \A t \in Threads : StepOf(task[t])'
    <3>1. TAKE t \in Threads
    <3>2. CASE t = w
      BY <1>0, <1>2, <1>3, <1>4, <1>7, <1>8, <3>2 DEF StepOf, Unslotted, Slotted
    <3>3. CASE t # w
      <4>1. StepOf(task[t]) /\ task'[t] = task[t] BY <1>4, <3>3, Known
      <4>2. task[t].pc \in Unslotted \cup Slotted =>
               task[t].sid \in SessionIds /\ task[t].sid # s
        BY <1>0, <3>3, AloneWithId, Known DEF Unslotted, Slotted, s
      <4>3. task[t].pc \in Unslotted \cup Slotted =>
               sessionArr'[task[t].sid] = sessionArr[task[t].sid]
        BY <1>8, <4>2
      <4>4. task[t].pc = "address" => task[t].pc \in Unslotted \cup Slotted BY DEF Slotted
      <4> QED BY <1>2, <4>1, <4>3, <4>4 DEF StepOf
    <3> QED BY <3>2, <3>3
  <2>2. \A t \in Threads : task'[t].addr = task[t].addr BY <1>3, <1>4 DEF a
  <2>3. \A v \in SessionIds : sessionArr'[v] # NULL =>
           /\ peerAddr'[sessionArr'[v]] \in Addrs
           /\ sessionIdMap'[peerAddr'[sessionArr'[v]]] = v
    <3>1. TAKE v \in SessionIds
    <3>2. HAVE sessionArr'[v] # NULL
    <3>3. CASE v = s BY <1>0, <1>2, <1>7, <1>8, <3>3
    <3>4. CASE v # s
      <4>1. /\ sessionArr'[v] = sessionArr[v] /\ sessionArr[v] # o
            /\ sessionArr[v] \in Objects
        BY <1>5, <1>6, <1>7, <1>8, <3>2, <3>4 DEF TableInv
      <4> QED BY <1>2, <1>8, <3>2, <4>1 DEF RInv, LinkInv
    <3> QED BY <3>3, <3>4
  <2>4. \A b \in Addrs : sessionIdMap'[b] # 0 /\ sessionArr'[sessionIdMap'[b]] = NULL =>
           \E t \in Threads : task'[t].addr = b
    <3>1. TAKE b \in Addrs
    <3>2. HAVE sessionIdMap'[b] # 0 /\ sessionArr'[sessionIdMap'[b]] = NULL
    <3>3. sessionIdMap[b] \in SessionIds BY <1>2, <3>2, Linked
    <3>4. sessionArr[sessionIdMap[b]] = NULL BY <1>2, <1>7, <1>8, <3>2, <3>3
    <3> QED BY <1>2, <2>2, <3>2, <3>4 DEF RInv, LinkInv
  <2> QED BY <2>1, <2>2, <2>3, <2>4 DEF RInv, LinkInv
<1>11. IdsInv'
  BY <1>2, <1>3, <1>4, IdsKept, ThreadFacts DEF RInv
<1> QED BY <1>9, <1>10, <1>11 DEF RInv

\* _delete_session() gives the object of the slot to the pool.
LEMMA ReleaseKeepsLinks ==
    ASSUME IInv, IInv', RInv, NEW t \in Threads, DeleteRelease(t)
    PROVE  RInv'
<1> DEFINE s == task[t].sid
           a == task[t].addr
           x == [task[t] EXCEPT !.pc = "unmap"]
<1>0. /\ task[t] \in Tasks /\ task[t].pc = "release"
      /\ s \in SessionIds /\ a \in Addrs /\ sessionIdMap[a] = s /\ sessionArr[s] # NULL
  <2>1. task[t].pc = "release" BY DEF DeleteRelease, At
  <2> QED BY <2>1, Known DEF StepOf, Slotted
<1>1. /\ pool' = <<sessionArr[s]>> \o pool
      /\ sessionArr' = [sessionArr EXCEPT ![s] = NULL]
      /\ task' = [task EXCEPT ![t] = x]
      /\ UNCHANGED <<sessionIdMap, sessionNum, sessionIdQueue, recycling, made, peerAddr, crashed>>
  BY Known DEF DeleteRelease, pmVars, sessionIdVars, timerVars
<1>2. x.pc = "unmap" /\ x.sid = s /\ x.addr = a
  BY <1>0 DEF Tasks
<1> HIDE DEF s, a, x
<1>3. task'[t] = x /\ \A u \in Threads : u # t => task'[u] = task[u]
  BY <1>1, Known
<1>4. TableInv BY DEF IInv
<1>5. \A v \in SessionIds : sessionArr'[v] = IF v = s THEN NULL ELSE sessionArr[v]
  BY <1>1, <1>4 DEF TableInv
<1>6. /\ pool \in Seq(made \cup {NULL}) /\ sessionArr[s] \in made \cup {NULL}
      /\ Len(pool) \in Nat /\ DOMAIN pool = 1..Len(pool)
  BY <1>0, <1>4 DEF TableInv
<1>7. /\ DOMAIN pool' = 1..(Len(pool) + 1)
      /\ pool'[1] = sessionArr[s] /\ 1 \in DOMAIN pool'
      /\ \A i \in DOMAIN pool' : i # 1 => i - 1 \in DOMAIN pool /\ pool'[i] = pool[i - 1]
      /\ \A i \in DOMAIN pool : i + 1 \in DOMAIN pool' /\ pool'[i + 1] = pool[i]
  BY <1>1, <1>6
<1>8. PoolInv'
  <2>1. \A i \in DOMAIN pool' : pool'[i] # NULL
    BY <1>0, <1>7 DEF RInv, PoolInv
  <2>2. \A q \in made : \/ \E v \in SessionIds : sessionArr'[v] = q
                        \/ \E i \in DOMAIN pool' : pool'[i] = q
    <3>1. TAKE q \in made
    <3>2. CASE \E v \in SessionIds : sessionArr[v] = q BY <1>5, <1>7, <3>2
    <3>3. CASE \E i \in DOMAIN pool : pool[i] = q BY <1>7, <3>3
    <3> QED BY <3>2, <3>3 DEF RInv, PoolInv
  <2> QED BY <1>1, <2>1, <2>2 DEF RInv, PoolInv
<1>9. LinkInv'
  <2>1. \A u \in Threads : StepOf(task[u])'
    <3>1. TAKE u \in Threads
    <3>2. CASE u = t
      BY <1>0, <1>1, <1>2, <1>3, <1>5, <3>2 DEF StepOf, Unslotted, Slotted
    <3>3. CASE u # t
      <4>1. StepOf(task[u]) /\ task'[u] = task[u] BY <1>3, <3>3, Known
      <4>2. task[u].pc \in Unslotted \cup Slotted =>
               task[u].sid \in SessionIds /\ task[u].sid # s
        BY <1>0, <3>3, AloneWithId, Known DEF Unslotted, Slotted, s
      <4>3. task[u].pc \in Unslotted \cup Slotted =>
               sessionArr'[task[u].sid] = sessionArr[task[u].sid]
        BY <1>5, <4>2
      <4>4. task[u].pc = "address" => task[u].pc \in Unslotted \cup Slotted BY DEF Slotted
      <4> QED BY <1>1, <4>1, <4>3, <4>4 DEF StepOf
    <3> QED BY <3>2, <3>3
  <2>2. \A u \in Threads : task'[u].addr = task[u].addr BY <1>2, <1>3 DEF a
  <2>3. \A v \in SessionIds : sessionArr'[v] # NULL =>
           /\ peerAddr'[sessionArr'[v]] \in Addrs
           /\ sessionIdMap'[peerAddr'[sessionArr'[v]]] = v
    BY <1>1, <1>5 DEF RInv, LinkInv
  <2>4. \A b \in Addrs : sessionIdMap'[b] # 0 /\ sessionArr'[sessionIdMap'[b]] = NULL =>
           \E u \in Threads : task'[u].addr = b
    <3>1. TAKE b \in Addrs
    <3>2. HAVE sessionIdMap'[b] # 0 /\ sessionArr'[sessionIdMap'[b]] = NULL
    <3>3. CASE b = a BY <1>2, <1>3, <3>3
    <3>4. CASE b # a
      <4>1. sessionIdMap[b] # s
        BY <1>0, <3>4, ThreadFacts DEF RInv, IdsInv
      <4>2. sessionIdMap[b] \in SessionIds BY <1>1, <3>2, Linked
      <4>3. sessionArr[sessionIdMap[b]] = NULL BY <1>1, <1>5, <3>2, <4>1, <4>2
      <4> QED BY <1>1, <2>2, <3>2, <4>3 DEF RInv, LinkInv
    <3> QED BY <3>3, <3>4
  <2> QED BY <2>1, <2>2, <2>3, <2>4 DEF RInv, LinkInv
<1>10. IdsInv'
  BY <1>1, <1>2, <1>3, IdsKept DEF RInv
<1> QED BY <1>8, <1>9, <1>10 DEF RInv

\* disconnect_peer() takes the id out of m_SessionIdMap, and t keeps it.
LEMMA UnmapKeepsLinks ==
    ASSUME IInv, IInv', RInv, NEW t \in Threads, Unmap(t)
    PROVE  RInv'
<1> DEFINE s == task[t].sid
           a == task[t].addr
           x == [task[t] EXCEPT !.pc = "recycle"]
<1>0. /\ task[t] \in Tasks /\ task[t].pc = "unmap"
      /\ s \in SessionIds /\ a \in Addrs /\ sessionIdMap[a] = s /\ sessionArr[s] = NULL
  <2>1. task[t].pc = "unmap" BY DEF Unmap, At
  <2> QED BY <2>1, Known DEF StepOf, Unslotted
<1>1. /\ sessionIdMap' = [sessionIdMap EXCEPT ![a] = 0]
      /\ task' = [task EXCEPT ![t] = x]
      /\ UNCHANGED <<sessionNum, sessionIdQueue, recycling, sessionArr, pool, made, peerAddr,
                     crashed>>
  BY Known DEF Unmap, DisconnectPeer, tableVars, timerVars
<1>2. x.pc = "recycle" /\ x.sid = s /\ x.addr = a
  BY <1>0 DEF Tasks
<1> HIDE DEF s, a, x
<1>3. task'[t] = x /\ \A u \in Threads : u # t => task'[u] = task[u]
  BY <1>1, Known
<1>4. \A b \in Addrs : sessionIdMap'[b] = IF b = a THEN 0 ELSE sessionIdMap[b]
  BY <1>1 DEF IInv, IdInv
<1>5. PoolInv' BY <1>1 DEF RInv, PoolInv
<1>6. LinkInv'
  <2>1. \A u \in Threads : StepOf(task[u])'
    <3>1. TAKE u \in Threads
    <3>2. CASE u = t
      BY <1>0, <1>1, <1>2, <1>3, <1>4, <3>2 DEF StepOf, Unslotted, Slotted
    <3>3. CASE u # t
      <4>1. StepOf(task[u]) /\ task'[u] = task[u] BY <1>3, <3>3, Known
      <4>2. a = task[t].addr /\ a # NoAddr BY <1>0, ConstantsAssumption DEF a
      <4>3. task[u].addr # a BY <3>3, <4>2 DEF RInv, LinkInv
      <4>4. task[u].pc # "idle" => sessionIdMap'[task[u].addr] = sessionIdMap[task[u].addr]
        BY <1>4, <4>1, <4>3 DEF StepOf
      <4> QED BY <1>1, <4>1, <4>4 DEF StepOf, Unslotted, Slotted
    <3> QED BY <3>2, <3>3
  <2>2. \A u \in Threads : task'[u].addr = task[u].addr BY <1>2, <1>3 DEF a
  <2>3. \A v \in SessionIds : sessionArr'[v] # NULL =>
           /\ peerAddr'[sessionArr'[v]] \in Addrs
           /\ sessionIdMap'[peerAddr'[sessionArr'[v]]] = v
    <3>1. TAKE v \in SessionIds
    <3>2. HAVE sessionArr'[v] # NULL
    <3>3. /\ peerAddr[sessionArr[v]] \in Addrs
          /\ sessionIdMap[peerAddr[sessionArr[v]]] = v
      BY <1>1, <3>2 DEF RInv, LinkInv
    <3>4. v # s BY <1>0, <1>1, <3>2
    <3> QED BY <1>0, <1>1, <1>4, <3>3, <3>4
  <2>4. \A b \in Addrs : sessionIdMap'[b] # 0 /\ sessionArr'[sessionIdMap'[b]] = NULL =>
           \E u \in Threads : task'[u].addr = b
    <3>1. TAKE b \in Addrs
    <3>2. HAVE sessionIdMap'[b] # 0 /\ sessionArr'[sessionIdMap'[b]] = NULL
    <3>3. b # a /\ sessionIdMap[b] # 0 /\ sessionArr[sessionIdMap[b]] = NULL
      BY <1>1, <1>4, <3>2
    <3> QED BY <2>2, <3>3 DEF RInv, LinkInv
  <2> QED BY <2>1, <2>2, <2>3, <2>4 DEF RInv, LinkInv
<1>7. IdsInv'
  <2>0. IdsInv /\ sessionNum \in Nat /\ s # 0
    BY <1>0, ThreadFacts DEF RInv, IdsInv
  <2>1. /\ \A b \in Addrs : sessionIdMap'[b] <= sessionNum /\ sessionIdMap'[b] # s
        /\ \A b, c \in Addrs : sessionIdMap'[b] = sessionIdMap'[c] /\ sessionIdMap'[b] # 0 => b = c
        /\ s <= sessionNum
    BY <1>0, <1>4, <2>0 DEF IdsInv
  <2>2. /\ \A i \in DOMAIN sessionIdQueue : sessionIdQueue[i] # s
        /\ \A i \in DOMAIN recycling : recycling[i] # s
    BY <1>0, <2>0 DEF IdsInv
  <2>3. /\ \A i \in DOMAIN sessionIdQueue : \A b \in Addrs : sessionIdMap'[b] # sessionIdQueue[i]
        /\ \A i \in DOMAIN recycling : \A b \in Addrs : sessionIdMap'[b] # recycling[i]
    <3>1. /\ \A i \in DOMAIN sessionIdQueue : sessionIdQueue[i] # 0
          /\ \A i \in DOMAIN recycling : recycling[i] # 0
      BY <2>0, ThreadFacts DEF IdsInv
    <3> QED BY <1>4, <2>0, <3>1 DEF IdsInv
  <2>4. \A u \in Threads : AtRecycle(u)' =>
           \/ u = t /\ task'[u].sid = s
           \/ u # t /\ AtRecycle(u) /\ task'[u].sid = task[u].sid
    BY <1>2, <1>3 DEF AtRecycle
  <2>5. \A u \in Threads : AtRecycle(u) => /\ task[u].sid # s
                                           /\ \A b \in Addrs : sessionIdMap'[b] # task[u].sid
    <3>1. TAKE u \in Threads
    <3>2. HAVE AtRecycle(u)
    <3>3. task[u].sid # 0 /\ \A b \in Addrs : sessionIdMap[b] # task[u].sid
      BY <2>0, <3>2, Known, ThreadFacts DEF IdsInv, AtRecycle
    <3> QED BY <1>0, <1>4, <3>3
  <2>6. \A u \in Threads : AtRecycle(u)' =>
           /\ task'[u].sid <= sessionNum
           /\ \A b \in Addrs : sessionIdMap'[b] # task'[u].sid
           /\ \A i \in DOMAIN sessionIdQueue : sessionIdQueue[i] # task'[u].sid
           /\ \A i \in DOMAIN recycling : recycling[i] # task'[u].sid
           /\ \A v \in Threads : AtRecycle(v)' /\ task'[v].sid = task'[u].sid => u = v
    <3>1. \A u \in Threads : AtRecycle(u) =>
             /\ task[u].sid <= sessionNum
             /\ \A i \in DOMAIN sessionIdQueue : sessionIdQueue[i] # task[u].sid
             /\ \A i \in DOMAIN recycling : recycling[i] # task[u].sid
             /\ \A v \in Threads : AtRecycle(v) /\ task[v].sid = task[u].sid => u = v
      BY <2>0 DEF IdsInv
    <3>2. TAKE u \in Threads
    <3>3. HAVE AtRecycle(u)'
    <3>4. CASE u = t
      <4>1. task'[u].sid = s BY <2>4, <3>3, <3>4
      <4>2. \A v \in Threads : AtRecycle(v)' /\ task'[v].sid = s => v = t BY <2>4, <2>5
      <4> QED BY <2>1, <2>2, <3>4, <4>1, <4>2
    <3>5. CASE u # t
      <4>1. AtRecycle(u) /\ task'[u].sid = task[u].sid BY <2>4, <3>3, <3>5
      <4>2. \A v \in Threads : AtRecycle(v)' /\ task'[v].sid = task[u].sid => u = v
        <5>1. TAKE v \in Threads
        <5>2. HAVE AtRecycle(v)' /\ task'[v].sid = task[u].sid
        <5>3. v # t BY <2>4, <2>5, <4>1, <5>2
        <5>4. AtRecycle(v) /\ task[v].sid = task[u].sid BY <2>4, <5>2, <5>3
        <5> QED BY <3>1, <4>1, <5>4
      <4>3. \A b \in Addrs : sessionIdMap'[b] # task[u].sid BY <2>5, <4>1
      <4>4. /\ task[u].sid <= sessionNum
            /\ \A i \in DOMAIN sessionIdQueue : sessionIdQueue[i] # task[u].sid
            /\ \A i \in DOMAIN recycling : recycling[i] # task[u].sid
        BY <3>1, <4>1
      <4>5. task'[u].sid = task[u].sid BY <4>1
      <4> QED BY <4>2, <4>3, <4>4, <4>5
    <3> QED BY <3>4, <3>5
  <2> QED BY <1>1, <2>0, <2>1, <2>3, <2>6 DEF IdsInv
<1> QED BY <1>5, <1>6, <1>7 DEF RInv

\* The timer for the id that t has kept starts.
LEMMA StartKeepsLinks ==
    ASSUME IInv, IInv', RInv, NEW t \in Threads, StartRecycle(t)
    PROVE  RInv'
<1> DEFINE s == task[t].sid
<1>0. /\ task[t].pc = "recycle" /\ s \in SessionIds
      /\ StepOf(task[t]) /\ task \in [Threads -> Tasks]
  <2>1. task[t].pc = "recycle" BY DEF StartRecycle, At
  <2> QED BY <2>1, Known DEF IInv, TaskInv
<1>1. /\ recycling' = (IF timersFull THEN recycling ELSE Append(recycling, s))
      /\ task' = [task EXCEPT ![t] = Idle]
      /\ UNCHANGED <<sessionIdMap, sessionNum, sessionIdQueue, sessionArr, pool, made, peerAddr,
                     crashed>>
  BY DEF StartRecycle, Done, pmVars, sessionIdVars, tableVars
<1> HIDE DEF s
<1>2. task'[t] = Idle /\ \A u \in Threads : u # t => task'[u] = task[u]
  BY <1>1, Known
<1>3. StepOf(Idle) /\ Idle.addr = NoAddr /\ Idle.pc = "idle"
  BY DEF StepOf, Idle, Unslotted, Slotted
<1>4. LinkInv'
  <2>1. sessionIdMap[task[t].addr] = 0 BY <1>0 DEF StepOf
  <2> QED BY <1>0, <1>1, <1>3, <2>1, ThreadStep DEF RInv
<1>5. PoolInv' BY <1>1 DEF RInv, PoolInv
<1>6. IdsInv'
  <2>0. IdsInv BY DEF RInv
  <2>1. \A u \in Threads : AtRecycle(u)' => u # t /\ AtRecycle(u) /\ task'[u].sid = task[u].sid
    BY <1>2, <1>3 DEF AtRecycle
  <2>2. CASE timersFull
    <3>1. recycling' = recycling BY <1>1, <2>2
    <3> QED BY <1>1, <2>0, <2>1, <3>1 DEF IdsInv
  <2>3. CASE ~timersFull
    <3>1. recycling \in Seq(SessionIds) BY <2>0 DEF IdsInv
    <3>2. /\ recycling' \in Seq(SessionIds)
          /\ DOMAIN recycling' = 1..(Len(recycling) + 1)
          /\ DOMAIN recycling = 1..Len(recycling) /\ Len(recycling) \in Nat
          /\ \A i \in DOMAIN recycling' :
                 recycling'[i] = IF i = Len(recycling) + 1 THEN s ELSE recycling[i]
      BY <1>0, <1>1, <2>3, <3>1
    <3>3. \A i \in DOMAIN recycling' : i # Len(recycling) + 1 => i \in DOMAIN recycling
      BY ONLY <3>2
    <3>4. /\ s <= sessionNum
          /\ \A b \in Addrs : sessionIdMap[b] # s
          /\ \A i \in DOMAIN sessionIdQueue : sessionIdQueue[i] # s
          /\ \A i \in DOMAIN recycling : recycling[i] # s
          /\ \A u \in Threads : AtRecycle(u) /\ task[u].sid = s => u = t
      BY <1>0, <2>0 DEF IdsInv, AtRecycle, s
    <3>6. \A i \in DOMAIN recycling' :
             /\ recycling'[i] <= sessionNum
             /\ \A b \in Addrs : sessionIdMap[b] # recycling'[i]
             /\ \A j \in DOMAIN sessionIdQueue : sessionIdQueue[j] # recycling'[i]
      BY <2>0, <3>2, <3>3, <3>4 DEF IdsInv
    <3>7. \A i, j \in DOMAIN recycling' : recycling'[i] = recycling'[j] => i = j
      <4>1. \A i, j \in DOMAIN recycling : recycling[i] = recycling[j] => i = j
        BY <2>0 DEF IdsInv
      <4>2. \A i \in DOMAIN recycling : recycling[i] # s BY <3>4
      <4>3. TAKE i, j \in DOMAIN recycling'
      <4>4. CASE i = Len(recycling) + 1 /\ j = Len(recycling) + 1 BY <4>4
      <4>5. CASE i # Len(recycling) + 1 /\ j # Len(recycling) + 1
        BY ONLY <3>2, <3>3, <4>1, <4>5, i \in DOMAIN recycling', j \in DOMAIN recycling'
      <4>6. CASE i # Len(recycling) + 1 /\ j = Len(recycling) + 1
        BY ONLY <3>2, <3>3, <4>2, <4>6, i \in DOMAIN recycling', j \in DOMAIN recycling'
      <4>7. CASE i = Len(recycling) + 1 /\ j # Len(recycling) + 1
        BY ONLY <3>2, <3>3, <4>2, <4>7, i \in DOMAIN recycling', j \in DOMAIN recycling'
      <4> QED BY <4>4, <4>5, <4>6, <4>7
    <3>8. \A u \in Threads : AtRecycle(u) /\ u # t =>
             \A i \in DOMAIN recycling' : recycling'[i] # task[u].sid
      BY <2>0, <3>2, <3>3, <3>4 DEF IdsInv
    <3> QED BY <1>1, <2>0, <2>1, <3>2, <3>6, <3>7, <3>8 DEF IdsInv
  <2> QED BY <2>2, <2>3
<1> QED BY <1>4, <1>5, <1>6 DEF RInv

\* recycle_session() puts the id of the first timer at the end of the queue.
LEMMA RecycleKeepsLinks ==
    ASSUME IInv, IInv', RInv, Recycle
    PROVE  RInv'
<1> DEFINE s == Head(recycling)
<1>0. IdsInv BY DEF RInv
<1>1. /\ sessionIdQueue' = Append(sessionIdQueue, s)
      /\ recycling' = Tail(recycling)
      /\ recycling # <<>>
      /\ UNCHANGED <<sessionIdMap, sessionNum, sessionArr, pool, made, peerAddr, task, crashed>>
  BY DEF Recycle, RecycleSession, tableVars
<1>2. /\ recycling \in Seq(SessionIds) /\ Len(recycling) \in Nat \ {0}
      /\ DOMAIN recycling = 1..Len(recycling)
      /\ sessionIdQueue \in Seq(SessionIds) /\ Len(sessionIdQueue) \in Nat
      /\ DOMAIN sessionIdQueue = 1..Len(sessionIdQueue)
  BY <1>0, <1>1 DEF IdsInv
<1>3. /\ 1 \in DOMAIN recycling /\ s = recycling[1] /\ s \in SessionIds
      /\ recycling' \in Seq(SessionIds)
      /\ DOMAIN recycling' = 1..(Len(recycling) - 1)
      /\ \A i \in DOMAIN recycling' :
             i \in Nat \ {0} /\ i + 1 \in DOMAIN recycling /\ recycling'[i] = recycling[i + 1]
  BY <1>1, <1>2
<1>4. /\ sessionIdQueue' \in Seq(SessionIds)
      /\ DOMAIN sessionIdQueue' = 1..(Len(sessionIdQueue) + 1)
      /\ \A i \in DOMAIN sessionIdQueue' :
             \/ i = Len(sessionIdQueue) + 1 /\ sessionIdQueue'[i] = s
             \/ i \in DOMAIN sessionIdQueue /\ sessionIdQueue'[i] = sessionIdQueue[i]
  BY <1>1, <1>2, <1>3
<1> HIDE DEF s
<1>5. /\ s <= sessionNum
      /\ \A b \in Addrs : sessionIdMap[b] # s
      /\ \A i \in DOMAIN sessionIdQueue : sessionIdQueue[i] # s
      /\ \A i \in DOMAIN recycling : recycling[i] = s => i = 1
      /\ \A u \in Threads : AtRecycle(u) => task[u].sid # s
  BY <1>0, <1>3 DEF IdsInv
<1>6. \A i \in DOMAIN recycling' :
         /\ recycling'[i] # s
         /\ recycling'[i] <= sessionNum
         /\ \A b \in Addrs : sessionIdMap[b] # recycling'[i]
         /\ \A j \in DOMAIN sessionIdQueue : sessionIdQueue[j] # recycling'[i]
         /\ \A u \in Threads : AtRecycle(u) => recycling'[i] # task[u].sid
  <2>1. \A i \in DOMAIN recycling' : i + 1 # 1 BY ONLY <1>3
  <2> QED BY <1>0, <1>3, <1>5, <2>1 DEF IdsInv
<1>7. \A i, j \in DOMAIN recycling' : recycling'[i] = recycling'[j] => i = j
  <2>1. TAKE i, j \in DOMAIN recycling'
  <2>2. HAVE recycling'[i] = recycling'[j]
  <2>3. i + 1 = j + 1 BY <1>0, <1>3, <2>2 DEF IdsInv
  <2> QED BY ONLY <1>3, <2>3, i \in DOMAIN recycling', j \in DOMAIN recycling'
<1>8. \A i, j \in DOMAIN sessionIdQueue' : sessionIdQueue'[i] = sessionIdQueue'[j] => i = j
  <2>1. \A i, j \in DOMAIN sessionIdQueue : sessionIdQueue[i] = sessionIdQueue[j] => i = j
    BY <1>0 DEF IdsInv
  <2> QED BY ONLY <1>4, <1>5, <2>1
<1>9. \A i \in DOMAIN sessionIdQueue' :
         /\ sessionIdQueue'[i] <= sessionNum
         /\ \A b \in Addrs : sessionIdMap[b] # sessionIdQueue'[i]
         /\ \A j \in DOMAIN recycling' : sessionIdQueue'[i] # recycling'[j]
         /\ \A u \in Threads : AtRecycle(u) => sessionIdQueue'[i] # task[u].sid
  <2>1. \A i \in DOMAIN sessionIdQueue :
         /\ sessionIdQueue[i] <= sessionNum
         /\ \A b \in Addrs : sessionIdMap[b] # sessionIdQueue[i]
         /\ \A u \in Threads : AtRecycle(u) => sessionIdQueue[i] # task[u].sid
    BY <1>0 DEF IdsInv
  <2> QED BY ONLY <1>4, <1>5, <1>6, <2>1
<1>10. IdsInv'
  <2>1. \A u \in Threads : AtRecycle(u) =>
           /\ task[u].sid <= sessionNum
           /\ \A b \in Addrs : sessionIdMap[b] # task[u].sid
           /\ \A v \in Threads : AtRecycle(v) /\ task[v].sid = task[u].sid => u = v
    BY <1>0 DEF IdsInv
  <2>2. \A u \in Threads : AtRecycle(u)' <=> AtRecycle(u) BY <1>1 DEF AtRecycle
  <2> QED BY <1>0, <1>1, <1>3, <1>4, <1>6, <1>7, <1>8, <1>9, <2>1, <2>2 DEF IdsInv
<1>11. LinkInv' /\ PoolInv'
  BY <1>1 DEF RInv, LinkInv, StepOf, PoolInv
<1> QED BY <1>10, <1>11 DEF RInv

-----------------------------------------------------------------------------
(* The invariant, and what the steps are for PeerUse.                        *)

JInv == IInv /\ met \in BOOLEAN /\ (~met => RInv)

LEMMA InitJ == Init => JInv
<1> SUFFICES ASSUME Init PROVE JInv
  OBVIOUS
<1>0. IInv BY InitIInv
<1>1. Idle.pc = "idle" /\ Idle.addr = NoAddr BY DEF Idle
<1>2. LinkInv
  <2>1. \A t \in Threads : task[t] = Idle BY DEF Init
  <2>2. StepOf(Idle) BY <1>1 DEF StepOf, Unslotted, Slotted
  <2>3. \A t \in Threads : StepOf(task[t]) BY <2>1, <2>2
  <2>4. /\ \A s \in SessionIds : sessionArr[s] = NULL
        /\ \A a \in Addrs : sessionIdMap[a] = 0
    BY DEF Init, PeerManagerInit
  <2> QED BY <1>1, <2>1, <2>3, <2>4 DEF LinkInv
<1>3. PoolInv
  <2>1. \A i \in DOMAIN pool : pool[i] # NULL
    BY SessionAssumption, ThreadFacts DEF Init
  <2> QED BY <2>1 DEF PoolInv, Init
<1>4. IdsInv
  <2>1. \A t \in Threads : ~AtRecycle(t) BY <1>1 DEF Init, AtRecycle
  <2>2. /\ sessionNum = 0 /\ sessionIdQueue = <<>> /\ recycling = <<>>
        /\ \A a \in Addrs : sessionIdMap[a] = 0
    BY DEF Init, PeerManagerInit
  <2>3. /\ sessionIdQueue \in Seq(SessionIds) /\ recycling \in Seq(SessionIds)
        /\ DOMAIN sessionIdQueue = {} /\ DOMAIN recycling = {}
        /\ sessionNum \in 0..SessionCapacity
    BY <2>2, ConstantsAssumption
  <2> QED BY <2>1, <2>2, <2>3 DEF IdsInv
<1> QED BY <1>0, <1>2, <1>3, <1>4 DEF JInv, RInv, Init

LEMMA NextJ == JInv /\ [Next]_vars => JInv'
<1> SUFFICES ASSUME JInv, [Next]_vars PROVE JInv'
  OBVIOUS
<1>0. IInv /\ IInv' BY NextIInv DEF JInv
<1>1. CASE UNCHANGED vars
  <2>1. UNCHANGED <<pmVars, tableVars, task, crashed, recycling, met>>
    BY <1>1 DEF vars, timerVars
  <2>2. RInv => RInv'
    BY <2>1 DEF RInv, LinkInv, StepOf, PoolInv, IdsInv, AtRecycle, pmVars, sessionIdVars, tableVars
  <2> QED BY <1>0, <2>1, <2>2 DEF JInv
<1>2. CASE Next
  <2>1. met' \in BOOLEAN /\ (~met' => ~met /\ ~Meeting')
    BY <1>2 DEF Next
  <2>2. ASSUME ~met' PROVE RInv'
    <3>1. /\ IInv /\ IInv' /\ RInv /\ ~Meeting' /\ TaskInv' /\ Step
      BY <1>0, <1>2, <2>1, <2>2 DEF JInv, IInv, Next
    <3>2. ASSUME NEW w \in Workers, Open(w) PROVE RInv'
      BY <3>1, <3>2, ConnectKeeps, OpenQuiet, AllocateKeepsLinks DEF Open
    <3>3. ASSUME NEW w \in Workers, NEW a \in Addrs, TakeGateway(w, a) \/ TakeRecv(w, a)
          PROVE  RInv'
      BY <3>1, <3>3, TakeQuiet
    <3>4. ASSUME NEW t \in Threads, Close(t) PROVE RInv'
      BY <3>1, <3>4, CloseQuiet, ReleaseKeepsLinks, UnmapKeepsLinks, StartKeepsLinks DEF Close
    <3>5. ASSUME NEW s \in SessionIds, TakeTimeout(s) \/ CallbackEnds(s) PROVE RInv'
      BY <3>1, <3>5, TimerQuiet
    <3>6. ASSUME Recycle PROVE RInv'
      BY <3>1, <3>6, RecycleKeepsLinks
    <3> QED BY <3>1, <3>2, <3>3, <3>4, <3>5, <3>6 DEF Step
  <2> QED BY <1>0, <2>1, <2>2 DEF JInv
<1> QED BY <1>1, <1>2

\* The two sets that PeerUse sees of a session that is being closed.
LEMMA UnmappedOf ==
    \A s : s \in Unmapped <=> \E t \in Threads : AtRecycle(t) /\ task[t].sid = s
  BY DEF Unmapped, AtRecycle

LEMMA CoolingOf ==
    \A s : s \in Cooling <=> \E i \in DOMAIN recycling : recycling[i] = s
  BY DEF Cooling

\* A step that neither unmaps nor starts a timer leaves Unmapped as it is.
LEMMA UnmappedKept ==
    ASSUME \A t \in Threads : /\ AtRecycle(t)' <=> AtRecycle(t)
                              /\ AtRecycle(t) => task'[t].sid = task[t].sid
    PROVE  Unmapped' = Unmapped
<1>1. \A s : s \in Unmapped' <=> \E t \in Threads : AtRecycle(t)' /\ task'[t].sid = s
  BY DEF Unmapped, AtRecycle
<1>2. \A s : s \in Unmapped' <=> s \in Unmapped
  BY <1>1, UnmappedOf
<1> QED BY <1>2

LEMMA CoolingKept ==
    ASSUME UNCHANGED recycling
    PROVE  Cooling' = Cooling
  BY DEF Cooling

LEMMA ConnectIsOpen ==
    ASSUME IInv, RInv, NEW w \in Workers, Connect(w)
    PROVE  Atomic!Call
<1>0. w \in Threads /\ task[w].pc = "gateway" /\ StepOf(task[w]) /\ UNCHANGED recycling
  BY ThreadFacts, Known DEF Connect, At, timerVars
<1>1. PICK r \in SessionIds \cup {ERROR_SESSION_ID} :
         /\ ConnectPeer(task[w].addr, r)
         /\ task' = [task EXCEPT ![w] =
                IF r = ERROR_SESSION_ID THEN Idle
                ELSE [@ EXCEPT !.pc = "new", !.sid = r]]
  BY DEF Connect
<1>2. task[w].addr \in Addrs BY <1>0 DEF StepOf
<1>3. Unmapped' = Unmapped /\ Cooling' = Cooling
  <2>1. task'[w].pc # "recycle" /\ \A u \in Threads : u # w => task'[u] = task[u]
    BY <1>0, <1>1, IdleTask DEF IInv, TaskInv, Tasks
  <2> QED BY <1>0, <2>1, UnmappedKept, CoolingKept DEF AtRecycle
<1>4. Atomic!ConnectPeer(task[w].addr, r) BY <1>1, SameConnect
<1>5. r \in Atomic!SessionIds \cup {Atomic!ERROR_SESSION_ID}
  BY <1>1 DEF SessionIds, Atomic!SessionIds, ERROR_SESSION_ID, Atomic!ERROR_SESSION_ID
<1>6. Atomic!Open(task[w].addr)
  BY <1>3, <1>4, <1>5 DEF Atomic!Open, Atomic!nodeVars, Atomic!timerVars
<1> QED BY <1>2, <1>6 DEF Atomic!Call

LEMMA UnmapIsClose ==
    ASSUME IInv, RInv, NEW t \in Threads, Unmap(t)
    PROVE  Atomic!Call
<1> DEFINE a == task[t].addr
           s == task[t].sid
<1>0. /\ task[t].pc = "unmap" /\ UNCHANGED recycling /\ DisconnectPeer(a)
      /\ a \in Addrs /\ sessionIdMap[a] = s /\ s \in SessionIds
  <2>1. task[t].pc = "unmap" /\ UNCHANGED recycling /\ DisconnectPeer(a)
    BY DEF Unmap, At, timerVars
  <2> QED BY <2>1, Known DEF StepOf, Unslotted
<1>1. /\ task'[t].pc = "recycle" /\ task'[t].sid = s
      /\ \A u \in Threads : u # t => task'[u] = task[u]
  BY DEF Unmap, Goto, IInv, TaskInv, Tasks
<1> HIDE DEF a, s
<1>2. \A v : v \in Unmapped' <=> v \in Unmapped \/ v = s
  <2>1. \A v : v \in Unmapped' <=> \E u \in Threads : AtRecycle(u)' /\ task'[u].sid = v
    BY DEF Unmapped, AtRecycle
  <2>2. ~AtRecycle(t) /\ AtRecycle(t)' /\ \A u \in Threads : u # t => (AtRecycle(u)' <=> AtRecycle(u))
    BY <1>0, <1>1 DEF AtRecycle
  <2> QED BY <1>0, <1>1, <2>1, <2>2, UnmappedOf
<1>3. Unmapped' = Unmapped \cup {sessionIdMap[a]} /\ Cooling' = Cooling
  BY <1>0, <1>2, CoolingKept
<1>4. a \in Atomic!Connected BY <1>0, ThreadFacts DEF Atomic!Connected
<1>5. Atomic!DisconnectPeer(a) BY <1>0, SameDisconnect
<1>6. Atomic!Close(a) BY <1>3, <1>4, <1>5 DEF Atomic!Close, Atomic!nodeVars
<1> QED BY <1>0, <1>6 DEF Atomic!Call

LEMMA RecycleIsRecycle ==
    ASSUME IInv, RInv, Recycle
    PROVE  Atomic!Call
<1> DEFINE s == Head(recycling)
<1>0. IdsInv /\ RecycleSession(s) /\ recycling # <<>> /\ recycling' = Tail(recycling) /\ UNCHANGED task
  BY DEF RInv, Recycle
<1>1. /\ recycling \in Seq(SessionIds) /\ Len(recycling) \in Nat \ {0}
      /\ DOMAIN recycling = 1..Len(recycling)
  BY <1>0 DEF IdsInv
<1>2. /\ 1 \in DOMAIN recycling /\ s = recycling[1] /\ s \in SessionIds
      /\ DOMAIN recycling' = 1..(Len(recycling) - 1)
      /\ \A i \in DOMAIN recycling' : i + 1 # 1 /\ i + 1 \in DOMAIN recycling
                                      /\ recycling'[i] = recycling[i + 1]
      /\ \A i \in DOMAIN recycling : i # 1 => i - 1 \in DOMAIN recycling'
                                              /\ recycling'[i - 1] = recycling[i]
  BY <1>0, <1>1
<1> HIDE DEF s
<1>3. \A i \in DOMAIN recycling : recycling[i] = s => i = 1
  BY <1>0, <1>2 DEF IdsInv
<1>4. \A v : v \in Cooling' <=> v \in Cooling /\ v # s
  <2>1. \A v : v \in Cooling' <=> \E i \in DOMAIN recycling' : recycling'[i] = v
    BY DEF Cooling
  <2>2. \A v : (\E i \in DOMAIN recycling' : recycling'[i] = v)
               <=> (\E i \in DOMAIN recycling : recycling[i] = v) /\ v # s
    <3>1. TAKE v
    <3>2. ASSUME NEW i \in DOMAIN recycling', recycling'[i] = v
          PROVE  (\E j \in DOMAIN recycling : recycling[j] = v) /\ v # s
      BY <1>2, <1>3, <3>2
    <3>3. ASSUME NEW i \in DOMAIN recycling, recycling[i] = v, v # s
          PROVE  \E j \in DOMAIN recycling' : recycling'[j] = v
      BY <1>2, <3>3
    <3> QED BY <3>2, <3>3
  <2> QED BY <2>1, <2>2, CoolingOf
<1>5. Cooling' = Cooling \ {s} BY <1>4
<1>6. s \in Cooling BY <1>2, CoolingOf
<1>7. Unmapped' = Unmapped BY <1>0, UnmappedKept DEF AtRecycle
<1>8. Atomic!RecycleSession(s) BY <1>0, SameRecycle
<1>9. Atomic!Recycle(s) BY <1>5, <1>6, <1>7, <1>8 DEF Atomic!Recycle, Atomic!nodeVars
<1>10. s \in Atomic!SessionIds BY <1>2 DEF SessionIds, Atomic!SessionIds
<1> QED BY <1>9, <1>10 DEF Atomic!Call

\* The timer for the id that t has kept is added, or refused.
LEMMA StartIsStartTimer ==
    ASSUME IInv, RInv, NEW t \in Threads, StartRecycle(t)
    PROVE  Atomic!Call
<1> DEFINE s == task[t].sid
<1>0. /\ AtRecycle(t) /\ s \in SessionIds /\ UNCHANGED pmVars
      /\ recycling' = (IF timersFull THEN recycling ELSE Append(recycling, s))
      /\ recycling \in Seq(SessionIds) /\ IdsInv
  BY Known DEF StartRecycle, At, AtRecycle, RInv, IdsInv
<1>1. task'[t] = Idle /\ \A u \in Threads : u # t => task'[u] = task[u]
  BY DEF StartRecycle, Done, IInv, TaskInv
<1>2. ~AtRecycle(t)' /\ \A u \in Threads : u # t => (AtRecycle(u)' <=> AtRecycle(u))
  BY <1>1, IdleTask DEF AtRecycle
<1>3. \A u \in Threads : AtRecycle(u) /\ task[u].sid = s => u = t
  BY <1>0 DEF IdsInv
<1>4. Unmapped' = Unmapped \ {s}
  <2>1. \A v : v \in Unmapped' <=> \E u \in Threads : AtRecycle(u)' /\ task'[u].sid = v
    BY DEF Unmapped, AtRecycle
  <2> HIDE DEF s
  <2>2. \A v : v \in Unmapped' <=> v \in Unmapped /\ v # s
    <3>1. TAKE v
    <3>2. ASSUME NEW u \in Threads, AtRecycle(u)', task'[u].sid = v
          PROVE  (\E x \in Threads : AtRecycle(x) /\ task[x].sid = v) /\ v # s
      <4>1. u # t /\ AtRecycle(u) /\ task[u].sid = v BY <1>1, <1>2, <3>2
      <4>2. v # s BY <1>3, <4>1
      <4> QED BY <4>1, <4>2
    <3>3. ASSUME NEW u \in Threads, AtRecycle(u), task[u].sid = v, v # s
          PROVE  \E x \in Threads : AtRecycle(x)' /\ task'[x].sid = v
      <4>1. u # t BY <3>3 DEF s
      <4>2. AtRecycle(u)' /\ task'[u].sid = v BY <1>1, <1>2, <3>3, <4>1
      <4> QED BY <4>2
    <3> QED BY <2>1, <3>2, <3>3, UnmappedOf
  <2> QED BY <2>2
<1>5. s \in Unmapped BY <1>0, UnmappedOf
<1> HIDE DEF s
<1>6. Cooling' = IF timersFull THEN Cooling ELSE Cooling \cup {s}
  <2>1. CASE timersFull
    <3>1. recycling' = recycling BY <1>0, <2>1
    <3> QED BY <2>1, <3>1, CoolingKept
  <2>2. CASE ~timersFull
    <3>1. /\ DOMAIN recycling' = 1..(Len(recycling) + 1) /\ Len(recycling) \in Nat
          /\ DOMAIN recycling = 1..Len(recycling)
          /\ \A i \in DOMAIN recycling : recycling'[i] = recycling[i]
          /\ recycling'[Len(recycling) + 1] = s
      BY <1>0, <2>2
    <3>2. /\ Len(recycling) + 1 \in DOMAIN recycling'
          /\ \A i \in DOMAIN recycling : i \in DOMAIN recycling'
          /\ \A i \in DOMAIN recycling' : i \in DOMAIN recycling \/ i = Len(recycling) + 1
      BY ONLY <3>1
    <3>3. \A v : (\E i \in DOMAIN recycling' : recycling'[i] = v)
                 <=> (\E i \in DOMAIN recycling : recycling[i] = v) \/ v = s
      BY ONLY <3>1, <3>2
    <3>4. \A v : v \in Cooling' <=> \E i \in DOMAIN recycling' : recycling'[i] = v
      BY DEF Cooling
    <3> QED BY <2>2, <3>3, <3>4, CoolingOf
  <2> QED BY <2>1, <2>2
<1>7. UNCHANGED Atomic!pmVars
  BY <1>0 DEF Atomic!pmVars, Atomic!peerVars, Atomic!sessionIdVars, pmVars, peerVars, sessionIdVars
<1>8. Atomic!StartTimer(s) BY <1>4, <1>5, <1>6, <1>7 DEF Atomic!StartTimer, Atomic!nodeVars
<1>9. s \in Atomic!SessionIds BY <1>0 DEF SessionIds, Atomic!SessionIds
<1> QED BY <1>8, <1>9 DEF Atomic!Call

\* Every other step leaves what PeerUse sees as it is.
LEMMA OthersStutter ==
    ASSUME IInv, RInv,
           \/ \E w \in Workers :
                  \/ NewSessionTest(w) \/ NewSessionAllocate(w) \/ NewSessionInit(w) \/ Accept(w)
                  \/ \E a \in Addrs : TakeGateway(w, a) \/ TakeRecv(w, a)
           \/ \E t \in Threads : FindSession(t) \/ ReadAddress(t) \/ DeleteTest(t) \/ DeleteRelease(t)
           \/ \E s \in SessionIds : TakeTimeout(s) \/ CallbackEnds(s)
    PROVE  UNCHANGED pmVars /\ Unmapped' = Unmapped /\ Cooling' = Cooling
<1>1. UNCHANGED <<pmVars, recycling>>
  BY DEF NewSessionTest, NewSessionAllocate, NewSessionInit, Accept, TakeGateway, TakeRecv,
         FindSession, ReadAddress, DeleteTest, DeleteRelease, TakeTimeout, CallbackEnds, timerVars
<1>2. \A t \in Threads : /\ AtRecycle(t)' <=> AtRecycle(t)
                         /\ AtRecycle(t) => task'[t].sid = task[t].sid
  <2>0. TaskInv /\ Workers \subseteq Threads /\ TIMER \in Threads
        /\ Idle.pc = "idle"
    BY IdleTask, ThreadFacts DEF IInv
  <2>1. \/ UNCHANGED task
        \/ \E t \in Threads : /\ task[t].pc # "recycle"
                              /\ task'[t].pc # "recycle"
                              /\ \A u \in Threads : u # t => task'[u] = task[u]
    <3>1. CASE \E w \in Workers :
                  \/ NewSessionTest(w) \/ NewSessionAllocate(w) \/ NewSessionInit(w) \/ Accept(w)
      BY <2>0, <3>1 DEF NewSessionTest, NewSessionAllocate, NewSessionInit, Accept, At, Goto,
                        Done, TaskInv, Tasks
    <3>2. CASE \E w \in Workers : \E a \in Addrs : TakeGateway(w, a) \/ TakeRecv(w, a)
      BY <2>0, <3>2 DEF TakeGateway, TakeRecv, At, TaskInv, Tasks, Idle
    <3>3. CASE \E t \in Threads : FindSession(t) \/ ReadAddress(t) \/ DeleteTest(t) \/ DeleteRelease(t)
      BY <2>0, <3>3 DEF FindSession, ReadAddress, DeleteTest, DeleteRelease, At, Goto, Done,
                        TaskInv, Tasks
    <3>4. CASE \E s \in SessionIds : TakeTimeout(s) \/ CallbackEnds(s)
      BY <2>0, <3>4 DEF TakeTimeout, CallbackEnds, At, TaskInv, Tasks
    <3> QED BY <3>1, <3>2, <3>3, <3>4
  <2> QED BY <2>1 DEF AtRecycle
<1>3. Unmapped' = Unmapped /\ Cooling' = Cooling BY <1>1, <1>2, UnmappedKept, CoolingKept
<1> QED BY <1>1, <1>3

LEMMA StepRefines == JInv /\ [Next]_vars => [met' \/ Atomic!Next]_<<Atomic!vars, met>>
<1> SUFFICES ASSUME JInv, [Next]_vars, ~met', ~Atomic!Next
             PROVE  UNCHANGED <<Atomic!vars, met>>
  OBVIOUS
<1>1. CASE UNCHANGED vars
  <2>1. UNCHANGED <<pmVars, task, recycling, timersFull, met>> BY <1>1 DEF vars, timerVars
  <2>2. Unmapped' = Unmapped /\ Cooling' = Cooling
    BY <2>1, UnmappedKept, CoolingKept DEF AtRecycle
  <2> QED BY <2>1, <2>2 DEF Atomic!vars, Atomic!pmVars, Atomic!peerVars, Atomic!sessionIdVars,
                            Atomic!nodeVars, Atomic!timerVars, pmVars, peerVars, sessionIdVars
<1>2. CASE Next
  <2>1. IInv /\ RInv /\ Step BY <1>2 DEF JInv, Next
  <2>2. (timersFull' \in BOOLEAN) BY <1>2 DEF Next
  <2>3. Atomic!Call \/ (UNCHANGED pmVars /\ Unmapped' = Unmapped /\ Cooling' = Cooling)
    BY <2>1, ConnectIsOpen, UnmapIsClose, RecycleIsRecycle, StartIsStartTimer, OthersStutter
       DEF Step, Open, Close
  <2>4. Atomic!Call \/ UNCHANGED <<Atomic!pmVars, Atomic!nodeVars, Atomic!timerVars>>
    BY <2>3 DEF Atomic!pmVars, Atomic!peerVars, Atomic!sessionIdVars, Atomic!nodeVars,
                Atomic!timerVars, pmVars, peerVars, sessionIdVars
  <2>5. Atomic!Next BY ONLY <2>2, <2>4, Zenon DEF Atomic!Next
  <2> QED BY <2>5
<1> QED BY <1>1, <1>2

LEMMA InitRefines == Init => Atomic!Init
<1> SUFFICES ASSUME Init PROVE Atomic!Init
  OBVIOUS
<1>1. Unmapped = {} /\ Cooling = {}
  <2>1. recycling = <<>> /\ \A t \in Threads : task[t] = Idle BY DEF Init
  <2> QED BY <2>1, IdleTask DEF Unmapped, Cooling
<1>2. Atomic!PeerManagerInit
  BY DEF Init, PeerManagerInit, Atomic!PeerManagerInit, ABSENT, Atomic!ABSENT, PeerKeys,
         Atomic!PeerKeys, DefaultPeer, Atomic!DefaultPeer, BAD, Atomic!BAD, BANNED, Atomic!BANNED
<1>3. timersFull = FALSE BY Zenon DEF Init
<1> QED BY <1>1, <1>2, <1>3, Zenon DEF Atomic!Init, Atomic!NodeIds

-----------------------------------------------------------------------------
(* The theorems.                                                             *)

\* As long as no two threads open or close a session with one address at a
\* time, the dozen steps of new_session(), connect_peer(), _delete_session(),
\* disconnect_peer() and recycle_session(), whatever their interleaving, do
\* what the atomic Open, Close and Recycle of PeerUse do, for which its
\* theorems hold: no session id ever has two owners.
THEOREM StepsAmountToAtomic == Spec => ImplementsPeerUse
<1>1. Init => JInv /\ Atomic!Init BY InitJ, InitRefines
<1> QED BY <1>1, NextJ, StepRefines, PTL DEF Spec, ImplementsPeerUse

\* Until two threads meet on an address, m_SessionIdMap and m_SessionArr tell
\* the same story of every address that no thread is working on: it has an id
\* exactly when the slot of that id holds the object of that address.
THEOREM TablesTellTheSame == Spec => []SlotsMatchIds
<1>1. JInv => SlotsMatchIds
  <2> SUFFICES ASSUME IInv, RInv, NEW a \in Addrs, Engaged(a) = {}, NEW s \in SessionIds
               PROVE  sessionIdMap[a] = s <=> s \in Slots /\ peerAddr[sessionArr[s]] = a
    BY DEF JInv, SlotsMatchIds
  <2>1. \A t \in Threads : task[t].addr # a
    <3>1. TAKE t \in Threads
    <3>0. a # NoAddr BY ConstantsAssumption
    <3>2. StepOf(task[t]) /\ a # NoAddr BY <3>0, Known
    <3>3. CASE task[t].pc = "idle" BY <3>2, <3>3 DEF StepOf
    <3>4. CASE task[t].pc # "idle" BY <3>4 DEF Engaged
    <3> QED BY <3>3, <3>4
  <2>2. ASSUME sessionIdMap[a] = s PROVE s \in Slots /\ peerAddr[sessionArr[s]] = a
    <3>1. s # 0 BY ThreadFacts
    <3>2. sessionArr[s] # NULL BY <2>1, <2>2, <3>1 DEF RInv, LinkInv
    <3> QED BY <2>2, <3>2, Linked DEF Slots
  <2>3. ASSUME s \in Slots, peerAddr[sessionArr[s]] = a PROVE sessionIdMap[a] = s
    BY <2>3 DEF Slots, RInv, LinkInv
  <2> QED BY <2>2, <2>3
<1> QED BY <1>1, InitJ, NextJ, PTL DEF Spec

\* Until then no Session object is lost: each one ever created is in a slot of
\* m_SessionArr or in the pool.
THEOREM NoObjectLost == Spec => []ObjectsComeBack
<1>1. JInv => ObjectsComeBack
  <2> SUFFICES ASSUME IInv, RInv, NEW o \in made
               PROVE  o \in {sessionArr[s] : s \in Slots} \cup Pooled
    BY DEF JInv, ObjectsComeBack
  <2>1. o # NULL BY ThreadFacts DEF IInv, TableInv
  <2> QED BY <2>1 DEF RInv, PoolInv, Slots, Pooled
<1> QED BY <1>1, InitJ, NextJ, PTL DEF Spec
===============================================================================
