--------------------------- MODULE PeerUseProofs ---------------------------
(***************************************************************************)
(* Theorems about PeerUse, for every set of addresses and every capacity.  *)
(* The sessions come first: their half of the inductive invariant speaks   *)
(* of no peer.                                                             *)
(***************************************************************************)
EXTENDS PeerUse, FiniteSetTheorems, TLAPS

\* Beside a call, a step changes timersFull at most.
LEMMA StepCases == [Next]_vars => Call \/ UNCHANGED <<pmVars, nodeVars, timerVars>>
BY DEF Next, vars

(* ---------------------------- the session ids ---------------------------- *)

\* The new m_SessionNum and queue agree with the ids already out, and s is
\* not one of those, unless it is ERROR_SESSION_ID.
FreshId(s) ==
    /\ sessionNum' \in 0..SessionCapacity
    /\ sessionIdQueue' \in Seq(SessionIds)
    /\ \A i, j \in DOMAIN sessionIdQueue' :
           sessionIdQueue'[i] = sessionIdQueue'[j] => i = j
    /\ \A a \in Addrs : sessionIdMap[a] # 0 =>
           /\ sessionIdMap[a] <= sessionNum'
           /\ \A i \in DOMAIN sessionIdQueue' : sessionIdQueue'[i] # sessionIdMap[a]
    /\ \A i \in DOMAIN sessionIdQueue' :
           /\ sessionIdQueue'[i] <= sessionNum'
           /\ sessionIdQueue'[i] \notin Resting
           /\ sessionIdQueue'[i] # s
    /\ \A t \in Resting : t <= sessionNum'
    /\ s \in SessionIds =>
           /\ s <= sessionNum'
           /\ s \notin Resting
           /\ \A a \in Addrs : sessionIdMap[a] # s

\* What one call of _session_id() gives: an id nobody has, from the queue or
\* never issued before.
LEMMA NextSessionIdFresh ==
    ASSUME SessionInv, NEW s, NextSessionId(s)
    PROVE  FreshId(s)
<1>1. CASE /\ sessionIdQueue # <<>>
           /\ s = Head(sessionIdQueue)
           /\ sessionIdQueue' = Tail(sessionIdQueue)
           /\ UNCHANGED sessionNum
  <2>1. sessionIdQueue \in Seq(SessionIds) /\ sessionIdQueue # <<>>
    BY <1>1 DEF SessionInv, SessionTypeOK
  <2>2. /\ Tail(sessionIdQueue) \in Seq(SessionIds)
        /\ Len(sessionIdQueue) \in Nat \ {0}
        /\ DOMAIN sessionIdQueue = 1..Len(sessionIdQueue)
        /\ DOMAIN Tail(sessionIdQueue) = 1..(Len(sessionIdQueue) - 1)
        /\ Head(sessionIdQueue) = sessionIdQueue[1]
        /\ \A i \in DOMAIN Tail(sessionIdQueue) :
              Tail(sessionIdQueue)[i] = sessionIdQueue[i + 1]
    BY <2>1
  <2>3. \A i \in DOMAIN sessionIdQueue' :
           /\ i \in Nat \ {0}
           /\ i + 1 \in DOMAIN sessionIdQueue
           /\ sessionIdQueue'[i] = sessionIdQueue[i + 1]
    BY <1>1, <2>2
  <2>4. 1 \in DOMAIN sessionIdQueue /\ s = sessionIdQueue[1]
    BY <1>1, <2>2
  <2>5. \A i, j \in DOMAIN sessionIdQueue :
           sessionIdQueue[i] = sessionIdQueue[j] => i = j
    BY DEF SessionInv
  <2>6. /\ sessionNum' = sessionNum
        /\ sessionNum \in 0..SessionCapacity
        /\ sessionIdQueue' \in Seq(SessionIds)
    BY <1>1, <2>2 DEF SessionInv, SessionTypeOK
  <2>7. \A i, j \in DOMAIN sessionIdQueue' :
           sessionIdQueue'[i] = sessionIdQueue'[j] => i = j
    BY ONLY <2>3, <2>5
  <2>8. \A i \in DOMAIN sessionIdQueue' : sessionIdQueue'[i] # s
    BY ONLY <2>3, <2>4, <2>5
  <2>a. \A i \in DOMAIN sessionIdQueue :
           /\ sessionIdQueue[i] <= sessionNum
           /\ sessionIdQueue[i] \notin Resting
    BY ONLY SessionInv DEF SessionInv
  <2>b. \A a \in Addrs : sessionIdMap[a] # 0 =>
           /\ sessionIdMap[a] <= sessionNum
           /\ \A i \in DOMAIN sessionIdQueue : sessionIdQueue[i] # sessionIdMap[a]
    BY ONLY SessionInv DEF SessionInv
  <2>9. \A a \in Addrs : sessionIdMap[a] # 0 =>
           /\ sessionIdMap[a] <= sessionNum
           /\ \A i \in DOMAIN sessionIdQueue' : sessionIdQueue'[i] # sessionIdMap[a]
    BY ONLY <2>3, <2>b
  <2>10. \A i \in DOMAIN sessionIdQueue' :
            /\ sessionIdQueue'[i] <= sessionNum
            /\ sessionIdQueue'[i] \notin Resting
    BY ONLY <2>3, <2>a
  <2>11. s <= sessionNum /\ s \notin Resting
    BY ONLY <2>4, <2>a
  <2>12. s \in SessionIds => \A a \in Addrs : sessionIdMap[a] # s
    <3>1. 0 \notin SessionIds
      BY DEF SessionIds
    <3> QED
      BY ONLY <2>4, <2>b, <3>1
  <2>13. \A t \in Resting : t <= sessionNum
    BY DEF SessionInv
  <2> QED
    BY ONLY <2>6, <2>7, <2>8, <2>9, <2>10, <2>11, <2>12, <2>13 DEF FreshId
<1>2. CASE /\ sessionIdQueue = <<>>
           /\ sessionNum # SessionCapacity
           /\ s = sessionNum + 1
           /\ sessionNum' = s
           /\ UNCHANGED sessionIdQueue
  <2>d. sessionNum \in 0..SessionCapacity
    BY ONLY SessionInv DEF SessionInv, SessionTypeOK
  <2>a. sessionNum \in 0..SessionCapacity /\ SessionCapacity \in Nat
    BY ONLY <2>d, ConstantsAssumption DEF ConstantsAssumption
  <2>1. /\ sessionNum \in Nat
        /\ sessionNum' \in 0..SessionCapacity
        /\ sessionNum' = sessionNum + 1
        /\ s \in SessionIds
        /\ s <= sessionNum'
        /\ ~(s <= sessionNum)
    BY ONLY <1>2, <2>a DEF SessionIds
  <2>b. \A t \in Nat : t <= sessionNum => t <= sessionNum'
    BY ONLY <2>1
  <2>2. \A t \in SessionIds : t <= sessionNum => t <= sessionNum'
    BY ONLY <2>a, <2>b DEF SessionIds
  <2>3. /\ sessionIdQueue' = sessionIdQueue
        /\ sessionIdQueue \in Seq(SessionIds)
        /\ DOMAIN sessionIdQueue = {}
    BY ONLY SessionInv, <1>2 DEF SessionInv, SessionTypeOK
  <2>4. /\ \A a \in Addrs : sessionIdMap[a] \in SessionIds \cup {0}
        /\ \A a \in Addrs : sessionIdMap[a] # 0 => sessionIdMap[a] <= sessionNum
        /\ \A t \in Resting : t \in SessionIds /\ t <= sessionNum
    BY ONLY SessionInv DEF SessionInv, SessionTypeOK, Resting
  <2>5. s # 0
    BY ONLY <2>1 DEF SessionIds
  <2>c. ~(s <= sessionNum)
    BY ONLY <2>1
  <2>6. \A a \in Addrs : sessionIdMap[a] # s
    BY ONLY <2>c, <2>4, <2>5
  <2>7. \A a \in Addrs : sessionIdMap[a] # 0 => sessionIdMap[a] <= sessionNum'
    BY ONLY <2>2, <2>4
  <2> QED
    BY ONLY <2>1, <2>2, <2>3, <2>4, <2>6, <2>7, SMTT(20) DEF FreshId
<1>3. CASE /\ sessionIdQueue = <<>>
           /\ sessionNum = SessionCapacity
           /\ s = ERROR_SESSION_ID
           /\ UNCHANGED <<sessionNum, sessionIdQueue>>
  <2>a. s = 65535 /\ SessionCapacity \in 0..65534
    BY ONLY <1>3, ConstantsAssumption DEF ConstantsAssumption, ERROR_SESSION_ID
  <2>1. s \notin SessionIds
    BY ONLY <2>a DEF SessionIds
  <2> QED
    BY ONLY SessionInv, <1>3, <2>1 DEF SessionInv, SessionTypeOK, FreshId
<1> QED
  BY ONLY <1>1, <1>2, <1>3, NextSessionId(s) DEF NextSessionId

LEMMA OpenKeepsSessionInv ==
    ASSUME SessionInv, NEW a \in Addrs, Open(a)
    PROVE  SessionInv'
<1>1. PICK r \in SessionIds \cup {ERROR_SESSION_ID} : ConnectPeer(a, r)
  BY DEF Open
<1>2. closing' = closing /\ cooling' = cooling /\ Resting' = Resting
  BY DEF Open, timerVars, Resting
<1>3. CASE UNCHANGED pmVars
  BY <1>2, <1>3 DEF SessionInv, SessionTypeOK, pmVars, sessionIdVars
<1>4. ASSUME NEW s, NextSessionId(s), sessionIdMap' = sessionIdMap
      PROVE  SessionInv'
  <2>1. FreshId(s)
    BY <1>4, NextSessionIdFresh
  <2>2. SessionTypeOK'
    BY ONLY SessionInv, <1>2, <1>4, <2>1 DEF SessionInv, SessionTypeOK, FreshId
  <2> QED
    BY ONLY SessionInv, <1>2, <1>4, <2>1, <2>2 DEF SessionInv, FreshId
<1>5. ASSUME r \in SessionIds, NextSessionId(r), sessionIdMap[a] = 0,
             sessionIdMap' = [sessionIdMap EXCEPT ![a] = r]
      PROVE  SessionInv'
  <2>1. FreshId(r)
    BY <1>5, NextSessionIdFresh
  <2>2. \A b \in Addrs : sessionIdMap'[b] = IF b = a THEN r ELSE sessionIdMap[b]
    BY <1>5 DEF SessionInv, SessionTypeOK
  <2>3. SessionTypeOK'
    BY <1>2, <1>5, <2>1 DEF SessionInv, SessionTypeOK, FreshId
  <2> QED
    BY ONLY SessionInv, r \in SessionIds, <1>2, <2>1, <2>2, <2>3
       DEF SessionInv, FreshId
<1> QED
  BY <1>1, <1>3, <1>4, <1>5 DEF ConnectPeer

LEMMA CloseKeepsSessionInv ==
    ASSUME SessionInv, NEW a \in Addrs, Close(a)
    PROVE  SessionInv'
<1>1. /\ sessionIdMap[a] # 0
      /\ sessionIdMap' = [sessionIdMap EXCEPT ![a] = 0]
      /\ closing' = closing \cup {sessionIdMap[a]}
      /\ cooling' = cooling
      /\ sessionNum' = sessionNum
      /\ sessionIdQueue' = sessionIdQueue
  BY DEF Close, DisconnectPeer, Connected
<1>2. /\ \A b \in Addrs : sessionIdMap'[b] = IF b = a THEN 0 ELSE sessionIdMap[b]
      /\ SessionTypeOK'
  BY <1>1 DEF SessionInv, SessionTypeOK
<1>3. /\ sessionIdMap[a] <= sessionNum
      /\ sessionIdMap[a] \notin Resting
      /\ \A i \in DOMAIN sessionIdQueue : sessionIdQueue[i] # sessionIdMap[a]
      /\ \A b \in Addrs : sessionIdMap[b] = sessionIdMap[a] => b = a
  BY ONLY SessionInv, <1>1 DEF SessionInv
<1>4. Resting' = Resting \cup {sessionIdMap[a]}
  BY ONLY <1>1 DEF Resting
<1>5. closing' \cap cooling' = {}
  BY ONLY SessionInv, <1>1, <1>3 DEF SessionInv, Resting
<1> QED
  BY ONLY SessionInv, <1>1, <1>2, <1>3, <1>4, <1>5 DEF SessionInv

LEMMA StartTimerKeepsSessionInv ==
    ASSUME SessionInv, NEW s \in SessionIds, StartTimer(s)
    PROVE  SessionInv'
<1>1. /\ s \in closing
      /\ closing' = closing \ {s}
      /\ cooling' = cooling \/ cooling' = cooling \cup {s}
      /\ UNCHANGED sessionIdVars
  BY DEF StartTimer, pmVars
<1>2. Resting' \subseteq Resting /\ closing' \cap cooling' = {}
  BY ONLY SessionInv, <1>1 DEF SessionInv, Resting
<1>3. SessionTypeOK'
  BY ONLY SessionInv, s \in SessionIds, <1>1 DEF SessionInv, SessionTypeOK, sessionIdVars
<1> QED
  BY ONLY SessionInv, <1>1, <1>2, <1>3 DEF SessionInv, sessionIdVars

LEMMA RecycleKeepsSessionInv ==
    ASSUME SessionInv, NEW s \in SessionIds, Recycle(s)
    PROVE  SessionInv'
<1> DEFINE n == Len(sessionIdQueue)
<1>1. /\ s \in cooling
      /\ cooling' = cooling \ {s}
      /\ closing' = closing
      /\ sessionNum' = sessionNum
      /\ sessionIdMap' = sessionIdMap
      /\ sessionIdQueue' = Append(sessionIdQueue, s)
  BY DEF Recycle, RecycleSession
<1>r. /\ s \in Resting
      /\ Resting' = Resting \ {s}
      /\ closing' \cap cooling' = {}
  BY ONLY SessionInv, <1>1 DEF SessionInv, Resting
<1>2. sessionIdQueue \in Seq(SessionIds)
  BY DEF SessionInv, SessionTypeOK
<1>3. /\ sessionIdQueue' \in Seq(SessionIds)
      /\ n \in Nat
      /\ DOMAIN sessionIdQueue = 1..n
      /\ DOMAIN sessionIdQueue' = 1..(n + 1)
      /\ \A i \in 1..(n + 1) :
            sessionIdQueue'[i] = IF i = n + 1 THEN s ELSE sessionIdQueue[i]
  BY <1>1, <1>2
<1>4. \A i \in DOMAIN sessionIdQueue' :
         \/ i = n + 1 /\ sessionIdQueue'[i] = s
         \/ i \in DOMAIN sessionIdQueue /\ sessionIdQueue'[i] = sessionIdQueue[i]
  BY ONLY <1>3
<1>5. \A i \in DOMAIN sessionIdQueue : sessionIdQueue[i] # s
  BY ONLY SessionInv, <1>r DEF SessionInv
<1>6. \A i, j \in DOMAIN sessionIdQueue' :
         sessionIdQueue'[i] = sessionIdQueue'[j] => i = j
  <2>1. \A i, j \in DOMAIN sessionIdQueue :
           sessionIdQueue[i] = sessionIdQueue[j] => i = j
    BY ONLY SessionInv DEF SessionInv
  <2> QED
    BY ONLY <1>4, <1>5, <2>1
<1>7. \A b \in Addrs : sessionIdMap'[b] # 0 =>
         /\ sessionIdMap'[b] <= sessionNum'
         /\ sessionIdMap'[b] \notin Resting'
         /\ \A i \in DOMAIN sessionIdQueue' : sessionIdQueue'[i] # sessionIdMap'[b]
  <2>1. \A b \in Addrs : sessionIdMap[b] # 0 =>
           /\ sessionIdMap[b] <= sessionNum
           /\ sessionIdMap[b] \notin Resting
           /\ \A i \in DOMAIN sessionIdQueue : sessionIdQueue[i] # sessionIdMap[b]
    BY ONLY SessionInv DEF SessionInv
  <2> QED
    BY ONLY <1>1, <1>r, <1>4, <2>1
<1>8. \A i \in DOMAIN sessionIdQueue' :
         /\ sessionIdQueue'[i] <= sessionNum'
         /\ sessionIdQueue'[i] \notin Resting'
  <2>1. /\ \A i \in DOMAIN sessionIdQueue :
              /\ sessionIdQueue[i] <= sessionNum
              /\ sessionIdQueue[i] \notin Resting
        /\ s <= sessionNum
    BY ONLY SessionInv, <1>r DEF SessionInv
  <2> QED
    BY ONLY <1>1, <1>r, <1>4, <2>1
<1>9. SessionTypeOK'
  BY <1>1, <1>3 DEF SessionInv, SessionTypeOK
<1> QED
  BY ONLY SessionInv, <1>1, <1>r, <1>6, <1>7, <1>8, <1>9 DEF SessionInv

LEMMA SessionInvStep == SessionInv /\ [Next]_vars => SessionInv'
<1> SUFFICES ASSUME SessionInv, [Next]_vars
             PROVE  SessionInv'
  OBVIOUS
<1>1. CASE sessionIdVars' = sessionIdVars /\ timerVars' = timerVars
  BY <1>1 DEF SessionInv, SessionTypeOK, Resting, sessionIdVars, timerVars
<1>2. ASSUME NEW a \in Addrs, AddNode(a) \/ SearchReq(a)
      PROVE  SessionInv'
  <2>1. sessionIdVars' = sessionIdVars /\ timerVars' = timerVars
    BY ONLY <1>2 DEF AddNode, SearchReq, ReferWithNodes, PeerId
  <2> QED
    BY <1>1, <2>1
<1>3. ASSUME NEW p \in NodeIds, EvictNode(p) \/ LookUp(p)
      PROVE  SessionInv'
  <2>1. sessionIdVars' = sessionIdVars /\ timerVars' = timerVars
    BY ONLY <1>3 DEF EvictNode, FreePeer, LookUp, SessionIdOfPeer
  <2> QED
    BY <1>1, <2>1
<1>4. CASE UNCHANGED <<pmVars, nodeVars, timerVars>>
  BY <1>1, <1>4 DEF pmVars
<1> QED
  BY StepCases, <1>2, <1>3, <1>4, OpenKeepsSessionInv, CloseKeepsSessionInv,
     StartTimerKeepsSessionInv, RecycleKeepsSessionInv DEF Call

LEMMA SessionInvInit == Init => SessionInv
<1> SUFFICES ASSUME Init
             PROVE  SessionInv
  OBVIOUS
<1>1. /\ sessionNum = 0
      /\ sessionIdMap = [a \in Addrs |-> 0]
      /\ sessionIdQueue = <<>>
      /\ closing = {}
      /\ cooling = {}
  BY ONLY Init DEF Init, PeerManagerInit
<1>2. 0 \in 0..SessionCapacity
  BY ONLY ConstantsAssumption DEF ConstantsAssumption
<1>3. Resting = {} /\ DOMAIN sessionIdQueue = {} /\ closing \cap cooling = {}
  BY ONLY <1>1 DEF Resting
<1>4. SessionTypeOK
  BY ONLY <1>1, <1>2 DEF SessionTypeOK
<1>5. \A a \in Addrs : sessionIdMap[a] = 0
  BY ONLY <1>1
<1> QED
  BY ONLY <1>3, <1>4, <1>5 DEF SessionInv

LEMMA SessionInvMeaning == SessionInv => SessionIdsExclusive
BY DEF SessionInv, SessionIdsExclusive, InUse, Queued, Connected

\* No session id ever has two owners: registered, cooling and queued ids are
\* disjoint, and no two addresses share one.
THEOREM SessionIdsStayExclusive == Spec => []SessionIdsExclusive
<1>1. Spec => []SessionInv
  BY SessionInvInit, SessionInvStep, PTL DEF Spec
<1> QED
  BY <1>1, SessionInvMeaning, PTL

LEMMA IdCycleStep ==
    ASSUME SessionInv, [Next]_vars, NEW a \in Addrs
    PROVE  IdFollowsItsCycle(a)
<1>1. CASE sessionIdMap' = sessionIdMap
  BY <1>1 DEF IdFollowsItsCycle
<1>2. ASSUME NEW b \in Addrs, NEW r \in SessionIds, sessionIdMap[b] = 0,
             NextSessionId(r), sessionIdMap' = [sessionIdMap EXCEPT ![b] = r]
      PROVE  IdFollowsItsCycle(a)
  <2>1. FreshId(r)
    BY <1>2, NextSessionIdFresh
  <2>2. r \notin Resting /\ \A c \in Addrs : sessionIdMap[c] # r
    BY ONLY <1>2, <2>1 DEF FreshId
  <2>3. sessionIdMap'[a] = IF a = b THEN r ELSE sessionIdMap[a]
    BY <1>2 DEF SessionInv, SessionTypeOK
  <2> QED
    BY ONLY <1>2, <2>2, <2>3, a \in Addrs DEF IdFollowsItsCycle, InUse, Connected
<1>3. ASSUME NEW b \in Addrs, Close(b)
      PROVE  IdFollowsItsCycle(a)
  <2>1. /\ sessionIdMap' = [sessionIdMap EXCEPT ![b] = 0]
        /\ closing' = closing \cup {sessionIdMap[b]}
    BY <1>3 DEF Close, DisconnectPeer
  <2>2. sessionIdMap'[a] = IF a = b THEN 0 ELSE sessionIdMap[a]
    BY <2>1 DEF SessionInv, SessionTypeOK
  <2> QED
    BY ONLY <2>1, <2>2 DEF IdFollowsItsCycle
<1>4. ASSUME NEW b \in Addrs, AddNode(b) \/ SearchReq(b)
      PROVE  IdFollowsItsCycle(a)
  BY <1>1, <1>4 DEF AddNode, SearchReq, ReferWithNodes, PeerId, sessionIdVars
<1>5. ASSUME NEW b \in Addrs, Open(b)
      PROVE  IdFollowsItsCycle(a)
  <2>1. PICK r : ConnectPeer(b, r)
    BY <1>5 DEF Open
  <2> QED
    BY ONLY <2>1, <1>1, <1>2, b \in Addrs DEF ConnectPeer, pmVars, sessionIdVars
<1>6. ASSUME NEW p \in NodeIds, EvictNode(p) \/ LookUp(p)
      PROVE  IdFollowsItsCycle(a)
  BY <1>1, <1>6 DEF EvictNode, FreePeer, LookUp, SessionIdOfPeer, sessionIdVars
<1>7. ASSUME NEW s \in SessionIds, StartTimer(s) \/ Recycle(s)
      PROVE  IdFollowsItsCycle(a)
  BY <1>1, <1>7 DEF StartTimer, Recycle, RecycleSession, pmVars, sessionIdVars
<1>8. CASE UNCHANGED <<pmVars, nodeVars, timerVars>>
  BY <1>1, <1>8 DEF pmVars, sessionIdVars
<1> QED
  BY ONLY [Next]_vars, StepCases, <1>3, <1>4, <1>5, <1>6, <1>7, <1>8 DEF Call

\* An id in use stays with its address until the session closes, and reaches
\* another address only through the cooling period and the queue.
THEOREM IdsAreNotReusedEarly == Spec => NoIdReuseBeforeRecycle
<1>1. Spec => []SessionInv
  BY SessionInvInit, SessionInvStep, PTL DEF Spec
<1>2. SessionInv /\ [Next]_vars => [\A a \in Addrs : IdFollowsItsCycle(a)]_vars
  BY IdCycleStep
<1> QED
  BY <1>1, <1>2, PTL DEF Spec, NoIdReuseBeforeRecycle

\* One call of _session_id() that gives an id moves it out of the queue or counts it
\* out, and nothing else.
LEMMA IssuedMoves ==
    ASSUME SessionInv, NEW r \in SessionIds, NextSessionId(r)
    PROVE  (1..sessionNum') \ (Queued' \cup {r}) = (1..sessionNum) \ (Queued \cup {r})
<1>1. CASE /\ sessionIdQueue # <<>>
           /\ r = Head(sessionIdQueue)
           /\ sessionIdQueue' = Tail(sessionIdQueue)
           /\ UNCHANGED sessionNum
  <2>1. sessionIdQueue \in Seq(SessionIds) /\ sessionIdQueue # <<>>
    BY <1>1 DEF SessionInv, SessionTypeOK
  <2> DEFINE n == Len(sessionIdQueue)
  <2>2. /\ n \in Nat \ {0}
        /\ DOMAIN sessionIdQueue = 1..n
        /\ DOMAIN sessionIdQueue' = 1..(n - 1)
        /\ r = sessionIdQueue[1]
        /\ \A i \in 1..(n - 1) : sessionIdQueue'[i] = sessionIdQueue[i + 1]
    BY <1>1, <2>1
  <2> HIDE DEF n
  <2>3. \A i \in DOMAIN sessionIdQueue' :
           i + 1 \in DOMAIN sessionIdQueue /\ sessionIdQueue'[i] = sessionIdQueue[i + 1]
    BY <2>2
  <2>4. \A i \in DOMAIN sessionIdQueue :
           \/ sessionIdQueue[i] = r
           \/ i - 1 \in DOMAIN sessionIdQueue' /\ sessionIdQueue'[i - 1] = sessionIdQueue[i]
    <3> SUFFICES ASSUME NEW i \in DOMAIN sessionIdQueue, i # 1
                 PROVE  i - 1 \in DOMAIN sessionIdQueue' /\ sessionIdQueue'[i - 1] = sessionIdQueue[i]
      BY <2>2
    <3>1. i - 1 \in 1..(n - 1) /\ i - 1 + 1 = i
      BY <2>2
    <3> QED
      BY <2>2, <3>1
  <2>5. Queued' \subseteq Queued
    BY <2>3 DEF Queued
  <2>6. Queued \subseteq Queued' \cup {r}
    BY <2>4 DEF Queued
  <2> QED
    BY <1>1, <2>5, <2>6
<1>2. CASE /\ sessionIdQueue = <<>>
           /\ sessionNum # SessionCapacity
           /\ r = sessionNum + 1
           /\ sessionNum' = r
           /\ UNCHANGED sessionIdQueue
  <2>1. sessionNum \in Nat
    BY ConstantsAssumption DEF SessionInv, SessionTypeOK
  <2>2. 1..sessionNum' = (1..sessionNum) \cup {r}
    BY <1>2, <2>1
  <2>3. Queued' = Queued
    BY <1>2 DEF Queued
  <2> QED
    BY <2>2, <2>3
<1>3. CASE r = ERROR_SESSION_ID
  BY <1>3, ConstantsAssumption DEF SessionIds, ERROR_SESSION_ID
<1> QED
  BY <1>1, <1>2, <1>3 DEF NextSessionId

LEMMA LostStep ==
    ASSUME SessionInv, [Next]_vars
    PROVE  IdLostOnlyWhenFull
<1>0. sessionIdMap \in [Addrs -> SessionIds \cup {0}] /\ 0 \notin SessionIds
  BY DEF SessionInv, SessionTypeOK, SessionIds
<1>1. CASE sessionIdVars' = sessionIdVars /\ Resting' = Resting
  <2>1. LostIds' = LostIds
    BY <1>1 DEF LostIds, InUse, Queued, Connected, sessionIdVars
  <2> QED
    BY <2>1 DEF IdLostOnlyWhenFull
<1>2. ASSUME NEW b \in Addrs, NEW r \in SessionIds, sessionIdMap[b] = 0, Resting' = Resting,
             NextSessionId(r), sessionIdMap' = [sessionIdMap EXCEPT ![b] = r]
      PROVE  IdLostOnlyWhenFull
  <2>1. (1..sessionNum') \ (Queued' \cup {r}) = (1..sessionNum) \ (Queued \cup {r})
    BY <1>2, IssuedMoves
  <2>2. InUse' = InUse \cup {r}
    <3>1. \A a \in Addrs : sessionIdMap'[a] = IF a = b THEN r ELSE sessionIdMap[a]
      BY <1>0, <1>2
    <3> QED
      BY <1>0, <1>2, <3>1 DEF InUse, Connected
  <2>3. r \notin LostIds
    <3>1. r \in Queued \/ r = sessionNum + 1
      <4>1. sessionIdQueue \in Seq(SessionIds)
        BY DEF SessionInv, SessionTypeOK
      <4>2. sessionIdQueue # <<>> /\ r = Head(sessionIdQueue) => r \in Queued
        <5> SUFFICES ASSUME sessionIdQueue # <<>>, r = Head(sessionIdQueue) PROVE r \in Queued
          OBVIOUS
        <5>1. 1 \in DOMAIN sessionIdQueue /\ r = sessionIdQueue[1]
          BY <4>1
        <5> QED
          BY <5>1 DEF Queued
      <4>3. r # ERROR_SESSION_ID
        BY ConstantsAssumption DEF SessionIds, ERROR_SESSION_ID
      <4> QED
        BY <1>2, <4>2, <4>3 DEF NextSessionId
    <3>2. sessionNum + 1 \notin 1..sessionNum
      BY ConstantsAssumption DEF SessionInv, SessionTypeOK
    <3> QED
      BY <3>1, <3>2 DEF LostIds
  <2>4. LostIds' = LostIds
    BY <1>2, <2>1, <2>2, <2>3 DEF LostIds
  <2> QED
    BY <2>4 DEF IdLostOnlyWhenFull
<1>r. timerVars' = timerVars => Resting' = Resting
  BY DEF timerVars, Resting
<1>3. ASSUME NEW b \in Addrs, Close(b)
      PROVE  IdLostOnlyWhenFull
  <2>1. /\ sessionIdMap' = [sessionIdMap EXCEPT ![b] = 0]
        /\ Resting' = Resting \cup {sessionIdMap[b]}
        /\ UNCHANGED <<sessionNum, sessionIdQueue>>
        /\ sessionIdMap[b] # 0
    BY <1>3 DEF Close, DisconnectPeer, Connected, Resting
  <2>2. \A a \in Addrs : sessionIdMap'[a] = IF a = b THEN 0 ELSE sessionIdMap[a]
    BY <1>0, <2>1
  <2>3. InUse' \cup Resting' = InUse \cup Resting
    <3>1. InUse \cup Resting' \subseteq InUse \cup Resting
      BY <2>1 DEF InUse, Connected
    <3>2. InUse' \subseteq InUse
      BY <2>2 DEF InUse, Connected
    <3>3. InUse \subseteq InUse' \cup Resting'
      BY <2>1, <2>2 DEF InUse, Connected
    <3>4. Resting \subseteq Resting'
      BY <2>1
    <3> QED
      BY <3>1, <3>2, <3>3, <3>4
  <2>4. Queued' = Queued
    BY <2>1 DEF Queued
  <2>5. LostIds' = LostIds
    BY <2>1, <2>3, <2>4 DEF LostIds
  <2> QED
    BY <2>5 DEF IdLostOnlyWhenFull
<1>4. ASSUME NEW b \in Addrs, AddNode(b) \/ SearchReq(b)
      PROVE  IdLostOnlyWhenFull
  BY <1>1, <1>r, <1>4 DEF AddNode, SearchReq, ReferWithNodes, PeerId, sessionIdVars
<1>5. ASSUME NEW b \in Addrs, Open(b)
      PROVE  IdLostOnlyWhenFull
  <2>1. PICK r \in SessionIds \cup {ERROR_SESSION_ID} : ConnectPeer(b, r)
    BY <1>5 DEF Open
  <2>2. UNCHANGED timerVars /\ Resting' = Resting
    BY <1>5, <1>r DEF Open
  <2>3. CASE UNCHANGED pmVars
    BY <1>1, <2>2, <2>3 DEF pmVars
  <2>4. CASE NextSessionId(ERROR_SESSION_ID) /\ UNCHANGED sessionIdMap
    <3>1. UNCHANGED <<sessionNum, sessionIdQueue>>
      <4>1. sessionIdQueue # <<>> => Head(sessionIdQueue) \in SessionIds
        BY DEF SessionInv, SessionTypeOK
      <4>2. sessionNum + 1 <= SessionCapacity \/ sessionNum = SessionCapacity
        BY ConstantsAssumption DEF SessionInv, SessionTypeOK
      <4>3. ERROR_SESSION_ID \notin SessionIds /\ ~(ERROR_SESSION_ID <= SessionCapacity)
        BY ConstantsAssumption DEF SessionIds, ERROR_SESSION_ID
      <4> QED
        BY <2>4, <4>1, <4>2, <4>3 DEF NextSessionId
    <3> QED
      BY <1>1, <2>2, <2>4, <3>1 DEF sessionIdVars
  <2>5. CASE /\ sessionIdMap[b] = 0
             /\ r \in SessionIds
             /\ NextSessionId(r)
             /\ sessionIdMap' = [sessionIdMap EXCEPT ![b] = r]
    BY <1>2, <2>2, <2>5
  <2>6. CASE peerCapacity = 0 /\ UNCHANGED sessionIdMap
    BY <2>2, <2>6 DEF IdLostOnlyWhenFull
  <2> QED
    BY <2>1, <2>3, <2>4, <2>5, <2>6 DEF ConnectPeer
<1>6. ASSUME NEW p \in NodeIds, EvictNode(p) \/ LookUp(p)
      PROVE  IdLostOnlyWhenFull
  BY <1>1, <1>r, <1>6 DEF EvictNode, FreePeer, LookUp, SessionIdOfPeer, sessionIdVars
<1>7. ASSUME NEW s \in SessionIds, Recycle(s)
      PROVE  IdLostOnlyWhenFull
  <2>1. /\ s \in Resting /\ Resting' = Resting \ {s}
        /\ UNCHANGED <<sessionNum, sessionIdMap>>
        /\ sessionIdQueue' = Append(sessionIdQueue, s)
        /\ sessionIdQueue \in Seq(SessionIds)
    BY <1>7 DEF Recycle, RecycleSession, SessionInv, SessionTypeOK, Resting
  <2> DEFINE n == Len(sessionIdQueue)
  <2>2. /\ n \in Nat /\ DOMAIN sessionIdQueue = 1..n /\ DOMAIN sessionIdQueue' = 1..(n + 1)
        /\ \A i \in 1..n : sessionIdQueue'[i] = sessionIdQueue[i]
        /\ sessionIdQueue'[n + 1] = s
    BY <2>1
  <2> HIDE DEF n
  <2>3. DOMAIN sessionIdQueue' = DOMAIN sessionIdQueue \cup {n + 1}
    BY <2>2
  <2>4. Queued' = Queued \cup {s}
    BY <2>2, <2>3 DEF Queued
  <2>5. InUse' = InUse
    BY <2>1 DEF InUse, Connected
  <2>6. LostIds' = LostIds
    BY <2>1, <2>4, <2>5 DEF LostIds
  <2> QED
    BY <2>2, <2>6 DEF IdLostOnlyWhenFull
<1>8. CASE UNCHANGED <<pmVars, nodeVars, timerVars>>
  BY <1>1, <1>r, <1>8 DEF pmVars, sessionIdVars
<1>9. ASSUME NEW s \in SessionIds, StartTimer(s)
      PROVE  IdLostOnlyWhenFull
  <2>1. /\ s \in closing /\ closing' = closing \ {s}
        /\ cooling' = IF timersFull THEN cooling ELSE cooling \cup {s}
        /\ UNCHANGED pmVars
    BY ONLY <1>9 DEF StartTimer
  <2>2. CASE timersFull
    BY ONLY <2>1, <2>2 DEF IdLostOnlyWhenFull
  <2>3. CASE ~timersFull
    <3>1. Resting' = Resting
      BY ONLY <2>1, <2>3 DEF Resting
    <3> QED
      BY <1>1, <2>1, <3>1 DEF pmVars
  <2> QED
    BY <2>2, <2>3
<1> QED
  BY ONLY [Next]_vars, StepCases, <1>3, <1>4, <1>5, <1>6, <1>7, <1>8, <1>9 DEF Call

\* An id that was issued stays in use, waiting for its timer, cooling or queued,
\* whatever the callers do.  Two things lose one: connect_peer() for a new address
\* while the peer table is full, and a recycle timer that is refused while the
\* timers are at their limit.
THEOREM IdsAreLostOnlyWhenFull == Spec => IdsLostOnlyWhenFull
<1>1. Spec => []SessionInv
  BY SessionInvInit, SessionInvStep, PTL DEF Spec
<1>2. SessionInv /\ [Next]_vars => [IdLostOnlyWhenFull]_vars
  BY LostStep
<1> QED
  BY <1>1, <1>2, PTL DEF Spec, IdsLostOnlyWhenFull

(* ------------------------------- the peers ------------------------------- *)

\* No node is for the id 0.
HeldFunctions == {h \in [NodeIds -> 0..MaxHeld] : h[0] = 0}

\* PeerInv spelled out for one address and one id at a time.
LEMMA PeerInvElim ==
    ASSUME PeerInv, NEW a \in Addrs, peerIdMap[a] # ABSENT
    PROVE  /\ peerIdMap[a] \in peerKeys
           /\ peerIdMap[a] \in PeerIds
           /\ peerMap[peerIdMap[a]].addr = a
           /\ peerMap[peerIdMap[a]].count \in
                  (held[peerIdMap[a]] + (IF sessionIdMap[a] # 0 THEN 1 ELSE 0))
                      ..(CountMod - 1)
           /\ peerIdMap[a] > 0 /\ sessionIdMap[a] = 0 =>
                  peerMap[peerIdMap[a]].count # CountMod - 1
           /\ peerMap[peerIdMap[a]].count > 0
           /\ peerMap[peerIdMap[a]].status = GOOD <=> sessionIdMap[a] # 0
BY DEF PeerInv, PeerTypeOK, RecordsMatch, UsersCounted, Connected

LEMMA PeerIdsAreIds ==
    ASSUME NEW p \in PeerIds
    PROVE  p \in Nat /\ p # ABSENT /\ p \in PeerKeys
BY ConstantsAssumption DEF ABSENT, PeerKeys

\* A step that does nothing to the peers but replace the record p of address a
\* by rec, which counts the users p has after it.
Updates(a, p, rec) ==
    /\ p = peerIdMap[a]
    /\ p # ABSENT
    /\ peerMap' = [peerMap EXCEPT ![p] = rec]
    /\ peerIdMap' = peerIdMap
    /\ peerKeys' = peerKeys
    /\ peerCapacity' = peerCapacity
    /\ held' \in HeldFunctions
    /\ \A q \in PeerIds : q # p => held'[q] = held[q]
    /\ \A b \in Addrs : b # a => (sessionIdMap'[b] # 0 <=> sessionIdMap[b] # 0)
    /\ rec.addr = a
    /\ rec.count \in (held'[p] + (IF sessionIdMap'[a] # 0 THEN 1 ELSE 0))
                        ..(CountMod - 1)
    /\ p > 0 /\ sessionIdMap'[a] = 0 => rec.count # CountMod - 1
    /\ rec.count > 0
    /\ rec.status = GOOD <=> sessionIdMap'[a] # 0

LEMMA UpdateRecord ==
    ASSUME PeerInv, NEW a \in Addrs, NEW p, NEW rec \in Peers,
           Updates(a, p, rec)
    PROVE  PeerInv'
<1> USE DEF Updates
<1>1. /\ p \in peerKeys
      /\ p \in PeerIds
      /\ p \in PeerKeys
      /\ peerMap[p].addr = a
  BY PeerInvElim, PeerIdsAreIds
<1>2. \A q \in PeerKeys : peerMap'[q] = IF q = p THEN rec ELSE peerMap[q]
  BY <1>1 DEF PeerInv, PeerTypeOK
<1>3. peerKeys \subseteq PeerKeys
  BY DEF PeerInv, PeerTypeOK, PeerKeys
<1>4. \A b \in Addrs : peerIdMap[b] = p => b = a
  BY <1>1 DEF PeerInv, RecordsMatch
<1>5. PeerTypeOK'
  BY <1>1 DEF PeerInv, PeerTypeOK, HeldFunctions
<1>6. RecordsMatch'
  BY ONLY PeerInv, <1>1, <1>2, <1>3, p = peerIdMap[a], rec.addr = a,
          peerIdMap' = peerIdMap, peerKeys' = peerKeys DEF PeerInv, RecordsMatch
<1>7. PhantomsAreEmpty'
  BY ONLY PeerInv, <1>1, <1>2, rec.addr = a, peerKeys' = peerKeys,
          \A q \in PeerIds : q # p => held'[q] = held[q], a \in Addrs
     DEF PeerInv, PhantomsAreEmpty
<1>8. UsersCounted'
  <2> SUFFICES ASSUME NEW b \in Addrs
               PROVE  /\ peerIdMap[b] = ABSENT => sessionIdMap'[b] = 0
                      /\ peerIdMap[b] # ABSENT =>
                           /\ peerMap'[peerIdMap[b]].count \in
                                (held'[peerIdMap[b]]
                                   + (IF sessionIdMap'[b] # 0 THEN 1 ELSE 0))
                                ..(CountMod - 1)
                           /\ peerIdMap[b] > 0 /\ sessionIdMap'[b] = 0 =>
                                  peerMap'[peerIdMap[b]].count # CountMod - 1
                           /\ peerMap'[peerIdMap[b]].count > 0
                           /\ peerMap'[peerIdMap[b]].status = GOOD
                                <=> sessionIdMap'[b] # 0
    BY DEF UsersCounted, Connected
  <2>1. CASE b = a
    BY ONLY <2>1, <1>1, <1>2, p = peerIdMap[a], p # ABSENT,
            rec.count \in (held'[p] + (IF sessionIdMap'[a] # 0 THEN 1 ELSE 0))
                              ..(CountMod - 1),
            p > 0 /\ sessionIdMap'[a] = 0 => rec.count # CountMod - 1,
            rec.count > 0, rec.status = GOOD <=> sessionIdMap'[a] # 0
  <2>2. CASE b # a /\ peerIdMap[b] = ABSENT
    BY <2>2 DEF PeerInv, UsersCounted, Connected
  <2>3. CASE b # a /\ peerIdMap[b] # ABSENT
    <3>1. /\ peerIdMap[b] # p
          /\ peerIdMap[b] \in PeerIds
          /\ peerIdMap[b] \in PeerKeys
      BY <1>4, <2>3, PeerInvElim, PeerIdsAreIds
    <3>2. /\ peerMap'[peerIdMap[b]] = peerMap[peerIdMap[b]]
          /\ held'[peerIdMap[b]] = held[peerIdMap[b]]
      BY <1>2, <3>1
    <3> QED
      BY <2>3, <3>2, PeerInvElim
  <2> QED
    BY <2>1, <2>2, <2>3
<1> QED
  BY ONLY <1>5, <1>6, <1>7, <1>8 DEF PeerInv

\* A step that gives an unregistered address a record of its own, with one
\* user, keeps PeerInv: that user is a node or the session, not both.
LEMMA InsertRecord ==
    ASSUME PeerInv, NEW a \in Addrs, NEW p \in PeerIds \ peerKeys,
           NEW st \in {GOOD, QUESTIONABLE, BAD},
           peerIdMap[a] = ABSENT,
           CreatePeer(a, p, st),
           held' \in HeldFunctions,
           \A q \in PeerIds : q # p => held'[q] = held[q],
           \A b \in Addrs : b # a => (sessionIdMap'[b] # 0 <=> sessionIdMap[b] # 0),
           1 \in (held'[p] + (IF sessionIdMap'[a] # 0 THEN 1 ELSE 0))
                     ..(CountMod - 1),
           p > 0 /\ sessionIdMap'[a] = 0 => 1 # CountMod - 1,
           st = GOOD <=> sessionIdMap'[a] # 0
    PROVE  PeerInv'
<1> DEFINE rec == [NewPeer(a) EXCEPT !.status = st]
<1>5. rec.addr = a /\ rec.count = 1 /\ rec.status = st
  BY ONLY TRUE DEF NewPeer
<1>b. 1 \in 0..(CountMod - 1)
  BY ONLY ConstantsAssumption DEF ConstantsAssumption
<1>a. rec \in Peers
  BY ONLY st \in {GOOD, QUESTIONABLE, BAD}, a \in Addrs, <1>b DEF NewPeer, Peers
<1> HIDE DEF rec
<1>1. /\ p \in Nat /\ p # ABSENT /\ p \in PeerKeys
      /\ peerCapacity # 0
      /\ peerCapacity' = peerCapacity - 1
      /\ peerIdMap' = [peerIdMap EXCEPT ![a] = p]
      /\ peerKeys' = peerKeys \cup {p}
      /\ peerMap' = [peerMap EXCEPT ![p] = rec]
  BY PeerIdsAreIds DEF CreatePeer, rec
<1>2. /\ \A q \in PeerKeys : peerMap'[q] = IF q = p THEN rec ELSE peerMap[q]
      /\ \A b \in Addrs : peerIdMap'[b] = IF b = a THEN p ELSE peerIdMap[b]
  BY <1>1 DEF PeerInv, PeerTypeOK
<1>3. PeerTypeOK'
  BY <1>1, <1>a DEF PeerInv, PeerTypeOK, HeldFunctions
<1>4. \A b \in Addrs : peerIdMap[b] # p
  <2>1. \A b \in Addrs : peerIdMap[b] # ABSENT => peerIdMap[b] \in peerKeys
    BY ONLY PeerInv DEF PeerInv, RecordsMatch
  <2> QED
    BY ONLY <2>1, <1>1, p \in PeerIds \ peerKeys
<1>6. \A q \in peerKeys : q \in PeerKeys /\ q # ABSENT
  BY PeerIdsAreIds DEF PeerInv, PeerTypeOK
<1>7. RecordsMatch'
  BY ONLY PeerInv, <1>1, <1>2, <1>4, <1>5, <1>6, peerIdMap[a] = ABSENT,
          p \notin peerKeys, a \in Addrs
     DEF PeerInv, RecordsMatch
<1>8. PhantomsAreEmpty'
  BY ONLY PeerInv, <1>1, <1>2, <1>5, a \in Addrs,
          \A q \in PeerIds : q # p => held'[q] = held[q]
     DEF PeerInv, PhantomsAreEmpty
<1>9. UsersCounted'
  <2> SUFFICES ASSUME NEW b \in Addrs
               PROVE  /\ peerIdMap'[b] = ABSENT => sessionIdMap'[b] = 0
                      /\ peerIdMap'[b] # ABSENT =>
                           /\ peerMap'[peerIdMap'[b]].count \in
                                (held'[peerIdMap'[b]]
                                   + (IF sessionIdMap'[b] # 0 THEN 1 ELSE 0))
                                ..(CountMod - 1)
                           /\ peerIdMap'[b] > 0 /\ sessionIdMap'[b] = 0 =>
                                  peerMap'[peerIdMap'[b]].count # CountMod - 1
                           /\ peerMap'[peerIdMap'[b]].count > 0
                           /\ peerMap'[peerIdMap'[b]].status = GOOD
                                <=> sessionIdMap'[b] # 0
    BY DEF UsersCounted, Connected
  <2>1. CASE b = a
    <3>1. peerIdMap'[b] = p /\ peerMap'[peerIdMap'[b]] = rec /\ p # ABSENT
      BY ONLY <2>1, <1>1, <1>2, a \in Addrs
    <3>2. 1 \in (held'[p] + (IF sessionIdMap'[b] # 0 THEN 1 ELSE 0))..(CountMod - 1)
      BY ONLY <2>1,
              1 \in (held'[p] + (IF sessionIdMap'[a] # 0 THEN 1 ELSE 0))..(CountMod - 1)
    <3>3. p > 0 /\ sessionIdMap'[b] = 0 => 1 # CountMod - 1
      BY ONLY <2>1, p > 0 /\ sessionIdMap'[a] = 0 => 1 # CountMod - 1
    <3>4. rec.status = GOOD <=> sessionIdMap'[b] # 0
      BY ONLY <1>5, <2>1, st = GOOD <=> sessionIdMap'[a] # 0
    <3>5. /\ peerMap'[peerIdMap'[b]].count = 1
          /\ peerMap'[peerIdMap'[b]].status = rec.status
          /\ peerIdMap'[b] = p
          /\ p # ABSENT
      BY ONLY <1>5, <3>1
    <3>6. 1 > 0
      OBVIOUS
    <3> QED
      BY ONLY <3>2, <3>3, <3>4, <3>5, <3>6, Zenon
  <2>2. CASE b # a /\ peerIdMap[b] = ABSENT
    BY <2>2, <1>2 DEF PeerInv, UsersCounted, Connected
  <2>3. CASE b # a /\ peerIdMap[b] # ABSENT
    <3>1. /\ peerIdMap[b] # p
          /\ peerIdMap[b] \in PeerIds
          /\ peerIdMap[b] \in PeerKeys
      BY <1>4, <2>3, PeerInvElim, PeerIdsAreIds
    <3>2. /\ peerIdMap'[b] = peerIdMap[b]
          /\ peerMap'[peerIdMap[b]] = peerMap[peerIdMap[b]]
          /\ held'[peerIdMap[b]] = held[peerIdMap[b]]
      BY <1>2, <2>3, <3>1
    <3> QED
      BY <2>3, <3>2, PeerInvElim
  <2> QED
    BY <2>1, <2>2, <2>3
<1> QED
  BY ONLY <1>3, <1>7, <1>8, <1>9 DEF PeerInv

\* A step that takes the last user of a peer away and erases its record.
Erases(a, p) ==
    /\ p = peerIdMap[a]
    /\ p # ABSENT
    /\ ErasePeer(a, p)
    /\ held' \in HeldFunctions
    /\ held'[p] = 0
    /\ \A q \in PeerIds : q # p => held'[q] = held[q]
    /\ \A b \in Addrs : b # a => (sessionIdMap'[b] # 0 <=> sessionIdMap[b] # 0)
    /\ sessionIdMap'[a] = 0

LEMMA EraseRecord ==
    ASSUME PeerInv, NEW a \in Addrs, NEW p, Erases(a, p)
    PROVE  PeerInv'
<1> USE DEF Erases
<1>1. /\ p \in peerKeys
      /\ p \in PeerIds
      /\ p \in PeerKeys
      /\ peerMap[p].addr = a
  BY PeerInvElim, PeerIdsAreIds
<1>2. /\ peerCapacity' = peerCapacity + 1
      /\ peerKeys' = peerKeys \ {p}
      /\ peerMap' = [peerMap EXCEPT ![p] = DefaultPeer]
      /\ peerIdMap' = [b \in Addrs |-> IF b = a THEN ABSENT ELSE peerIdMap[b]]
  BY ONLY Erases(a, p) DEF Erases, ErasePeer
<1>3. DefaultPeer \in Peers /\ DefaultPeer.addr \notin Addrs
  BY ConstantsAssumption DEF Peers, DefaultPeer, GOOD, QUESTIONABLE, BAD
<1>4. /\ \A q \in PeerKeys : peerMap'[q] = IF q = p THEN DefaultPeer ELSE peerMap[q]
      /\ \A b \in Addrs : peerIdMap'[b] = IF b = a THEN ABSENT ELSE peerIdMap[b]
  BY <1>1, <1>2 DEF PeerInv, PeerTypeOK
<1>5. PeerTypeOK'
  BY <1>1, <1>2, <1>3 DEF PeerInv, PeerTypeOK, HeldFunctions
<1>6. \A b \in Addrs : peerIdMap[b] = p => b = a
  BY <1>1 DEF PeerInv, RecordsMatch
<1>7. peerKeys \subseteq PeerKeys
  BY DEF PeerInv, PeerTypeOK, PeerKeys
<1>8. RecordsMatch'
  BY ONLY PeerInv, <1>1, <1>2, <1>4, <1>6, <1>7, p = peerIdMap[a]
     DEF PeerInv, RecordsMatch
<1>9. PhantomsAreEmpty'
  BY ONLY PeerInv, <1>1, <1>2, <1>4, held'[p] = 0,
          \A q \in PeerIds : q # p => held'[q] = held[q]
     DEF PeerInv, PhantomsAreEmpty
<1>10. UsersCounted'
  <2> SUFFICES ASSUME NEW b \in Addrs
               PROVE  /\ peerIdMap'[b] = ABSENT => sessionIdMap'[b] = 0
                      /\ peerIdMap'[b] # ABSENT =>
                           /\ peerMap'[peerIdMap'[b]].count \in
                                (held'[peerIdMap'[b]]
                                   + (IF sessionIdMap'[b] # 0 THEN 1 ELSE 0))
                                ..(CountMod - 1)
                           /\ peerIdMap'[b] > 0 /\ sessionIdMap'[b] = 0 =>
                                  peerMap'[peerIdMap'[b]].count # CountMod - 1
                           /\ peerMap'[peerIdMap'[b]].count > 0
                           /\ peerMap'[peerIdMap'[b]].status = GOOD
                                <=> sessionIdMap'[b] # 0
    BY DEF UsersCounted, Connected
  <2>1. CASE b = a
    BY <2>1, <1>4
  <2>2. CASE b # a /\ peerIdMap[b] = ABSENT
    BY <2>2, <1>4 DEF PeerInv, UsersCounted, Connected
  <2>3. CASE b # a /\ peerIdMap[b] # ABSENT
    <3>1. /\ peerIdMap[b] # p
          /\ peerIdMap[b] \in PeerIds
          /\ peerIdMap[b] \in PeerKeys
      BY <1>6, <2>3, PeerInvElim, PeerIdsAreIds
    <3>2. /\ peerIdMap'[b] = peerIdMap[b]
          /\ peerMap'[peerIdMap[b]] = peerMap[peerIdMap[b]]
          /\ held'[peerIdMap[b]] = held[peerIdMap[b]]
      BY <1>4, <2>3, <3>1
    <3> QED
      BY <2>3, <3>2, PeerInvElim
  <2> QED
    BY <2>1, <2>2, <2>3
<1> QED
  BY ONLY <1>5, <1>8, <1>9, <1>10 DEF PeerInv

\* --Count is exact, and so is ++Count while the uint8_t has room.
LEMMA CountsFit ==
    ASSUME PeerInv, NEW a \in Addrs, peerIdMap[a] # ABSENT
    PROVE  LET p == peerIdMap[a]
               c == peerMap[p].count
           IN  /\ held[p] \in 0..MaxHeld
               /\ c \in Nat \ {0}
               /\ Dec(c) = c - 1
               /\ Dec(c) \in 0..(CountMod - 1)
               /\ c # CountMod - 1 => Inc(c) = c + 1 /\ Inc(c) \in 0..(CountMod - 1)
<1>1. /\ peerIdMap[a] \in PeerIds
      /\ peerMap[peerIdMap[a]].count \in
             (held[peerIdMap[a]] + (IF sessionIdMap[a] # 0 THEN 1 ELSE 0))..(CountMod - 1)
      /\ peerMap[peerIdMap[a]].count > 0
  BY PeerInvElim
<1>2. held[peerIdMap[a]] \in 0..MaxHeld
  BY <1>1 DEF PeerInv, PeerTypeOK, NodeIds
<1> QED
  <2>1. CountMod \in Nat /\ MaxHeld \in Nat
    BY ONLY ConstantsAssumption, MaxHeldAssumption
       DEF ConstantsAssumption, MaxHeldAssumption
  <2>2. ASSUME NEW h \in 0..MaxHeld, NEW s \in {0, 1}, NEW c \in (h + s)..(CountMod - 1), c > 0
        PROVE  /\ c \in Nat \ {0}
               /\ Dec(c) = c - 1
               /\ Dec(c) \in 0..(CountMod - 1)
               /\ c # CountMod - 1 => Inc(c) = c + 1 /\ Inc(c) \in 0..(CountMod - 1)
    BY ONLY <2>1, <2>2 DEF Inc, Dec
  <2> QED
    BY ONLY <1>1, <1>2, <2>2

\* Two assignments to fields of one record are one new record.
LEMMA RecordEdit ==
    ASSUME NEW f \in [PeerKeys -> Peers], NEW p \in PeerKeys, NEW c, NEW st
    PROVE  [f EXCEPT ![p].count = c, ![p].status = st]
             = [f EXCEPT ![p] = [f[p] EXCEPT !.count = c, !.status = st]]
OBVIOUS

LEMMA ReferKeepsPeerInv ==
    ASSUME PeerInv, NEW a \in Addrs, NEW r \in PeerKeys, NEW n \in Nat,
           ReferWithNodes(a, r, n), ~strayed'
    PROVE  PeerInv'
<1>1. /\ r > 0 => ~CountRunsOut(a, r)
      /\ r \in NodeIds => held[r] + n <= MaxHeld
      /\ PeerId(a, r)
      /\ held' = IF r \in NodeIds THEN [held EXCEPT ![r] = @ + n] ELSE held
      /\ n <= (IF r > 0 THEN 1 ELSE 0)
  <2>1. ~(n > (IF r > 0 THEN 1 ELSE 0))
    BY DEF ReferWithNodes
  <2>2. n <= (IF r > 0 THEN 1 ELSE 0)
    BY ONLY <2>1, n \in Nat
  <2> QED
    BY <2>2 DEF ReferWithNodes
<1>2. sessionIdMap' = sessionIdMap
  BY <1>1 DEF PeerId, sessionIdVars
<1>c. CountMod \in Nat \ {0, 1}
  BY ConstantsAssumption DEF ConstantsAssumption
<1>a. MaxHeld \in Nat /\ held \in [NodeIds -> 0..MaxHeld] /\ held[0] = 0
  BY MaxHeldAssumption DEF PeerInv, PeerTypeOK
<1>b. held \in HeldFunctions
  BY ONLY <1>a DEF HeldFunctions
<1>3. CASE r = 0 /\ UNCHANGED peerVars
  <2>1. n = 0
    BY ONLY <1>1, <1>3, n \in Nat
  <2>2. held' = held
    BY ONLY <1>1, <1>3, <1>a, <2>1 DEF NodeIds
  <2> QED
    BY <1>2, <1>3, <2>2 DEF PeerInv, PeerTypeOK, RecordsMatch, PhantomsAreEmpty,
          UsersCounted, Connected, peerVars
<1>h. ASSUME r \in PeerIds
      PROVE  /\ held' \in HeldFunctions
             /\ held'[r] = held[r] + n
             /\ held[r] \in 0..MaxHeld
             /\ \A q \in PeerIds : q # r => held'[q] = held[q]
  <2>1. r \in NodeIds /\ r \in Nat /\ 0 \in NodeIds /\ PeerIds \subseteq NodeIds
    BY <1>h, PeerIdsAreIds DEF NodeIds
  <2>4. r = 0 => n = 0
    BY ONLY <1>1, n \in Nat
  <2>2. held' = [held EXCEPT ![r] = held[r] + n] /\ held[r] + n <= MaxHeld
    BY ONLY <1>1, <2>1
  <2>3. held[r] \in 0..MaxHeld /\ held[r] + n \in 0..MaxHeld
    BY ONLY <1>a, <2>1, <2>2, n \in Nat
  <2> QED
    BY ONLY <1>a, <2>1, <2>2, <2>3, <2>4 DEF HeldFunctions
<1>4. CASE peerIdMap[a] = ABSENT /\ CreatePeer(a, r, QUESTIONABLE)
  <2>1. r \in PeerIds \ peerKeys /\ r \in Nat /\ r \in PeerKeys
    BY <1>4, PeerIdsAreIds DEF CreatePeer
  <2>2. held[r] = 0 /\ sessionIdMap[a] = 0 /\ peerMap[r].count = 0
    BY <1>4, <2>1 DEF PeerInv, PhantomsAreEmpty, UsersCounted, Connected, DefaultPeer
  <2>3. n \in {0, 1}
    BY ONLY <1>1, n \in Nat
  <2>4. 1 \in (held'[r] + (IF sessionIdMap'[a] # 0 THEN 1 ELSE 0))..(CountMod - 1)
    BY ONLY <1>2, <1>a, <1>c, <1>h, <2>1, <2>2, <2>3
  <2>5. r > 0 /\ sessionIdMap'[a] = 0 => 1 # CountMod - 1
    BY ONLY <1>1, <1>c, <2>2, a \in Addrs DEF CountRunsOut, NodeReferences, Connected
  <2> QED
    BY <1>2, <1>4, <1>h, <2>1, <2>2, <2>4, <2>5, InsertRecord DEF GOOD, QUESTIONABLE, BAD
<1>5. CASE /\ peerIdMap[a] # ABSENT
           /\ r = peerIdMap[a]
           /\ r > 0
           /\ peerKeys' = peerKeys \cup {r}
           /\ peerMap' = [peerMap EXCEPT ![r].count = Inc(@)]
           /\ UNCHANGED <<peerCapacity, peerIdMap>>
  <2> DEFINE rec == [peerMap[r] EXCEPT !.count = Inc(@)]
  <2> DEFINE s == IF sessionIdMap[a] # 0 THEN 1 ELSE 0
  <2>1. /\ r \in PeerIds
        /\ r \in peerKeys
        /\ peerMap[r].addr = a
        /\ peerMap[r].count \in (held[r] + s)..(CountMod - 1)
        /\ peerMap[r].status = GOOD <=> sessionIdMap[a] # 0
    BY <1>5, PeerInvElim
  <2>2. peerMap[r] \in Peers
    BY DEF PeerInv, PeerTypeOK
  <2>a. held[r] \in 0..MaxHeld
    BY ONLY <1>h, <2>1
  <2>3. peerMap[r].count - s < CountMod - 2
    BY ONLY <1>1, <1>5, <1>c, <1>a, <2>1, <2>a, a \in Addrs
       DEF CountRunsOut, NodeReferences, Connected
  <2>4. /\ Inc(peerMap[r].count) = peerMap[r].count + 1
        /\ Inc(peerMap[r].count) \in 0..(CountMod - 1)
    <3>1. peerMap[r].count # CountMod - 1
      BY ONLY <1>a, <1>c, <2>1, <2>a, <2>3
    <3> QED
      BY <1>5, <3>1, CountsFit
  <2>5. peerMap[r].count + 1 \in 0..(CountMod - 1)
    BY ONLY <2>4
  <2>6. /\ rec \in Peers
        /\ rec.addr = a
        /\ rec.count = peerMap[r].count + 1
        /\ rec.status = peerMap[r].status
    BY ONLY <2>1, <2>2, <2>4, <2>5 DEF Peers
  <2>7. peerMap' = [peerMap EXCEPT ![r] = rec]
    BY <1>5
  <2> HIDE DEF rec
  <2>9. peerKeys' = peerKeys
    BY ONLY <1>5, <2>1
  <2>s. s \in {0, 1} /\ s = (IF sessionIdMap'[a] # 0 THEN 1 ELSE 0)
    BY ONLY <1>2
  <2> HIDE DEF s
  <2>10. /\ rec.count \in (held'[r] + s)..(CountMod - 1)
         /\ s = 0 => rec.count # CountMod - 1
         /\ rec.count > 0
    <3>1. n \in {0, 1} /\ held'[r] = held[r] + n
      BY ONLY <1>1, <1>5, <1>h, <2>1, n \in Nat
    <3> QED
      BY ONLY <1>a, <1>c, <2>a, <2>s, <2>1, <2>3, <2>6, <3>1
  <2>11. rec.status = GOOD <=> sessionIdMap'[a] # 0
    BY ONLY <1>2, <2>1, <2>6
  <2> QED
    <3>1. Updates(a, r, rec)
      BY ONLY <1>2, <1>5, <1>h, <2>1, <2>6, <2>7, <2>9, <2>10, <2>11, <2>s DEF Updates
    <3> QED
      BY ONLY PeerInv, a \in Addrs, <2>6, <3>1, UpdateRecord
<1>6. CASE peerIdMap[a] # ABSENT /\ r = peerIdMap[a] /\ r <= 0 /\ UNCHANGED peerVars
  <2>1. r \in Nat
    BY <1>6, PeerInvElim, PeerIdsAreIds
  <2>2. r = 0
    BY ONLY <1>6, <2>1
  <2> QED
    BY ONLY <1>3, <1>6, <2>2
<1> QED
  BY <1>1, <1>3, <1>4, <1>5, <1>6 DEF PeerId

LEMMA AddNodeKeepsPeerInv ==
    ASSUME PeerInv, NEW a \in Addrs, AddNode(a), ~strayed'
    PROVE  PeerInv'
BY ReferKeepsPeerInv DEF AddNode

LEMMA SearchReqKeepsPeerInv ==
    ASSUME PeerInv, NEW a \in Addrs, SearchReq(a), ~strayed'
    PROVE  PeerInv'
<1>1. 0..MaxKeys \subseteq Nat
  BY MaxKeysAssumption
<1> QED
  BY <1>1, ReferKeepsPeerInv DEF SearchReq

LEMMA EvictNodeKeepsPeerInv ==
    ASSUME PeerInv, NEW p \in NodeIds, EvictNode(p)
    PROVE  PeerInv'
<1> DEFINE a == peerMap[p].addr
<1> DEFINE rec == [peerMap[p] EXCEPT !.count = Dec(@)]
<1>1. /\ held[p] > 0
      /\ FreePeer(p)
      /\ held' = [held EXCEPT ![p] = @ - 1]
  BY DEF EvictNode
<1>i. p \in PeerIds
  BY <1>1 DEF PeerInv, PeerTypeOK, NodeIds
<1>2. p \in peerKeys /\ a \in Addrs
  BY ONLY PeerInv, <1>i, <1>1, PeerIdsAreIds
     DEF PeerInv, PhantomsAreEmpty
<1>3. p = peerIdMap[a] /\ p # ABSENT
  BY <1>i, <1>2, PeerIdsAreIds DEF PeerInv, RecordsMatch
<1>4. /\ peerMap[p].count \in (held[p] + (IF sessionIdMap[a] # 0 THEN 1 ELSE 0))
                                ..(CountMod - 1)
      /\ peerMap[p].count > 0
      /\ peerMap[p].status = GOOD <=> sessionIdMap[a] # 0
  BY <1>2, <1>3, PeerInvElim
<1>5. /\ held[p] \in 0..MaxHeld
      /\ Dec(peerMap[p].count) = peerMap[p].count - 1
      /\ Dec(peerMap[p].count) \in 0..(CountMod - 1)
  BY <1>2, <1>3, CountsFit
<1>6. /\ held' \in HeldFunctions
      /\ held'[p] = held[p] - 1
      /\ \A q \in PeerIds : q # p => held'[q] = held[q]
  <2>1. p # 0 /\ held \in [NodeIds -> 0..MaxHeld] /\ held[0] = 0
    BY <1>1 DEF PeerInv, PeerTypeOK
  <2>2. held[p] - 1 \in 0..MaxHeld /\ 0 \in NodeIds /\ PeerIds \subseteq NodeIds
    BY <1>1, <1>5, MaxHeldAssumption DEF NodeIds
  <2> QED
    BY ONLY <1>1, <2>1, <2>2, p \in NodeIds DEF HeldFunctions
<1>7. sessionIdMap' = sessionIdMap
  BY <1>1 DEF FreePeer, sessionIdVars
<1>8. peerMap[p] \in Peers
  BY <1>i, PeerIdsAreIds DEF PeerInv, PeerTypeOK
<1>9. CASE /\ Dec(peerMap[p].count) # 0
           /\ peerMap' = [peerMap EXCEPT ![p].count = Dec(@)]
           /\ UNCHANGED <<peerCapacity, peerIdMap, peerKeys>>
  <2>1. peerMap[p].count - 1 \in 0..(CountMod - 1) /\ peerMap[p].count - 1 > 0
    BY ONLY <1>1, <1>4, <1>5, <1>9
  <2>2. /\ rec \in Peers
        /\ rec.addr = a
        /\ rec.count = peerMap[p].count - 1
        /\ rec.status = peerMap[p].status
    BY ONLY <1>5, <1>8, <2>1 DEF Peers
  <2>3. peerMap' = [peerMap EXCEPT ![p] = rec]
    BY <1>9
  <2> HIDE DEF rec
  <2>4. /\ rec.count \in (held'[p] + (IF sessionIdMap'[a] # 0 THEN 1 ELSE 0))
                            ..(CountMod - 1)
        /\ rec.count # CountMod - 1
        /\ rec.count > 0
    BY ONLY <1>4, <1>5, <1>6, <1>7, <2>1, <2>2, MaxHeldAssumption, ConstantsAssumption
       DEF MaxHeldAssumption, ConstantsAssumption
  <2>5. rec.status = GOOD <=> sessionIdMap'[a] # 0
    BY ONLY <1>4, <1>7, <2>2
  <2> QED
    <3>1. Updates(a, p, rec)
      BY ONLY <1>3, <1>6, <1>7, <1>9, <2>2, <2>3, <2>4, <2>5 DEF Updates
    <3> QED
      BY ONLY PeerInv, <1>2, <2>2, <3>1, UpdateRecord
<1>10. CASE Dec(peerMap[p].count) = 0 /\ ErasePeer(a, p)
  <2>1. held'[p] = 0 /\ sessionIdMap'[a] = 0
    BY ONLY <1>1, <1>4, <1>5, <1>6, <1>7, <1>10
  <2> QED
    <3>1. Erases(a, p)
      BY ONLY <1>3, <1>6, <1>7, <1>10, <2>1 DEF Erases
    <3> QED
      BY ONLY PeerInv, <1>2, <3>1, EraseRecord
<1> QED
  BY ONLY <1>1, <1>2, <1>9, <1>10 DEF FreePeer

\* Writing the session of one address leaves the others alone.
LEMMA SessionWrite ==
    ASSUME SessionTypeOK, NEW a \in Addrs, NEW s,
           sessionIdMap' = [sessionIdMap EXCEPT ![a] = s]
    PROVE  /\ sessionIdMap'[a] = s
           /\ \A b \in Addrs : b # a => (sessionIdMap'[b] # 0 <=> sessionIdMap[b] # 0)
BY DEF SessionTypeOK

LEMMA OpenKeepsPeerInv ==
    ASSUME PeerInv, SessionTypeOK, NEW a \in Addrs, Open(a)
    PROVE  PeerInv'
<1>1. PICK r \in SessionIds \cup {ERROR_SESSION_ID} : ConnectPeer(a, r)
  BY DEF Open
<1>2. held' = held /\ held \in HeldFunctions
  BY DEF Open, nodeVars, PeerInv, PeerTypeOK, HeldFunctions
<1>3. CASE UNCHANGED <<peerVars, sessionIdMap>>
  BY <1>2, <1>3 DEF PeerInv, PeerTypeOK, RecordsMatch, PhantomsAreEmpty,
     UsersCounted, Connected, peerVars
<1>4. CASE /\ sessionIdMap[a] = 0
           /\ r \in SessionIds
           /\ ReferToGoodPeer(a)
           /\ sessionIdMap' = [sessionIdMap EXCEPT ![a] = r]
  <2>1. r # 0
    BY <1>4 DEF SessionIds
  <2>2. /\ sessionIdMap'[a] # 0
        /\ \A b \in Addrs : b # a => (sessionIdMap'[b] # 0 <=> sessionIdMap[b] # 0)
    BY <1>4, <2>1, SessionWrite
  <2>3. ASSUME NEW p \in PeerIds, peerIdMap[a] = ABSENT, CreatePeer(a, p, GOOD)
        PROVE  PeerInv'
    <3>1. p \in PeerIds \ peerKeys
      BY <2>3 DEF CreatePeer
    <3>2. held'[p] = 0
      BY <1>2, <3>1, PeerIdsAreIds DEF PeerInv, PhantomsAreEmpty
    <3>3. 1 \in (held'[p] + (IF sessionIdMap'[a] # 0 THEN 1 ELSE 0))
                    ..(CountMod - 1)
      BY ONLY <2>2, <3>2, ConstantsAssumption DEF ConstantsAssumption
    <3>5. p > 0 /\ sessionIdMap'[a] = 0 => 1 # CountMod - 1
      BY ONLY <2>2
    <3>4. GOOD \in {GOOD, QUESTIONABLE, BAD}
      OBVIOUS
    <3> QED
      BY ONLY PeerInv, a \in Addrs, <1>2, <2>2, <2>3, <3>1, <3>3, <3>4, <3>5,
              InsertRecord
  <2>4. ASSUME NEW p, p = peerIdMap[a], p # ABSENT,
               peerKeys' = peerKeys \cup {p},
               peerMap' = [peerMap EXCEPT
                             ![p].count = IF p > 0 THEN Inc(@) ELSE @,
                             ![p].status = GOOD],
               UNCHANGED <<peerCapacity, peerIdMap>>
        PROVE  PeerInv'
    <3>1. /\ p \in PeerIds
          /\ p \in peerKeys
          /\ p \in PeerKeys
          /\ p \in Nat
          /\ peerMap[p].addr = a
          /\ held[p] \in 0..MaxHeld
          /\ peerMap[p].count \in held[p]..(CountMod - 1)
          /\ peerMap[p].count > 0
          /\ p > 0 => peerMap[p].count # CountMod - 1
      <4>1. /\ p \in PeerIds
            /\ p \in peerKeys
            /\ peerMap[p].addr = a
            /\ peerMap[p].count > 0
            /\ peerMap[p].count \in (held[p] + 0)..(CountMod - 1)
            /\ p > 0 => peerMap[p].count # CountMod - 1
        BY ONLY PeerInv, a \in Addrs, <1>4, <2>4, PeerInvElim
      <4>2. held[p] \in 0..MaxHeld
        BY <4>1 DEF PeerInv, PeerTypeOK, NodeIds
      <4>3. peerMap[p].count \in held[p]..(CountMod - 1)
        BY ONLY <4>1, <4>2
      <4> QED
        BY <4>1, <4>2, <4>3, PeerIdsAreIds
    <3>0. p = 0 => held[p] = 0
      BY DEF PeerInv, PeerTypeOK
    <3>a. peerMap \in [PeerKeys -> Peers] /\ peerMap[p] \in Peers
      BY <3>1 DEF PeerInv, PeerTypeOK
    <3> DEFINE c == IF p > 0 THEN Inc(peerMap[p].count) ELSE peerMap[p].count
    <3>2. /\ c = IF p > 0 THEN peerMap[p].count + 1 ELSE peerMap[p].count
          /\ c \in (held[p] + 1)..(CountMod - 1)
      <4>1. p > 0 => Inc(peerMap[p].count) = peerMap[p].count + 1
        BY <1>4, <2>4, <3>1, CountsFit
      <4> QED
        BY ONLY <3>0, <3>1, <4>1, ConstantsAssumption DEF ConstantsAssumption
    <3>3. c \in 0..(CountMod - 1) /\ c > 0
      BY ONLY <3>1, <3>2
    <3>b. peerMap' = [peerMap EXCEPT ![p].count = c, ![p].status = GOOD]
      BY ONLY <2>4, <3>1, <3>a
    <3> HIDE DEF c
    <3> DEFINE rec == [peerMap[p] EXCEPT !.count = c, !.status = GOOD]
    <3>4. /\ rec \in Peers
          /\ rec.addr = a
          /\ rec.count = c
          /\ rec.status = GOOD
      BY ONLY <3>1, <3>3, <3>a DEF Peers
    <3>5. peerMap' = [peerMap EXCEPT ![p] = rec]
      BY ONLY <3>1, <3>a, <3>b, RecordEdit
    <3> HIDE DEF rec
    <3>6. peerKeys' = peerKeys
      BY ONLY <2>4, <3>1
    <3>7. /\ rec.count \in (held'[p] + (IF sessionIdMap'[a] # 0 THEN 1 ELSE 0))
                              ..(CountMod - 1)
          /\ rec.count > 0
      BY ONLY <1>2, <2>2, <3>2, <3>3, <3>4
    <3> QED
      <4>1. Updates(a, p, rec)
        BY ONLY <1>2, <2>2, <2>4, <3>4, <3>5, <3>6, <3>7 DEF Updates
      <4> QED
        BY ONLY PeerInv, a \in Addrs, <3>4, <4>1, UpdateRecord
  <2> QED
    BY ONLY <1>4, <2>3, <2>4 DEF ReferToGoodPeer
<1> QED
  BY ONLY <1>1, <1>3, <1>4 DEF ConnectPeer, pmVars, sessionIdVars

LEMMA CloseKeepsPeerInv ==
    ASSUME PeerInv, SessionTypeOK, NEW a \in Addrs, Close(a)
    PROVE  PeerInv'
<1> DEFINE p == peerIdMap[a]
<1>1. /\ sessionIdMap[a] # 0
      /\ DisconnectPeer(a)
      /\ held' = held
  BY DEF Close, Connected, nodeVars
<1>2. p # ABSENT
  BY <1>1 DEF PeerInv, UsersCounted, Connected
<1>3. /\ p \in PeerIds
      /\ p \in PeerKeys
      /\ p \in peerKeys
      /\ peerMap[p].addr = a
      /\ peerMap[p].count \in (held[p] + 1)..(CountMod - 1)
  BY <1>1, <1>2, PeerInvElim, PeerIdsAreIds
<1>4. /\ held[p] \in 0..MaxHeld
      /\ Dec(peerMap[p].count) = peerMap[p].count - 1
      /\ Dec(peerMap[p].count) \in 0..(CountMod - 1)
  BY <1>2, CountsFit
<1>p. p = peerIdMap[a]
  OBVIOUS
<1> HIDE DEF p
<1>5. sessionIdMap' = [sessionIdMap EXCEPT ![a] = 0]
  BY <1>1 DEF DisconnectPeer
<1>6. /\ sessionIdMap'[a] = 0
      /\ \A b \in Addrs : b # a => (sessionIdMap'[b] # 0 <=> sessionIdMap[b] # 0)
  BY <1>5, SessionWrite
<1>7. held \in HeldFunctions /\ peerMap \in [PeerKeys -> Peers]
  BY DEF PeerInv, PeerTypeOK, HeldFunctions
<1>8. CASE Dec(peerMap[p].count) = 0 /\ ErasePeer(a, p)
  <2>1. held'[p] = 0
    BY ONLY <1>1, <1>3, <1>4, <1>8
  <2>2. held' \in HeldFunctions
    BY ONLY <1>1, <1>7
  <2> QED
    <3>1. Erases(a, p)
      BY ONLY <1>1, <1>2, <1>p, <1>6, <1>8, <2>1, <2>2 DEF Erases
    <3> QED
      BY ONLY PeerInv, a \in Addrs, <3>1, EraseRecord
<1>9. CASE /\ Dec(peerMap[p].count) # 0
           /\ peerIdMap' = [peerIdMap EXCEPT ![a] = p]
           /\ peerMap' = [peerMap EXCEPT ![p].count = Dec(@),
                                        ![p].status = QUESTIONABLE]
           /\ UNCHANGED <<peerCapacity, peerKeys>>
  <2> DEFINE rec == [peerMap[p] EXCEPT !.count = peerMap[p].count - 1,
                                       !.status = QUESTIONABLE]
  <2>1. /\ peerMap[p].count - 1 \in 0..(CountMod - 1)
        /\ peerMap[p].count - 1 > 0
    BY ONLY <1>3, <1>4, <1>9
  <2>2. peerIdMap' = peerIdMap
    BY <1>9, <1>p DEF PeerInv, PeerTypeOK
  <2>3. peerMap[p] \in Peers
    BY ONLY <1>3, <1>7
  <2>4. /\ rec \in Peers
        /\ rec.addr = a
        /\ rec.count = peerMap[p].count - 1
        /\ rec.status = QUESTIONABLE
    BY ONLY <1>3, <2>1, <2>3 DEF Peers
  <2>5. peerMap' = [peerMap EXCEPT ![p].count = peerMap[p].count - 1,
                                   ![p].status = QUESTIONABLE]
    BY ONLY <1>4, <1>9
  <2>6. peerMap' = [peerMap EXCEPT ![p] = rec]
    BY ONLY <1>3, <1>7, <2>5, RecordEdit
  <2> HIDE DEF rec
  <2>8. /\ rec.count \in (held'[p] + (IF sessionIdMap'[a] # 0 THEN 1 ELSE 0))
                            ..(CountMod - 1)
        /\ rec.count # CountMod - 1
        /\ rec.count > 0
    BY ONLY <1>1, <1>3, <1>4, <1>6, <2>1, <2>4, MaxHeldAssumption, ConstantsAssumption
       DEF MaxHeldAssumption, ConstantsAssumption
  <2>7. ~(rec.status = GOOD)
    BY ONLY <2>4 DEF GOOD, QUESTIONABLE
  <2>9. Updates(a, p, rec)
    BY ONLY <1>1, <1>2, <1>p, <1>6, <1>7, <1>9, <2>2, <2>4, <2>6, <2>7, <2>8
       DEF Updates
  <2> QED
    BY ONLY PeerInv, a \in Addrs, <2>4, <2>9, UpdateRecord
<1> QED
  BY ONLY <1>1, <1>2, <1>3, <1>p, <1>8, <1>9 DEF DisconnectPeer

LEMMA LookUpKeepsPeerInv ==
    ASSUME PeerInv, NEW p \in NodeIds, LookUp(p), ~strayed
    PROVE  PeerInv'
<1>i. p \in PeerIds
  BY DEF LookUp, NodeIds
<1>1. /\ peerKeys' = peerKeys \cup {p}
      /\ peerCapacity' = peerCapacity
      /\ peerIdMap' = peerIdMap
      /\ peerMap' = peerMap
      /\ sessionIdMap' = sessionIdMap
      /\ held' = held
  BY DEF LookUp, SessionIdOfPeer, sessionIdVars, nodeVars
<1>2. PeerTypeOK'
  BY ONLY PeerInv, <1>i, <1>1 DEF PeerInv, PeerTypeOK
<1>3. ASSUME p \notin peerKeys
      PROVE  peerMap[p].addr \notin Addrs
  <2>1. peerMap[p] = DefaultPeer
    BY <1>i, <1>3, PeerIdsAreIds DEF PeerInv, PhantomsAreEmpty
  <2> QED
    BY ONLY <2>1, ConstantsAssumption DEF DefaultPeer, ConstantsAssumption
<1>4. RecordsMatch'
  BY ONLY PeerInv, <1>1, <1>3 DEF PeerInv, RecordsMatch
<1>5. PhantomsAreEmpty'
  BY ONLY PeerInv, <1>1, <1>3 DEF PeerInv, PhantomsAreEmpty
<1>6. UsersCounted'
  BY ONLY PeerInv, <1>1 DEF PeerInv, UsersCounted, Connected
<1> QED
  BY ONLY <1>2, <1>4, <1>5, <1>6 DEF PeerInv

LEMMA PeerInvInit == Init => PeerInv
<1> SUFFICES ASSUME Init
             PROVE  PeerInv
  OBVIOUS
<1>1. /\ peerCapacity = MaxPeers
      /\ peerIdMap = [a \in Addrs |-> ABSENT]
      /\ peerKeys = {}
      /\ peerMap = [p \in PeerKeys |-> DefaultPeer]
      /\ sessionIdMap = [a \in Addrs |-> 0]
      /\ held = [p \in NodeIds |-> 0]
  BY ONLY Init DEF Init, PeerManagerInit
<1>2. DefaultPeer \in Peers
  <2>1. 0 \in 0..(CountMod - 1)
    BY ONLY ConstantsAssumption DEF ConstantsAssumption
  <2> QED
    BY ONLY <2>1 DEF DefaultPeer, Peers
<1>3. 0 \in 0..MaxHeld /\ MaxPeers \in Nat
  BY MaxHeldAssumption, ConstantsAssumption DEF MaxHeldAssumption, ConstantsAssumption
<1>4. PeerTypeOK
  BY ONLY <1>1, <1>2, <1>3 DEF PeerTypeOK, NodeIds
<1>5. PhantomsAreEmpty
  BY ONLY <1>1 DEF PhantomsAreEmpty, PeerKeys, NodeIds
<1>6. RecordsMatch /\ UsersCounted
  BY ONLY <1>1 DEF RecordsMatch, UsersCounted, Connected
<1> QED
  BY ONLY <1>4, <1>5, <1>6 DEF PeerInv

\* No step takes back that nodes have strayed.
LEMMA StrayedStays == [Next]_vars /\ strayed => strayed'
<1> SUFFICES ASSUME [Next]_vars, strayed
             PROVE  strayed'
  OBVIOUS
<1>1. \A a, r, n : ~ReferWithNodes(a, r, n)
  BY DEF ReferWithNodes
<1>2. \A a \in Addrs : ~AddNode(a) /\ ~SearchReq(a)
  BY ONLY <1>1 DEF AddNode, SearchReq
<1> QED
  BY StepCases, <1>2 DEF Call, nodeVars, EvictNode, Open, Close, StartTimer, Recycle, LookUp

LEMMA PeerInvStep ==
    SessionTypeOK /\ PeerInv /\ ~strayed /\ ~strayed' /\ [Next]_vars => PeerInv'
<1> SUFFICES ASSUME SessionTypeOK, PeerInv, ~strayed, ~strayed', [Next]_vars
             PROVE  PeerInv'
  OBVIOUS
<1>1. ASSUME NEW s \in SessionIds, StartTimer(s) \/ Recycle(s)
      PROVE  UNCHANGED <<peerVars, sessionIdMap, held>>
  BY <1>1 DEF StartTimer, Recycle, RecycleSession, nodeVars, pmVars, sessionIdVars
<1>2. CASE UNCHANGED <<peerVars, sessionIdMap, held>>
  BY ONLY PeerInv, <1>2 DEF PeerInv, PeerTypeOK, RecordsMatch, PhantomsAreEmpty,
     UsersCounted, Connected, peerVars
<1>3. CASE UNCHANGED <<pmVars, nodeVars, timerVars>>
  BY <1>2, <1>3 DEF nodeVars, pmVars, sessionIdVars
<1> QED
  BY StepCases, <1>1, <1>2, <1>3, AddNodeKeepsPeerInv, SearchReqKeepsPeerInv, EvictNodeKeepsPeerInv,
     OpenKeepsPeerInv, CloseKeepsPeerInv, LookUpKeepsPeerInv DEF Call

\* Until nodes stray, the counts, the two peer tables
\* and the sessions agree.
KnownPeersInv == ~strayed => PeerInv

LEMMA PeerInvariance == Spec => []KnownPeersInv
<1>1. Init => SessionInv /\ KnownPeersInv
  BY SessionInvInit, PeerInvInit DEF KnownPeersInv
<1>2. SessionInv => SessionTypeOK
  BY DEF SessionInv
<1>3. SessionInv /\ KnownPeersInv /\ [Next]_vars => (SessionInv /\ KnownPeersInv)'
  BY <1>2, SessionInvStep, PeerInvStep, StrayedStays DEF KnownPeersInv
<1> QED
  BY <1>1, <1>3, PTL DEF Spec

(* -------------------------- capacity and theorems ------------------------ *)

Registered == {a \in Addrs : peerIdMap[a] # ABSENT}

\* What any step does to the capacity and the addresses it counts.
LEMMA TableStep ==
    ASSUME PeerInv, ~strayed, [Next]_vars
    PROVE  \/ UNCHANGED <<peerCapacity, peerIdMap>>
           \/ \E a \in Addrs :
                 /\ a \notin Registered
                 /\ Registered' = Registered \cup {a}
                 /\ peerCapacity' = peerCapacity - 1
           \/ \E a \in Addrs :
                 /\ a \in Registered
                 /\ Registered' = Registered \ {a}
                 /\ peerCapacity' = peerCapacity + 1
<1> DEFINE Goal ==
      \/ UNCHANGED <<peerCapacity, peerIdMap>>
      \/ \E a \in Addrs :
            /\ a \notin Registered
            /\ Registered' = Registered \cup {a}
            /\ peerCapacity' = peerCapacity - 1
      \/ \E a \in Addrs :
            /\ a \in Registered
            /\ Registered' = Registered \ {a}
            /\ peerCapacity' = peerCapacity + 1
<1>a. peerIdMap \in [Addrs -> PeerIds \cup {ABSENT}]
  BY DEF PeerInv, PeerTypeOK
<1>1. ASSUME NEW a \in Addrs, NEW p, NEW st, peerIdMap[a] = ABSENT, CreatePeer(a, p, st)
      PROVE  Goal
  <2>1. /\ p # ABSENT
        /\ peerCapacity' = peerCapacity - 1
        /\ peerIdMap' = [peerIdMap EXCEPT ![a] = p]
    BY <1>1, PeerIdsAreIds DEF CreatePeer
  <2>2. \A b \in Addrs : peerIdMap'[b] = IF b = a THEN p ELSE peerIdMap[b]
    BY ONLY <1>a, <2>1
  <2>3. a \notin Registered /\ Registered' = Registered \cup {a}
    BY ONLY <1>1, <2>1, <2>2 DEF Registered
  <2> QED
    BY ONLY <1>1, <2>1, <2>3
<1>2. ASSUME NEW a \in Addrs, NEW p, peerIdMap[a] # ABSENT, ErasePeer(a, p)
      PROVE  Goal
  <2>1. /\ peerCapacity' = peerCapacity + 1
        /\ peerIdMap' = [b \in Addrs |-> IF b = a THEN ABSENT ELSE peerIdMap[b]]
    BY <1>2 DEF ErasePeer
  <2>2. \A b \in Addrs : peerIdMap'[b] = IF b = a THEN ABSENT ELSE peerIdMap[b]
    BY ONLY <2>1
  <2>3. a \in Registered /\ Registered' = Registered \ {a}
    BY ONLY <1>2, <2>2 DEF Registered
  <2> QED
    BY ONLY <1>2, <2>1, <2>3
<1>3. ASSUME UNCHANGED <<peerCapacity, peerIdMap>>
      PROVE  Goal
  BY <1>3
<1> HIDE DEF Goal
<1>4. ASSUME NEW a \in Addrs, AddNode(a)
      PROVE  Goal
  <2>1. PICK r : PeerId(a, r)
    BY <1>4 DEF AddNode, ReferWithNodes
  <2> QED
    BY ONLY a \in Addrs, <2>1, <1>1, <1>3 DEF PeerId, peerVars
<1>s. ASSUME NEW a \in Addrs, SearchReq(a)
      PROVE  Goal
  <2>1. PICK r : PeerId(a, r)
    BY <1>s DEF SearchReq, ReferWithNodes
  <2> QED
    BY ONLY a \in Addrs, <2>1, <1>1, <1>3 DEF PeerId, peerVars
<1>5. ASSUME NEW p \in NodeIds, EvictNode(p)
      PROVE  Goal
  <2>1. FreePeer(p) /\ held[p] > 0
    BY <1>5 DEF EvictNode
  <2>i. p \in PeerIds
    BY <2>1 DEF PeerInv, PeerTypeOK, NodeIds
  <2>2. peerMap[p].addr \in Addrs /\ p \in peerKeys
    BY ONLY PeerInv, <2>i, <2>1, PeerIdsAreIds
       DEF PeerInv, PhantomsAreEmpty
  <2>3. peerIdMap[peerMap[p].addr] # ABSENT
    BY <2>i, <2>2, PeerIdsAreIds DEF PeerInv, RecordsMatch
  <2> QED
    BY ONLY <2>1, <2>2, <2>3, <1>2, <1>3 DEF FreePeer, peerVars
<1>6. ASSUME NEW a \in Addrs, Open(a)
      PROVE  Goal
  <2>1. PICK r : ConnectPeer(a, r)
    BY <1>6 DEF Open
  <2> QED
    BY ONLY a \in Addrs, <2>1, <1>1, <1>3
       DEF ConnectPeer, ReferToGoodPeer, pmVars, peerVars
<1>7. ASSUME NEW a \in Addrs, Close(a)
      PROVE  Goal
  <2>1. DisconnectPeer(a) /\ sessionIdMap[a] # 0
    BY <1>7 DEF Close, Connected
  <2>2. peerIdMap[a] # ABSENT
    BY ONLY PeerInv, a \in Addrs, <2>1 DEF PeerInv, UsersCounted, Connected
  <2>3. [peerIdMap EXCEPT ![a] = peerIdMap[a]] = peerIdMap
    BY ONLY <1>a
  <2>4. peerIdMap[a] \in peerKeys
    BY <2>2, PeerInvElim
  <2> QED
    BY ONLY a \in Addrs, <2>1, <2>2, <2>3, <2>4, <1>2, <1>3 DEF DisconnectPeer
<1>8. ASSUME NEW p \in NodeIds, LookUp(p)
      PROVE  Goal
  BY <1>3, <1>8 DEF LookUp, SessionIdOfPeer
<1>9. ASSUME NEW s \in SessionIds, Recycle(s)
      PROVE  Goal
  BY <1>3, <1>9 DEF Recycle, RecycleSession, peerVars
<1>10. ASSUME UNCHANGED <<pmVars, nodeVars, timerVars>>
       PROVE  Goal
  BY <1>3, <1>10 DEF pmVars, peerVars
<1>12. ASSUME NEW t \in SessionIds, StartTimer(t)
       PROVE  Goal
  BY <1>3, <1>12 DEF StartTimer, pmVars, peerVars
<1>11. Goal
  BY ONLY [Next]_vars, StepCases, <1>4, <1>s, <1>5, <1>6, <1>7, <1>8, <1>9, <1>10, <1>12
     DEF Call
<1> QED
  BY ONLY <1>11 DEF Goal

PlacesAdd == peerCapacity + Cardinality(Registered) = MaxPeers

CapacityInv == IsFiniteSet(Registered) /\ PlacesAdd

LEMMA CapacityStep ==
    ASSUME PeerInv, ~strayed, CapacityInv, [Next]_vars
    PROVE  CapacityInv'
<1> USE DEF CapacityInv
<1>1. /\ IsFiniteSet(Registered)
      /\ peerCapacity + Cardinality(Registered) = MaxPeers
      /\ Cardinality(Registered) \in Nat
      /\ peerCapacity \in Nat
  BY FS_CardinalityType DEF PlacesAdd, Registered, PeerInv, PeerTypeOK
<1>2. CASE UNCHANGED <<peerCapacity, peerIdMap>>
  BY ONLY CapacityInv, <1>2 DEF PlacesAdd, Registered
<1>3. ASSUME NEW a \in Addrs,
             a \notin Registered,
             Registered' = Registered \cup {a},
             peerCapacity' = peerCapacity - 1
      PROVE  CapacityInv'
  <2>1. /\ IsFiniteSet(Registered')
        /\ Cardinality(Registered') = Cardinality(Registered) + 1
    BY ONLY <1>1, <1>3, FS_AddElement
  <2>2. peerCapacity' + Cardinality(Registered') = MaxPeers
    BY ONLY <1>1, <1>3, <2>1
  <2> QED
    BY ONLY <2>1, <2>2 DEF PlacesAdd
<1>4. ASSUME NEW a \in Addrs,
             a \in Registered,
             Registered' = Registered \ {a},
             peerCapacity' = peerCapacity + 1
      PROVE  CapacityInv'
  <2>1. /\ IsFiniteSet(Registered')
        /\ Cardinality(Registered') = Cardinality(Registered) - 1
    BY ONLY <1>1, <1>4, FS_RemoveElement
  <2>2. peerCapacity' + Cardinality(Registered') = MaxPeers
    BY ONLY <1>1, <1>4, <2>1
  <2> QED
    BY ONLY <2>1, <2>2 DEF PlacesAdd
<1> QED
  BY ONLY PeerInv, ~strayed, [Next]_vars, <1>2, <1>3, <1>4, TableStep

LEMMA CapacityInit == Init => CapacityInv
<1> SUFFICES ASSUME Init
             PROVE  CapacityInv
  OBVIOUS
<1>1. peerCapacity = MaxPeers /\ Registered = {}
  BY ONLY Init DEF Init, PeerManagerInit, Registered
<1>2. MaxPeers + 0 = MaxPeers
  BY ONLY ConstantsAssumption DEF ConstantsAssumption
<1> QED
  BY ONLY <1>1, <1>2, FS_EmptySet DEF CapacityInv, PlacesAdd

PlacesInv == ~strayed => CapacityInv

LEMMA CapacityInvariance == Spec => []PlacesInv
<1>1. Spec => []KnownPeersInv
  BY PeerInvariance
<1>2. Init => PlacesInv
  BY CapacityInit DEF PlacesInv
<1>3. KnownPeersInv /\ PlacesInv /\ [Next]_vars => PlacesInv'
  BY CapacityStep, StrayedStays DEF KnownPeersInv, PlacesInv
<1> QED
  BY <1>1, <1>2, <1>3, PTL DEF Spec

\* The places given out and the places left always add up to the capacity,
\* until a node or a reference goes uncounted.
THEOREM CapacityIsConserved == Spec => []CapacityConserved
<1>1. PlacesInv => CapacityConserved
  BY DEF PlacesInv, CapacityInv, PlacesAdd, Registered, CapacityConserved
<1> QED
  BY <1>1, CapacityInvariance, PTL

\* Peer::Count covers the nodes and the session of its peer in every state
\* before nodes stray.
THEOREM RefCountsCoverUsers == Spec => []RefCountCovers
<1>1. ASSUME PeerInv
      PROVE  \A a \in Addrs :
                LET p == peerIdMap[a] IN
                p # ABSENT =>
                    peerMap[p].count >= held[p] + (IF a \in Connected THEN 1 ELSE 0)
  BY <1>1, MaxHeldAssumption DEF PeerInv, UsersCounted, PeerTypeOK, NodeIds
<1>2. KnownPeersInv => RefCountCovers
  BY <1>1 DEF KnownPeersInv, RefCountCovers
<1> QED
  BY <1>2, PeerInvariance, PTL

\* A peer with a user, a node or a session, is never erased.
THEOREM UsedPeersAreKept == Spec => []NoPrematureErase
<1>1. KnownPeersInv => NoPrematureErase
  <2> SUFFICES ASSUME PeerInv
               PROVE  NoPrematureErase
    BY DEF KnownPeersInv, NoPrematureErase
  <2>1. ASSUME NEW p \in PeerIds, held[p] > 0
        PROVE  /\ p \in peerKeys
               /\ peerMap[p].addr \in Addrs
               /\ peerIdMap[peerMap[p].addr] = p
    <3>1. p \in peerKeys /\ peerMap[p].addr \in Addrs
      BY ONLY PeerInv, <2>1, PeerIdsAreIds DEF PeerInv, PhantomsAreEmpty
    <3> QED
      BY ONLY PeerInv, <3>1 DEF PeerInv, RecordsMatch
  <2>2. ASSUME NEW a \in Connected
        PROVE  peerIdMap[a] \in peerKeys
    BY ONLY PeerInv, <2>2 DEF PeerInv, UsersCounted, RecordsMatch, Connected
  <2> QED
    BY ONLY <2>1, <2>2 DEF NoPrematureErase
<1> QED
  BY <1>1, PeerInvariance, PTL

\* The status of a peer and the session table never disagree.
THEOREM GoodStaysConnected == Spec => []GoodIffConnected
<1>1. KnownPeersInv => GoodIffConnected
  <2> SUFFICES ASSUME PeerInv, NEW p \in peerKeys
               PROVE  peerMap[p].status = GOOD <=> \E a \in Connected : peerIdMap[a] = p
    BY DEF KnownPeersInv, GoodIffConnected
  <2>a. peerKeys \subseteq PeerIds
    BY ONLY PeerInv DEF PeerInv, PeerTypeOK
  <2>1. p \in PeerIds /\ p \in PeerKeys
    BY ONLY <2>a DEF PeerKeys
  <2>b. PeerIds \subseteq Nat
    BY ONLY ConstantsAssumption DEF ConstantsAssumption
  <2>2. p # ABSENT
    BY ONLY <2>1, <2>b DEF ABSENT
  <2>3. CASE peerMap[p].addr \in Addrs
    <3>1. peerIdMap[peerMap[p].addr] = p
      BY ONLY PeerInv, <2>3 DEF PeerInv, RecordsMatch
    <3>2. \A a \in Addrs : peerIdMap[a] = p => a = peerMap[p].addr
      BY ONLY PeerInv, <2>2 DEF PeerInv, RecordsMatch
    <3>3. peerMap[p].status = GOOD <=> peerMap[p].addr \in Connected
      BY ONLY PeerInv, <2>2, <2>3, <3>1 DEF PeerInv, UsersCounted
    <3> QED
      BY ONLY <2>3, <3>1, <3>2, <3>3 DEF Connected
  <2>4. CASE peerMap[p].addr \notin Addrs
    <3>1. peerMap[p].status # GOOD
      BY ONLY PeerInv, <2>1, <2>4
         DEF PeerInv, PhantomsAreEmpty, DefaultPeer, GOOD, BAD
    <3>2. \A a \in Addrs : peerIdMap[a] # p
      BY ONLY PeerInv, <2>2, <2>4 DEF PeerInv, RecordsMatch
    <3> QED
      BY ONLY <3>1, <3>2 DEF Connected
  <2> QED
    BY ONLY <2>3, <2>4
<1> QED
  BY <1>1, PeerInvariance, PTL

\* Every table keeps the type of its declaration; in particular the capacity
\* never goes below zero or above what init() set.
THEOREM TypesAreKept == Spec => []TypeOK
<1>b. Spec => [](timersFull \in BOOLEAN)
  <2>1. Init => timersFull \in BOOLEAN
    BY Zenon DEF Init
  <2>2. timersFull \in BOOLEAN /\ [Next]_vars => (timersFull \in BOOLEAN)'
    BY Zenon DEF Next, vars
  <2> QED
    BY <2>1, <2>2, PTL DEF Spec
<1>1. Spec => [](SessionInv /\ KnownPeersInv /\ PlacesInv)
  <2>1. Spec => []SessionInv
    BY SessionInvInit, SessionInvStep, PTL DEF Spec
  <2> QED
    BY <2>1, PeerInvariance, CapacityInvariance, PTL
<1>2. ASSUME PeerInv, CapacityInv
      PROVE  /\ peerCapacity \in 0..MaxPeers
             /\ peerIdMap \in [Addrs -> PeerKeys \cup {ABSENT}]
             /\ peerKeys \subseteq PeerKeys
             /\ peerMap \in [PeerKeys -> Peers]
             /\ held \in [NodeIds -> Nat]
  <2>1. peerCapacity \in 0..MaxPeers
    <3>1. /\ peerCapacity \in Nat
          /\ peerCapacity + Cardinality(Registered) = MaxPeers
          /\ Cardinality(Registered) \in Nat
      BY <1>2, FS_CardinalityType
         DEF CapacityInv, PlacesAdd, Registered, PeerInv, PeerTypeOK
    <3> QED
      BY ONLY <3>1, ConstantsAssumption DEF ConstantsAssumption
  <2>2. PeerTypeOK
    BY <1>2 DEF PeerInv
  <2>3. held \in [NodeIds -> Nat]
    BY ONLY <2>2, MaxHeldAssumption DEF PeerTypeOK, MaxHeldAssumption
  <2> QED
    BY ONLY <2>1, <2>2, <2>3 DEF PeerTypeOK, PeerKeys
<1>3. SessionInv => SessionTypeOK
  BY DEF SessionInv
<1>4. timersFull \in BOOLEAN /\ SessionInv /\ KnownPeersInv /\ PlacesInv => TypeOK
  BY ONLY <1>2, <1>3 DEF KnownPeersInv, PlacesInv, TypeOK, SessionTypeOK
<1> QED
  BY <1>b, <1>1, <1>4, PTL

=============================================================================
