------------------------------ MODULE PeerUse ------------------------------
(***************************************************************************)
(* PeerManager under the calls the program makes of it, each call atomic:  *)
(*                                                                         *)
(*   - a routing handler takes a reference with peer_id() for a node it    *)
(*     adds to a bucket, and the node's eviction returns it with           *)
(*     free_peer(); but a full bucket may leave the node out, a search     *)
(*     request takes one reference for all its nodes, when the table is    *)
(*     full nodes are added for the id 0, and the uint8_t Count may run    *)
(*     out: `strayed` tells that a node or a reference has gone uncounted, *)
(*     and the properties of the peers are about the time before;          *)
(*   - a session is opened by connect_peer() and closed by                 *)
(*     disconnect_peer(); then a timer is added that returns its id with   *)
(*     recycle_session() 20 seconds later, unless the timers are at their  *)
(*     limit: add_timer() then returns false, and its caller only logs it; *)
(*   - the application asks session_id(PeerId) for a peer it found in a    *)
(*     bucket, without a reference of its own, so the peer may be gone.    *)
(*                                                                         *)
(* SessionManager.tla drops the assumption that closing a session is one   *)
(* atomic step; here it is, and the tables must then be right.             *)
(***************************************************************************)
EXTENDS PeerManager, FiniteSets

CONSTANTS
    MaxHeld,   \* bound: a peer's nodes, and the references taken for them
    MaxKeys    \* the keys a search request may have
ASSUME MaxHeldAssumption == MaxHeld \in Nat
ASSUME MaxKeysAssumption == MaxKeys \in Nat

VARIABLES
    held,      \* held[p]: the nodes of the buckets that refer to the peer id p
    strayed,   \* history: a node has no reference, or a Count has run out
    closing,   \* session ids whose recycle timer is still to be added
    cooling,   \* session ids whose 20-second recycle timer is running
    timersFull \* whether m_TimerCount is MAX_TIMER_NUM; see Next

nodeVars == <<held, strayed>>
timerVars == <<closing, cooling>>
vars == <<pmVars, nodeVars, timerVars, timersFull>>

\* 0 is what peer_id() returns when the table is full.
NodeIds == PeerIds \cup {0}

Connected == {a \in Addrs : sessionIdMap[a] # 0}
Queued == {sessionIdQueue[i] : i \in DOMAIN sessionIdQueue}
InUse == {sessionIdMap[a] : a \in Connected}

Init ==
    /\ PeerManagerInit
    /\ held = [p \in NodeIds |-> 0]
    /\ strayed = FALSE
    /\ closing = {}
    /\ cooling = {}
    /\ timersFull = FALSE

\* The references to peer p at address a, but for that of its session.
NodeReferences(a, p) == peerMap[p].count - (IF a \in Connected THEN 1 ELSE 0)

\* One reference more, and Peer::Count, a uint8_t, has no room for the session.
CountRunsOut(a, p) == NodeReferences(a, p) >= CountMod - 2

\* A call of peer_id() for the peer at a, with the answer r, after which n
\* nodes more for r are in the buckets.  Bound: none after nodes have strayed,
\* when what is left to show is about session ids, which nodes do not touch.
ReferWithNodes(a, r, n) ==
    /\ ~strayed
    /\ r \in PeerIds => NodeReferences(a, r) < MaxHeld
    /\ r \in NodeIds => held[r] + n <= MaxHeld
    /\ PeerId(a, r)
    /\ held' = IF r \in NodeIds THEN [held EXCEPT ![r] = @ + n] ELSE held
    /\ strayed' = \/ n > (IF r > 0 THEN 1 ELSE 0)
                  \/ r > 0 /\ CountRunsOut(a, r)
    /\ UNCHANGED timerVars

\* A handler adds a node for the peer at a, and for the answer 0 as well.  The
\* node is left out when its bucket is full of nodes that are not worse.
AddNode(a) ==
    \E r \in PeerKeys, n \in {0, 1} :
        /\ r < 0 => n = 0
        /\ ReferWithNodes(a, r, n)

\* A search request from a: a node for each key that is not a content of the
\* partner table, all with the reference of one call of peer_id().
SearchReq(a) ==
    \E r \in PeerKeys, n \in 0..MaxKeys :
        /\ a \in Connected
        /\ r <= 0 => n = 0
        /\ ReferWithNodes(a, r, n)

\* A bucket evicts a node of peer p, whose status it has looked at before.
EvictNode(p) ==
    /\ held[p] > 0
    /\ FreePeer(p)
    /\ held' = [held EXCEPT ![p] = @ - 1]
    /\ UNCHANGED <<strayed, timerVars>>

Open(a) ==
    /\ \E r \in SessionIds \cup {ERROR_SESSION_ID} : ConnectPeer(a, r)
    /\ UNCHANGED <<nodeVars, timerVars>>

\* disconnect() and disconnect_in_timer() in two steps: unregister the session,
Close(a) ==
    /\ a \in Connected
    /\ DisconnectPeer(a)
    /\ closing' = closing \cup {sessionIdMap[a]}
    /\ UNCHANGED <<nodeVars, cooling>>

\* and then add its recycle timer.  When that is refused the id is nowhere.
StartTimer(s) ==
    /\ s \in closing
    /\ closing' = closing \ {s}
    /\ cooling' = IF timersFull THEN cooling ELSE cooling \cup {s}
    /\ UNCHANGED <<pmVars, nodeVars>>

Recycle(s) ==
    /\ s \in cooling
    /\ RecycleSession(s)
    /\ cooling' = cooling \ {s}
    /\ UNCHANGED <<nodeVars, closing>>

\* The id 0 can only come from a node that was added for it.
LookUp(p) ==
    /\ p = 0 => strayed
    /\ \E r \in SessionIds \cup {0} : SessionIdOfPeer(p, r)
    /\ UNCHANGED <<nodeVars, timerVars>>

Call ==
    \/ \E a \in Addrs : AddNode(a) \/ SearchReq(a) \/ Open(a) \/ Close(a)
    \/ \E p \in NodeIds : EvictNode(p) \/ LookUp(p)
    \/ \E s \in SessionIds : StartTimer(s) \/ Recycle(s)

\* The timers of all parts count, KCP's above all, which are never removed:
\* they may be at their limit, or no longer, at any time.
Next ==
    /\ Call \/ UNCHANGED <<pmVars, nodeVars, timerVars>>
    /\ timersFull' \in BOOLEAN

Spec == Init /\ [][Next]_vars

-----------------------------------------------------------------------------
(* The tables have the types of their declarations in peer_manager.h.      *)
TypeOK ==
    /\ ~strayed => peerCapacity \in 0..MaxPeers
    /\ ~strayed => peerIdMap \in [Addrs -> PeerKeys \cup {ABSENT}]
    /\ ~strayed => peerKeys \subseteq PeerKeys
    /\ ~strayed => peerMap \in [PeerKeys -> Peers]
    /\ ~strayed => held \in [NodeIds -> Nat]
    /\ sessionNum \in 0..SessionCapacity
    /\ sessionIdMap \in [Addrs -> SessionIds \cup {0}]
    /\ sessionIdQueue \in Seq(SessionIds)
    /\ closing \subseteq SessionIds
    /\ cooling \subseteq SessionIds
    /\ timersFull \in BOOLEAN

\* The ids of closed sessions that have not come back to the queue.
Resting == closing \cup cooling

\* No session id has two owners: no two addresses share one, and an id that
\* is registered is neither waiting for its recycle timer, nor cooling, nor in
\* the recycle queue, where it stands at most once.
SessionIdsExclusive ==
    /\ \A a, b \in Connected : sessionIdMap[a] = sessionIdMap[b] => a = b
    /\ \A i, j \in DOMAIN sessionIdQueue :
           sessionIdQueue[i] = sessionIdQueue[j] => i = j
    /\ InUse \cap Queued = {}
    /\ InUse \cap Resting = {}
    /\ Queued \cap Resting = {}
    /\ closing \cap cooling = {}

\* Peer::Count covers the users of the peer: the nodes that refer to it, and
\* its session when it has one.
RefCountCovers ==
    ~strayed => \A a \in Addrs :
        LET p == peerIdMap[a] IN
        p # ABSENT =>
            peerMap[p].count >= held[p] + (IF a \in Connected THEN 1 ELSE 0)

\* A peer in use is never erased: a node or a session that refers to it still
\* finds its record, and the record its address.
NoPrematureErase ==
    ~strayed =>
        /\ \A p \in PeerIds : held[p] > 0 =>
               /\ p \in peerKeys
               /\ peerMap[p].addr \in Addrs
               /\ peerIdMap[peerMap[p].addr] = p
        /\ \A a \in Connected : peerIdMap[a] \in peerKeys

\* A peer is GOOD exactly while its session is registered, although the two
\* facts live in two tables.
GoodIffConnected ==
    ~strayed => \A p \in peerKeys :
        peerMap[p].status = GOOD <=>
            \E a \in Connected : peerIdMap[a] = p

\* The places given out and the places left add up to the capacity.
CapacityConserved ==
    ~strayed =>
        peerCapacity + Cardinality({a \in Addrs : peerIdMap[a] # ABSENT}) = MaxPeers

\* The issued ids that no table and no timer knows any more.
LostIds == (1..sessionNum) \ (InUse \cup Queued \cup Resting)

\* An id that was issued is lost in two situations only: connect_peer() draws
\* it for a new address when the peer table is full, or its session is closed
\* and the timers are at their limit, so that add_timer() refuses the recycle
\* timer.  Whatever else the callers do, the id comes back to the queue.
IdLostOnlyWhenFull ==
    LostIds' # LostIds =>
        \/ peerCapacity = 0 /\ UNCHANGED <<sessionIdMap, timerVars>>
        \/ timersFull /\ closing' # closing /\ UNCHANGED pmVars

IdsLostOnlyWhenFull == [][IdLostOnlyWhenFull]_vars

\* A registered session keeps its id until it is closed, and the id of a
\* closed session goes to another address only after its cooling period.
IdFollowsItsCycle(a) ==
    sessionIdMap'[a] # sessionIdMap[a] =>
        \/ sessionIdMap[a] = 0 /\ sessionIdMap'[a] \notin InUse \cup Resting
        \/ sessionIdMap'[a] = 0 /\ sessionIdMap[a] \in closing'

NoIdReuseBeforeRecycle == [][\A a \in Addrs : IdFollowsItsCycle(a)]_vars

-----------------------------------------------------------------------------
(* The inductive invariant behind the theorems of PeerUseProofs, in two      *)
(* halves: the sessions, whose tables the peers never touch, and the peers.  *)

SessionTypeOK ==
    /\ sessionNum \in 0..SessionCapacity
    /\ sessionIdMap \in [Addrs -> SessionIds \cup {0}]
    /\ sessionIdQueue \in Seq(SessionIds)
    /\ closing \subseteq SessionIds
    /\ cooling \subseteq SessionIds

\* SessionIdsExclusive with its sets written out, and only ids that
\* _session_id() has counted out are anywhere.
SessionInv ==
    /\ SessionTypeOK
    /\ \A a, b \in Addrs :
           sessionIdMap[a] # 0 /\ sessionIdMap[a] = sessionIdMap[b] => a = b
    /\ \A i, j \in DOMAIN sessionIdQueue :
           sessionIdQueue[i] = sessionIdQueue[j] => i = j
    /\ \A a \in Addrs : sessionIdMap[a] # 0 =>
           /\ sessionIdMap[a] <= sessionNum
           /\ sessionIdMap[a] \notin Resting
           /\ \A i \in DOMAIN sessionIdQueue : sessionIdQueue[i] # sessionIdMap[a]
    /\ \A i \in DOMAIN sessionIdQueue :
           /\ sessionIdQueue[i] <= sessionNum
           /\ sessionIdQueue[i] \notin Resting
    /\ \A s \in Resting : s <= sessionNum
    /\ closing \cap cooling = {}

PeerTypeOK ==
    /\ peerCapacity \in Nat
    /\ peerIdMap \in [Addrs -> PeerIds \cup {ABSENT}]
    /\ peerKeys \subseteq PeerIds
    /\ peerMap \in [PeerKeys -> Peers]
    /\ held \in [NodeIds -> 0..MaxHeld]
    /\ held[0] = 0

\* m_PeerIdMap and m_PeerMap are inverse to each other, but for phantoms.
RecordsMatch ==
    /\ \A a \in Addrs : peerIdMap[a] # ABSENT =>
           /\ peerIdMap[a] \in peerKeys
           /\ peerMap[peerIdMap[a]].addr = a
    /\ \A p \in peerKeys : peerMap[p].addr \in Addrs =>
           peerIdMap[peerMap[p].addr] = p

\* A key without an address, and an id that is no key, holds the default
\* record and has no users.
PhantomsAreEmpty ==
    \A p \in PeerKeys : (p \in peerKeys => peerMap[p].addr \notin Addrs) =>
        /\ peerMap[p] = DefaultPeer
        /\ p \in PeerIds => held[p] = 0

\* The users of a registered peer are counted, there is one at least, and
\* the peer is GOOD when the session is one of them.  References that are kept
\* for no node count as well.  A peer without a session has room for one more;
\* the id 0, should rand() return it, is never counted.
UsersCounted ==
    \A a \in Addrs :
        LET p == peerIdMap[a]
            s == IF a \in Connected THEN 1 ELSE 0
        IN  /\ p = ABSENT => s = 0
            /\ p # ABSENT =>
                 /\ peerMap[p].count \in (held[p] + s)..(CountMod - 1)
                 /\ p > 0 /\ s = 0 => peerMap[p].count # CountMod - 1
                 /\ peerMap[p].count > 0
                 /\ peerMap[p].status = GOOD <=> a \in Connected

PeerInv == PeerTypeOK /\ RecordsMatch /\ PhantomsAreEmpty /\ UsersCounted

IInv == SessionInv /\ (~strayed => PeerInv) /\ CapacityConserved

=============================================================================
