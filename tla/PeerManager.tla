---------------------------- MODULE PeerManager ----------------------------
(***************************************************************************)
(* The class peer::PeerManager (module_peer/peer_manager.cpp): the table   *)
(* of known peers with their reference counts, and the table of session    *)
(* ids with its queue of recycled ids.                                     *)
(*                                                                         *)
(* Every public method runs under m_PeerManagerMutex from its first to its *)
(* last line, so each is one atomic operator here.  An operator that       *)
(* returns a value takes it as its last argument r: Op(x, r) holds of a    *)
(* step in which a call Op(x) returns r.  The module has no next-state     *)
(* relation: who calls what, and when, belongs to the modules that use it. *)
(*                                                                         *)
(* The operators named Slip... are plausible coding slips in the operator  *)
(* that follows them, kept to show which property each would break; no     *)
(* specification uses them.                                                *)
(***************************************************************************)
EXTENDS Integers, Sequences

CONSTANTS
    Addrs,            \* the peer addresses (sockaddr_in6) of the model
    NoAddr,           \* the address of a default-constructed Peer
    PeerIds,          \* the values rand() may return
    MaxPeers,         \* the argument PeerCapacity of init()
    SessionCapacity,  \* m_SessionCapacity
    CountMod          \* Peer::Count is a uint8_t: 256 in the code

ASSUME ConstantsAssumption ==
    /\ NoAddr \notin Addrs
    /\ PeerIds \subseteq Nat
    /\ MaxPeers \in Nat
    /\ SessionCapacity \in 0..65534
    /\ CountMod \in Nat \ {0, 1}

VARIABLES
    peerCapacity,     \* m_PeerCapacity, the number of peers that still fit
    peerIdMap,        \* m_PeerIdMap; ABSENT where it has no entry
    peerKeys,         \* the keys of m_PeerMap
    peerMap,          \* the values of m_PeerMap; DefaultPeer off its keys
    sessionNum,       \* m_SessionNum
    sessionIdMap,     \* m_SessionIdMap; 0 where it has no entry
    sessionIdQueue    \* m_SessionIdQueue

peerVars == <<peerCapacity, peerIdMap, peerKeys, peerMap>>
sessionIdVars == <<sessionNum, sessionIdMap, sessionIdQueue>>
pmVars == <<peerVars, sessionIdVars>>

ABSENT == -2
BANNED == -1
ERROR_SESSION_ID == 65535

GOOD == 0
QUESTIONABLE == 1
BAD == 2

\* init() caps SessionCapacity at 65534, so that no id is ERROR_SESSION_ID.
SessionIds == 1..SessionCapacity
\* Every int32_t m_PeerMap may be asked for, 0 and -1 included: operator[] of
\* an unordered_map creates the entry it does not find.
PeerKeys == PeerIds \cup {0, BANNED}

Peers == [addr : Addrs \cup {NoAddr}, count : 0..(CountMod - 1),
          status : {GOOD, QUESTIONABLE, BAD}]
DefaultPeer == [addr |-> NoAddr, count |-> 0, status |-> BAD]
NewPeer(a) == [addr |-> a, count |-> 1, status |-> QUESTIONABLE]

\* ++Count and --Count on a uint8_t.
Inc(c) == IF c = CountMod - 1 THEN 0 ELSE c + 1
Dec(c) == IF c = 0 THEN CountMod - 1 ELSE c - 1

PeerManagerInit ==
    /\ peerCapacity = MaxPeers
    /\ peerIdMap = [a \in Addrs |-> ABSENT]
    /\ peerKeys = {}
    /\ peerMap = [p \in PeerKeys |-> DefaultPeer]
    /\ sessionNum = 0
    /\ sessionIdMap = [a \in Addrs |-> 0]
    /\ sessionIdQueue = <<>>

-----------------------------------------------------------------------------
(* The peers. *)

\* Slip: the test of m_PeerCapacity is gone.
SlipCreateUnchecked(a, p, status) ==
    /\ p \in PeerIds \ peerKeys
    /\ peerCapacity' = peerCapacity - 1
    /\ peerIdMap' = [peerIdMap EXCEPT ![a] = p]
    /\ peerKeys' = peerKeys \cup {p}
    /\ peerMap' = [peerMap EXCEPT ![p] = [NewPeer(a) EXCEPT !.status = status]]

\* A record for address a under the unused id p, with the given status.
CreatePeer(a, p, status) ==
    /\ peerCapacity # 0
    /\ p \in PeerIds \ peerKeys
    /\ peerCapacity' = peerCapacity - 1
    /\ peerIdMap' = [peerIdMap EXCEPT ![a] = p]
    /\ peerKeys' = peerKeys \cup {p}
    /\ peerMap' = [peerMap EXCEPT ![p] = [NewPeer(a) EXCEPT !.status = status]]

\* Slip: the place of an erased record is not given back.
SlipEraseKeepsPlace(a, p) ==
    /\ peerIdMap' = [b \in Addrs |-> IF b = a THEN ABSENT ELSE peerIdMap[b]]
    /\ peerKeys' = peerKeys \ {p}
    /\ peerMap' = [peerMap EXCEPT ![p] = DefaultPeer]
    /\ UNCHANGED peerCapacity

\* Erase the record p of address a and give its place back.  A record without
\* an address (a phantom, see SessionIdOfPeer) has no entry of m_PeerIdMap.
ErasePeer(a, p) ==
    /\ peerIdMap' = [b \in Addrs |-> IF b = a THEN ABSENT ELSE peerIdMap[b]]
    /\ peerKeys' = peerKeys \ {p}
    /\ peerMap' = [peerMap EXCEPT ![p] = DefaultPeer]
    /\ peerCapacity' = peerCapacity + 1

\* int32_t peer_id(PeerAddr)
PeerId(a, r) ==
    /\ UNCHANGED sessionIdVars
    /\ \/ /\ peerIdMap[a] = ABSENT
          /\ peerCapacity = 0
          /\ r = 0
          /\ UNCHANGED peerVars
       \/ /\ peerIdMap[a] = ABSENT
          /\ CreatePeer(a, r, QUESTIONABLE)
       \/ /\ peerIdMap[a] # ABSENT
          /\ r = peerIdMap[a]
          /\ r > 0
          /\ peerKeys' = peerKeys \cup {r}
          /\ peerMap' = [peerMap EXCEPT ![r].count = Inc(@)]
          /\ UNCHANGED <<peerCapacity, peerIdMap>>
       \/ /\ peerIdMap[a] # ABSENT
          /\ r = peerIdMap[a]
          /\ r <= 0
          /\ UNCHANGED peerVars

\* void free_peer(PeerId), which the list variant calls once per element.
FreePeer(p) ==
    /\ UNCHANGED sessionIdVars
    /\ \/ /\ p \notin peerKeys
          /\ UNCHANGED peerVars
       \/ /\ p \in peerKeys
          /\ Dec(peerMap[p].count) # 0
          /\ peerMap' = [peerMap EXCEPT ![p].count = Dec(@)]
          /\ UNCHANGED <<peerCapacity, peerIdMap, peerKeys>>
       \/ /\ p \in peerKeys
          /\ Dec(peerMap[p].count) = 0
          /\ ErasePeer(peerMap[p].addr, p)

-----------------------------------------------------------------------------
(* The sessions. *)

\* uint16_t session_id(PeerAddr): a read.
SessionIdOf(a) == sessionIdMap[a]

\* uint16_t session_id(PeerId): m_PeerMap[PeerId] leaves a default record
\* behind, a phantom, when there is no record of PeerId.
SessionIdOfPeer(p, r) ==
    /\ peerKeys' = peerKeys \cup {p}
    /\ r = IF peerMap[p].status = GOOD /\ peerMap[p].addr \in Addrs
             THEN SessionIdOf(peerMap[p].addr)
             ELSE 0
    /\ UNCHANGED <<peerCapacity, peerIdMap, peerMap, sessionIdVars>>

\* Slip: front() without pop_front().
SlipNextKeepsHead(s) ==
    \/ /\ sessionIdQueue # <<>>
       /\ s = Head(sessionIdQueue)
       /\ UNCHANGED <<sessionNum, sessionIdQueue>>
    \/ /\ sessionIdQueue = <<>>
       /\ sessionNum # SessionCapacity
       /\ s = sessionNum + 1
       /\ sessionNum' = s
       /\ UNCHANGED sessionIdQueue

\* uint16_t _session_id(): a recycled id first, then one never used, and
\* ERROR_SESSION_ID when there is neither.
NextSessionId(s) ==
    \/ /\ sessionIdQueue # <<>>
       /\ s = Head(sessionIdQueue)
       /\ sessionIdQueue' = Tail(sessionIdQueue)
       /\ UNCHANGED sessionNum
    \/ /\ sessionIdQueue = <<>>
       /\ sessionNum # SessionCapacity
       /\ s = sessionNum + 1
       /\ sessionNum' = s
       /\ UNCHANGED sessionIdQueue
    \/ /\ sessionIdQueue = <<>>
       /\ sessionNum = SessionCapacity
       /\ s = ERROR_SESSION_ID
       /\ UNCHANGED <<sessionNum, sessionIdQueue>>

\* Slip: a session on a known peer does not count as a reference to it.
SlipReferUncounted(a) ==
    \/ /\ peerIdMap[a] = ABSENT
       /\ \E p \in PeerIds : CreatePeer(a, p, GOOD)
    \/ /\ peerIdMap[a] # ABSENT
       /\ peerMap' = [peerMap EXCEPT ![peerIdMap[a]].status = GOOD]
       /\ UNCHANGED <<peerCapacity, peerIdMap, peerKeys>>

\* The session s takes a reference to the peer of address a, which is GOOD
\* from then on.  A banned or zero id is not counted, but its record of
\* m_PeerMap is created by operator[].
ReferToGoodPeer(a) ==
    \/ /\ peerIdMap[a] = ABSENT
       /\ \E p \in PeerIds : CreatePeer(a, p, GOOD)
    \/ /\ peerIdMap[a] # ABSENT
       /\ LET p == peerIdMap[a]
          IN  /\ peerKeys' = peerKeys \cup {p}
              /\ peerMap' = [peerMap EXCEPT
                               ![p].count = IF p > 0 THEN Inc(@) ELSE @,
                               ![p].status = GOOD]
       /\ UNCHANGED <<peerCapacity, peerIdMap>>

\* Slip: the look-up in m_SessionIdMap is gone, so a second call gives a new id.
SlipConnectAnew(a, r) ==
    /\ r \in SessionIds
    /\ NextSessionId(r)
    /\ IF sessionIdMap[a] = 0 THEN ReferToGoodPeer(a) ELSE UNCHANGED peerVars
    /\ sessionIdMap' = [sessionIdMap EXCEPT ![a] = r]

\* uint16_t connect_peer(PeerAddr).  In the last case the id just drawn from
\* _session_id() is neither registered nor given back: it is lost.
ConnectPeer(a, r) ==
    \/ /\ sessionIdMap[a] # 0
       /\ r = sessionIdMap[a]
       /\ UNCHANGED pmVars
    \/ /\ sessionIdMap[a] = 0
       /\ NextSessionId(ERROR_SESSION_ID)
       /\ r = ERROR_SESSION_ID
       /\ UNCHANGED <<peerVars, sessionIdMap>>
    \/ /\ sessionIdMap[a] = 0
       /\ r \in SessionIds
       /\ NextSessionId(r)
       /\ ReferToGoodPeer(a)
       /\ sessionIdMap' = [sessionIdMap EXCEPT ![a] = r]
    \/ /\ sessionIdMap[a] = 0
       /\ \E s \in SessionIds : NextSessionId(s)
       /\ peerIdMap[a] = ABSENT
       /\ peerCapacity = 0
       /\ r = ERROR_SESSION_ID
       /\ UNCHANGED <<peerVars, sessionIdMap>>

\* Slip: closing the session erases the peer whatever its count.
SlipDisconnectErases(a) ==
    /\ sessionIdMap' = [sessionIdMap EXCEPT ![a] = 0]
    /\ UNCHANGED <<sessionNum, sessionIdQueue>>
    /\ sessionIdMap[a] # 0 /\ ErasePeer(a, peerIdMap[a])

\* Slip: a peer that loses its session but not its last user stays GOOD.
SlipDisconnectKeepsGood(a) ==
    LET p == peerIdMap[a] IN
    /\ sessionIdMap' = [sessionIdMap EXCEPT ![a] = 0]
    /\ UNCHANGED <<sessionNum, sessionIdQueue>>
    /\ sessionIdMap[a] # 0
    /\ \/ /\ Dec(peerMap[p].count) = 0
          /\ ErasePeer(a, p)
       \/ /\ Dec(peerMap[p].count) # 0
          /\ peerMap' = [peerMap EXCEPT ![p].count = Dec(@)]
          /\ UNCHANGED <<peerCapacity, peerIdMap, peerKeys>>

\* void disconnect_peer(PeerAddr); m_PeerIdMap[PeerAddr] creates an entry 0
\* when the address has none.
DisconnectPeer(a) ==
    LET p == IF peerIdMap[a] = ABSENT THEN 0 ELSE peerIdMap[a] IN
    /\ sessionIdMap' = [sessionIdMap EXCEPT ![a] = 0]
    /\ UNCHANGED <<sessionNum, sessionIdQueue>>
    /\ \/ /\ sessionIdMap[a] = 0
          /\ UNCHANGED peerVars
       \/ /\ sessionIdMap[a] # 0
          /\ p \notin peerKeys
          /\ peerIdMap' = [peerIdMap EXCEPT ![a] = p]
          /\ UNCHANGED <<peerCapacity, peerKeys, peerMap>>
       \/ /\ sessionIdMap[a] # 0
          /\ p \in peerKeys
          /\ Dec(peerMap[p].count) = 0
          /\ ErasePeer(a, p)
       \/ /\ sessionIdMap[a] # 0
          /\ p \in peerKeys
          /\ Dec(peerMap[p].count) # 0
          /\ peerIdMap' = [peerIdMap EXCEPT ![a] = p]
          /\ peerMap' = [peerMap EXCEPT ![p].count = Dec(@),
                                        ![p].status = QUESTIONABLE]
          /\ UNCHANGED <<peerCapacity, peerKeys>>

\* Slip: the recycled id replaces the queue instead of joining it.
SlipRecycleAssigns(s) ==
    /\ sessionIdQueue' = <<s>>
    /\ UNCHANGED <<peerVars, sessionNum, sessionIdMap>>

\* void recycle_session(SessionId)
RecycleSession(s) ==
    /\ sessionIdQueue' = Append(sessionIdQueue, s)
    /\ UNCHANGED <<peerVars, sessionNum, sessionIdMap>>

=============================================================================
