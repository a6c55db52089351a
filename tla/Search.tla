------------------------------- MODULE Search -------------------------------
(***************************************************************************)
(* How nodes that are interested in the same content find each other: the  *)
(* routing protocol of module_handler/handler_routing.cpp, the search      *)
(* thread of app_ctrl.cpp, the partner tables (module_peer/                *)
(* partner_table.cpp) and the routing tables, over connections that open   *)
(* and close.                                                              *)
(*                                                                         *)
(* A peer that has connected tells the other side its own key and up to    *)
(* three contents it is interested in.  The other side, when it shares an  *)
(* interest, takes the asker for a partner and names the partners it has;  *)
(* otherwise it remembers the asker in its routing table and names the     *)
(* nodes near the key.  A tracker has no partner table.                    *)
(*                                                                         *)
(* The messages of a session are handled in the order of its stream, each  *)
(* key or address of a message in a step of its own.  Connecting is two    *)
(* steps here (Handshake has the protocol), closing one (SessionManager    *)
(* takes it apart), and every peer a routing table mentions is known       *)
(* (PeerUse counts the references).                                        *)
(***************************************************************************)
EXTENDS RoutingTable, Functions

CONSTANTS
    Peers,            \* the nodes with a partner table: the Windows build
    Tracker,          \* the node without one: TRACKER_MODE
    NoNode,
    Contents,         \* the CIDs
    Pid,              \* the key each node has drawn in RoutingTable::init()
    Loaded,           \* m_CIDList of each peer once init_file() is through
    CidsPerMessage,   \* 3 in the code
    SessionCapacity,  \* the session ids of a node
    MaxCloses         \* bound: sessions that end

Nodes == Peers \cup {Tracker}
SessionIds == 1..SessionCapacity

ASSUME SearchAssumption ==
    /\ Tracker \notin Peers
    /\ NoNode \notin Nodes
    /\ Contents \subseteq Keys
    /\ Pid \in [Nodes -> Keys]
    /\ Loaded \in [Peers -> Seq(Contents)]
    /\ \A n \in Peers : IsInjective(Loaded[n])   \* add_cid takes each once
    /\ {CidsPerMessage, SessionCapacity} \subseteq Nat \ {0}
    /\ MaxCloses \in Nat

VARIABLES
    session,      \* the sessions of each node, by id
    sessionNum,   \* m_SessionNum: the ids each node has ever given out
    idQueue,      \* m_SessionIdQueue: the recycled ids
    cooling,      \* closed sessions whose recycle timer is running
    joined,       \* the peers that have called connect_tracker()
    early,        \* history: what each was interested in when it did
    toRegister,   \* m_PrepareToRegister
    partners,     \* m_PartnerMap: the session ids of each content's partners
    cidList,      \* m_CIDList
    table,        \* the routing table of each node
    stream,       \* stream[n][m]: the messages on the way from n to m
    closes        \* the sessions that have ended

idVars == <<sessionNum, idQueue, cooling>>
linkVars == <<session, idVars, joined, early, closes>>
vars == <<linkVars, toRegister, partners, cidList, table, stream>>

\* up: STATUS_CONNECT_COMPLETE; cid: the content the timer that connects will
\* search for when it finds the session up, and NoNode when there is none.
NoSession == [peer |-> NoNode, up |-> FALSE, cid |-> NoNode]

\* g_pPeerManager->session_id() of a node's address; 0 when it has no session.
SessionOf(n, m) ==
    IF \E s \in SessionIds : session[n][s].peer = m
    THEN CHOOSE s \in SessionIds : session[n][s].peer = m
    ELSE 0

\* A peer with a session is GOOD (PeerUse!GoodIffConnected).
Status(n) == [m \in Nodes |-> IF SessionOf(n, m) # 0 THEN GOOD ELSE QUESTIONABLE]

Interested(n) == DOMAIN partners[n]

Listed(list) == {list[i] : i \in DOMAIN list}

Init ==
    /\ session = [n \in Nodes |-> [s \in SessionIds |-> NoSession]]
    /\ sessionNum = [n \in Nodes |-> 0]
    /\ idQueue = [n \in Nodes |-> <<>>]
    /\ cooling = [n \in Nodes |-> {}]
    /\ joined = {}
    /\ early = [n \in Peers |-> {}]
    /\ toRegister = [n \in Peers |-> <<>>]
    /\ partners = [n \in Peers |-> [x \in Listed(Loaded[n]) |-> {}]]
    /\ cidList = Loaded
    /\ table = [n \in Nodes |-> EmptyTable]
    /\ stream = [n \in Nodes |-> [m \in Nodes |-> <<>>]]
    /\ closes = 0

-----------------------------------------------------------------------------
(* Messages.  keys and peers are what the handler has still to go through.   *)

Message(type, keys, peers) == [type |-> type, keys |-> keys, peers |-> peers]

\* Streams to which n has appended what it sends to m, which is lost when m
\* has no session to take it with.
Sent(streams, n, m, messages) ==
    IF SessionOf(m, n) = 0 THEN streams
    ELSE [streams EXCEPT ![n][m] = @ \o messages]

Arrived(n, m, type) == stream[m][n] # <<>> /\ Head(stream[m][n]).type = type

\* The first message from m to n is handled, or what is left of it stays.
Handled(n, m) == [stream EXCEPT ![m][n] = Tail(@)]
LeftOver(n, m, rest) == [stream EXCEPT ![m][n] = <<rest>> \o Tail(@)]

-----------------------------------------------------------------------------
(* Sessions. *)

\* Slip: one id more than there are.
SlipNextId(n) ==
    IF idQueue[n] # <<>> THEN Head(idQueue[n])
    ELSE IF sessionNum[n] <= SessionCapacity THEN sessionNum[n] + 1
    ELSE 0

\* PeerManager!NextSessionId; 0 when there is none left.
NextId(n) ==
    IF idQueue[n] # <<>> THEN Head(idQueue[n])
    ELSE IF sessionNum[n] < SessionCapacity THEN sessionNum[n] + 1
    ELSE 0

\* n opens a session with m; nothing happens when it has no id left.
OpenSession(n, m, up, cid) ==
    LET s == NextId(n) IN
    /\ session' = IF s = 0 THEN session
                  ELSE [session EXCEPT ![n][s] = [peer |-> m, up |-> up, cid |-> cid]]
    /\ idQueue' = IF s = 0 \/ idQueue[n] = <<>> THEN idQueue
                  ELSE [idQueue EXCEPT ![n] = Tail(@)]
    /\ sessionNum' = IF s = 0 \/ idQueue[n] # <<>> THEN sessionNum
                     ELSE [sessionNum EXCEPT ![n] = s]
    /\ UNCHANGED <<cooling, closes>>

\* connect_tracker() and connect_peer(): the session there is, or a new one.
Approach(n, m, x) ==
    IF SessionOf(n, m) = 0
    THEN OpenSession(n, m, FALSE, x)
    ELSE UNCHANGED <<session, idVars, closes>>

\* AppCtrl::start() calls connect_tracker().
Join(n) ==
    /\ n \in Peers \ joined
    /\ joined' = joined \cup {n}
    /\ early' = [early EXCEPT ![n] = Interested(n)]
    /\ Approach(n, Tracker, NoNode)
    /\ UNCHANGED <<toRegister, partners, cidList, table, stream>>

\* m takes n's CONNECT_REQ: on_accept().
Accept(m, n) ==
    /\ \E s \in SessionIds : session[n][s].peer = m /\ ~session[n][s].up
    /\ SessionOf(m, n) = 0
    /\ OpenSession(m, n, TRUE, NoNode)
    /\ UNCHANGED <<joined, early, toRegister, partners, cidList, table, stream>>

\* n gets the CONNECT_ACK: handle_connect_ack() and register_push().
Connected(n, s) ==
    /\ session[n][s].peer # NoNode
    /\ ~session[n][s].up
    /\ SessionOf(session[n][s].peer, n) # 0
    /\ session' = [session EXCEPT ![n][s].up = TRUE]
    /\ toRegister' = [toRegister EXCEPT ![n] = Append(@, s)]
    /\ UNCHANGED <<idVars, joined, early, closes, partners, cidList, table, stream>>

\* A session ends, at one side, and with it what is on the way.
Close(n, s) ==
    LET m == session[n][s].peer IN
    /\ m # NoNode
    /\ closes < MaxCloses
    /\ closes' = closes + 1
    /\ session' = [session EXCEPT ![n][s] = NoSession]
    /\ cooling' = [cooling EXCEPT ![n] = @ \cup {s}]
    /\ stream' = [stream EXCEPT ![n][m] = <<>>, ![m][n] = <<>>]
    /\ UNCHANGED <<sessionNum, idQueue, joined, early, toRegister, partners, cidList, table>>

Recycle(n, s) ==
    /\ s \in cooling[n]
    /\ cooling' = [cooling EXCEPT ![n] = @ \ {s}]
    /\ idQueue' = [idQueue EXCEPT ![n] = Append(@, s)]
    /\ UNCHANGED <<session, sessionNum, joined, early, closes, toRegister, partners, cidList, table, stream>>

-----------------------------------------------------------------------------
(* The partner table.  PartnerContent is left out: only delete_partner and   *)
(* delete_cid read it, and nobody calls them.                                *)

\* add_cid
AddCid(n, x) ==
    /\ partners' = [partners EXCEPT ![n] =
           [y \in DOMAIN @ \cup {x} |-> IF y = x THEN {} ELSE partners[n][y]]]
    /\ cidList' = [cidList EXCEPT ![n] = <<x>> \o @]

\* add_partner, for the sessions ids.
AddPartners(n, x, ids) == partners' = [partners EXCEPT ![n][x] = @ \cup ids]

\* get_cid, called CidsPerMessage times: what it returned and the list after.
\* (The order of an unordered_set is taken to be that of the list.)
Rotated(list, i) == list[((i + CidsPerMessage - 1) % Len(list)) + 1]
AtMost(i, j) == IF i < j THEN i ELSE j

\* Slip: nothing is announced until there is enough for a message.
SlipNextCids(n) ==
    SubSeq(cidList[n], 1, IF Len(cidList[n]) < CidsPerMessage THEN 0 ELSE CidsPerMessage)

NextCids(n) == SubSeq(cidList[n], 1, AtMost(Len(cidList[n]), CidsPerMessage))
TurnCids(n) ==
    cidList' = [cidList EXCEPT ![n] = [i \in DOMAIN @ |-> Rotated(@, i)]]

-----------------------------------------------------------------------------
(* Searching. *)

\* thread_loop_search: a session that has just connected.
SearchLoop(n) ==
    LET s == Head(toRegister[n])
        m == session[n][s].peer
    IN  /\ toRegister[n] # <<>>
        /\ toRegister' = [toRegister EXCEPT ![n] = Tail(@)]
        /\ IF m = NoNode
             THEN UNCHANGED <<cidList, stream>>
             ELSE /\ TurnCids(n)
                  /\ stream' = Sent(stream, n, m,
                         <<Message("REGISTER_REQ", <<Pid[n]>>, {}),
                           Message("SEARCH_REQ", NextCids(n), {})>>)
        /\ UNCHANGED <<linkVars, partners, table>>

\* try_connect_peer and try_connect_peer_relay end with a search, by send(),
\* which may be lost.
SearchAtLast(n, s) ==
    LET m == session[n][s].peer
        x == session[n][s].cid
    IN  /\ session[n][s].up
        /\ x # NoNode
        /\ session' = [session EXCEPT ![n][s].cid = NoNode]
        /\ \/ stream' = Sent(stream, n, m, <<Message("SEARCH_REQ", <<x>>, {})>>)
           \/ UNCHANGED stream
        /\ UNCHANGED <<idVars, joined, early, closes, toRegister, partners, cidList, table>>

\* try_add_download_file and thread_add_share_file: ask the connected ones of
\* the nodes that the own routing table finds.
AddContent(n, x) ==
    LET found == GetNode(table[n], Pid[n], x, NoNode, Status(n))
        asked == {m \in found : SessionOf(n, m) # 0 /\ SessionOf(m, n) # 0}
    IN  /\ n \in Peers
        /\ x \notin Interested(n)
        /\ AddCid(n, x)
        /\ stream' = [stream EXCEPT ![n] = [m \in Nodes |->
               IF m \in asked THEN Append(@[m], Message("SEARCH_REQ", <<x>>, {})) ELSE @[m]]]
        /\ UNCHANGED <<linkVars, toRegister, table>>

-----------------------------------------------------------------------------
(* The handlers of n for a message from m.                                   *)

Remember(n, key, m) == [table EXCEPT ![n] =
    AddNode(@, Pid[n], [key |-> key, peer |-> m], Status(n))]

\* handle_routing_search_req, one key: a shared interest.
SearchHit(n, m, x, rest) ==
    LET s == SessionOf(n, m)
        named == {session[n][p].peer : p \in (SessionIds \cap partners[n][x]) \ {s}} \ {NoNode}
        answer == <<Message("PARTNER", <<x>>, named)>>
    IN  /\ n \in Peers
        /\ x \in Interested(n)
        /\ AddPartners(n, x, {s})
        /\ stream' = IF named = {} /\ partners[n][x] # {} THEN rest
                     ELSE Sent(rest, n, m, answer)
        /\ UNCHANGED table

\* One key without a hit.
SearchMiss(n, m, x, rest) ==
    LET after == Remember(n, x, m)
        found == GetNode(after[n], Pid[n], x, m, Status(n))
    IN  /\ n \in Peers => x \notin Interested(n)
        /\ table' = after
        /\ stream' = IF found = {} THEN rest
                     ELSE Sent(rest, n, m, <<Message("SEARCH_ACK", <<x>>, found)>>)
        /\ UNCHANGED partners

HandleSearchReq(n, m) ==
    LET msg == Head(stream[m][n]) IN
    /\ Arrived(n, m, "SEARCH_REQ")
    /\ \/ LET x == Head(msg.keys)
              rest == LeftOver(n, m, [msg EXCEPT !.keys = Tail(@)])
          IN  /\ msg.keys # <<>>
              /\ SearchHit(n, m, x, rest) \/ SearchMiss(n, m, x, rest)
              /\ UNCHANGED cidList
       \/ /\ msg.keys = <<>>
          /\ IF n = Tracker
               THEN stream' = Handled(n, m) /\ UNCHANGED cidList
               ELSE /\ TurnCids(n)
                    /\ stream' = Sent(Handled(n, m), n, m,
                                      <<Message("REGISTER_ACK", NextCids(n), {})>>)
          /\ UNCHANGED <<partners, table>>
    /\ UNCHANGED <<linkVars, toRegister>>

HandleRegisterReq(n, m) ==
    /\ Arrived(n, m, "REGISTER_REQ")
    /\ table' = Remember(n, Head(Head(stream[m][n]).keys), m)
    /\ stream' = Sent(Handled(n, m), n, m, <<Message("REGISTER_ACK", <<Pid[n]>>, {})>>)
    /\ UNCHANGED <<linkVars, toRegister, partners, cidList>>

\* The first key is taken for the sender's own, also when it is a content;
\* when there is none, whatever follows in the receive buffer is.
HandleRegisterAck(n, m) ==
    LET keys == Head(stream[m][n]).keys IN
    /\ Arrived(n, m, "REGISTER_ACK")
    /\ \E key \in IF keys = <<>> THEN Keys ELSE {Head(keys)} : table' = Remember(n, key, m)
    /\ stream' = Handled(n, m)
    /\ UNCHANGED <<linkVars, toRegister, partners, cidList>>

\* handle_routing_search_ack, one node of those named, to be connected without
\* a relay.
HandleSearchAck(n, m) ==
    LET msg == Head(stream[m][n])
        x == Head(msg.keys)
    IN  /\ Arrived(n, m, "SEARCH_ACK")
        /\ \E p \in msg.peers :
             /\ stream' = IF msg.peers = {p} THEN Handled(n, m)
                          ELSE LeftOver(n, m, [msg EXCEPT !.peers = @ \ {p}])
             /\ IF x \in Interested(n)
                  THEN /\ AddPartners(n, x, {SessionOf(n, p)} \ {0})
                       /\ UNCHANGED table
                  ELSE table' = Remember(n, x, p) /\ UNCHANGED partners
             /\ Approach(n, p, x)
        /\ UNCHANGED <<joined, early, toRegister, cidList>>

\* handle_routing_partner: the sender is a partner, and those it names.
HandlePartner(n, m) ==
    LET msg == Head(stream[m][n])
        x == Head(msg.keys)
    IN  /\ Arrived(n, m, "PARTNER")
        /\ IF x \notin Interested(n) \/ msg.peers = {}
             THEN /\ stream' = Handled(n, m)
                  /\ IF x \in Interested(n)
                       THEN AddPartners(n, x, {SessionOf(n, m)})
                       ELSE UNCHANGED partners
                  /\ UNCHANGED <<session, idVars, closes>>
             ELSE \E p \in msg.peers :
                  /\ stream' = IF msg.peers = {p} THEN Handled(n, m)
                               ELSE LeftOver(n, m, [msg EXCEPT !.peers = @ \ {p}])
                  /\ AddPartners(n, x, {SessionOf(n, m), SessionOf(n, p)} \ {0})
                  /\ Approach(n, p, x)
        /\ UNCHANGED <<joined, early, toRegister, cidList, table>>

Handle(n, m) ==
    \/ HandleSearchReq(n, m) \/ HandleSearchAck(n, m)
    \/ HandleRegisterReq(n, m) \/ HandleRegisterAck(n, m)
    \/ HandlePartner(n, m)

Next ==
    \/ \E n \in Peers : Join(n) \/ SearchLoop(n)
    \/ \E n \in Nodes, s \in SessionIds :
           Connected(n, s) \/ SearchAtLast(n, s) \/ Close(n, s) \/ Recycle(n, s)
    \/ \E n \in Peers, x \in Contents : AddContent(n, x)
    \/ \E n, m \in Nodes : Accept(n, m) \/ Handle(n, m)

Spec == Init /\ [][Next]_vars

-----------------------------------------------------------------------------
TypeOK ==
    /\ session \in [Nodes -> [SessionIds ->
           [peer : Nodes \cup {NoNode}, up : BOOLEAN, cid : Contents \cup {NoNode}]]]
    /\ sessionNum \in [Nodes -> 0..SessionCapacity]
    /\ idQueue \in [Nodes -> Seq(SessionIds)]
    /\ cooling \in [Nodes -> SUBSET SessionIds]
    /\ joined \subseteq Peers
    /\ early \in [Peers -> SUBSET Contents]
    /\ \A n \in Peers :
         /\ toRegister[n] \in Seq(SessionIds)
         /\ partners[n] \in [Interested(n) -> SUBSET SessionIds]
         /\ Listed(cidList[n]) = Interested(n)
         /\ Len(cidList[n]) = Cardinality(Interested(n))
    /\ \A n \in Nodes : NodesIn(table[n]) \subseteq [key : Keys, peer : Nodes]
    /\ closes \in 0..MaxCloses

\* No node is told of itself: it never has a session with its own address and
\* never takes itself for a partner.
NotWithItself == \A n \in Nodes : SessionOf(n, n) = 0

Partner(n, m, x) == x \in Interested(n) /\ SessionOf(n, m) \in partners[n][x]

\* k_bucket.h: a node is kept unless its peer has disconnected.
GoodNodesKept ==
    [][\A n \in Nodes : table'[n] # table[n] =>
          \A e \in NodesIn(table[n]) \ NodesIn(table'[n]) : Status(n)[e.peer] # GOOD]_vars

\* Nothing is left to do for the threads of any node.
Quiet ==
    /\ joined = Peers
    /\ \A n \in Peers : toRegister[n] = <<>>
    /\ \A n, m \in Nodes : stream[n][m] = <<>>
    /\ \A n \in Nodes, s \in SessionIds : session[n][s] # NoSession => session[n][s].up

\* Of two peers that were interested in the same content when they joined, one
\* at least has the other for a partner when all is done.
MetWhenQuiet ==
    Quiet /\ closes = 0 =>
        \A n, m \in Peers : \A x \in early[n] \cap early[m] :
            n # m => Partner(n, m, x) \/ Partner(m, n, x)

=============================================================================
