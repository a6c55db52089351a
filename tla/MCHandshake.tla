---------------------------- MODULE MCHandshake ----------------------------
(* Handshake between two nodes: two peers that connect to each other, or one *)
(* to the other; two whose requests cross; n1 a client and n2 its tracker;   *)
(* and n1 a peer that connects through a relay.  Of the Session objects      *)
(* there is one, so that the next session gets a used one.                   *)
EXTENDS Handshake, TLC
CONSTANTS n1, n2, w1, w2

OneEach == n1 :> {w1} @@ n2 :> {w1}

BothPeers == [
    kinds |-> n1 :> {"peer"} @@ n2 :> {"peer"},
    CONNECT_TIMEOUT_COUNT |-> 2, busy |-> n1 :> Workers @@ n2 :> {w1},
    maxSessions |-> 1, maxInFlight |-> 1, maxCopies |-> 0, maxRestarts |-> 0,
    maxTimers |-> 1, maxRefusals |-> 0]
OnePeer == [BothPeers EXCEPT
    !.kinds[n2] = {}, !.busy[n2] = Workers,
    !.maxSessions = 2, !.maxInFlight = 2, !.maxTimers = 2]
PeersAgain == [BothPeers EXCEPT !.CONNECT_TIMEOUT_COUNT = 4, !.busy = OneEach, !.maxSessions = 2]

\* n2 gives up just when n1 has taken its CONNECT_REQ, and accepts the session that
\* n1 then asks for.
Crossing == [BothPeers EXCEPT
    !.kinds[n1] = {"tracker"}, !.CONNECT_TIMEOUT_COUNT = 3,
    !.busy = n1 :> {w1} @@ n2 :> Workers, !.maxSessions = 2]

ToTracker == [
    kinds |-> n1 :> {"tracker"} @@ n2 :> {},
    CONNECT_TIMEOUT_COUNT |-> 4, busy |-> OneEach, maxSessions |-> 2,
    maxInFlight |-> 2, maxCopies |-> 1, maxRestarts |-> 1,
    maxTimers |-> 1, maxRefusals |-> 1]
RelayOnce == [ToTracker EXCEPT
    !.kinds[n1] = {"relay", "peer"}, !.CONNECT_TIMEOUT_COUNT = 2,
    !.maxSessions = 1, !.maxCopies = 0, !.maxRestarts = 0]
RelayTwice == [RelayOnce EXCEPT
    !.kinds[n1] = {"relay"}, !.maxSessions = 2, !.maxInFlight = 1]

MCSettings == {BothPeers, OnePeer, Crossing, ToTracker, RelayOnce, RelayTwice}
MCOnePeer == {OnePeer}
MCAgain == {PeersAgain}
\* Bound of Crossing: n1 opens one session, and heartbeats count to one.
MCOneOfN1 == setting = Crossing =>
    opened[n1] <= 1 /\ \A n \in Nodes : object[n][1].timeouts <= 1
Symmetry == Permutations({n1, n2}) \cup Permutations(Workers)
=============================================================================
