---------------------------- MODULE SearchProofs ----------------------------
(***************************************************************************)
(* Search for any nodes, tables, contents and bounds: no node ever has a   *)
(* session with itself.  Addresses come from other nodes' tables and       *)
(* partners, so that this is a matter of who is named to whom: an answer   *)
(* never names the one who asked, whichever way it was found.  A routing   *)
(* table gives up a node only when its peer has disconnected: a matter of  *)
(* who is added, whom a bucket drops for it, and of there being a bucket   *)
(* for every key.  And the types: no session id is given out twice, what   *)
(* arrives has a session, so that the partner table names sessions only,   *)
(* and get_cid() turns the list of contents without losing or repeating    *)
(* one.                                                                    *)
(***************************************************************************)
EXTENDS Search, SequenceTheorems, FiniteSetTheorems, WellFoundedInduction, TLAPS

\* A message to m: it names nodes, and not m; it has keys, asks for contents, and
\* what is said of a content or of the sender's key has one.
Message3(msg) == msg = [type |-> msg.type, keys |-> msg.keys, peers |-> msg.peers]
Answers == {"SEARCH_ACK", "PARTNER"}
Proper(msg, m) ==
    /\ Message3(msg)
    /\ msg.peers \subseteq Nodes \ {m}
    /\ msg.keys \in Seq(Keys)
    /\ msg.type \in Answers \cup {"SEARCH_REQ"} => msg.keys \in Seq(Contents)
    /\ msg.type \in Answers \cup {"REGISTER_REQ"} => msg.keys # <<>>
ProperQueue(queue, m) == \E M : queue \in Seq(M) /\ \A msg \in M : Proper(msg, m)

Domains ==
    /\ DOMAIN session = Nodes
    /\ \A n \in Nodes : DOMAIN session[n] = SessionIds
    /\ \A n \in Nodes, s \in SessionIds : DOMAIN session[n][s] = {"peer", "up", "cid"}

\* A node has no session with itself, and one at most with every other.
SessionInv ==
    /\ \A n \in Nodes, s \in SessionIds :
           /\ session[n][s].peer \in (Nodes \ {n}) \cup {NoNode}
           /\ session[n][s].cid \in Contents \cup {NoNode}
    /\ \A n \in Nodes : \A s, t \in SessionIds :
           session[n][s].peer = session[n][t].peer /\ session[n][s].peer # NoNode => s = t

\* The streams ss never name anybody to himself.
Clean(ss) ==
    /\ DOMAIN ss = Nodes
    /\ \A n \in Nodes : DOMAIN ss[n] = Nodes
    /\ \A n, m \in Nodes : ProperQueue(ss[n][m], m)

Lists == DOMAIN cidList = Peers /\ \A n \in Peers : cidList[n] \in Seq(Contents)

\* A bucket holds nodes, and so do the tables ts.
OfNodes(bucket) == bucket \in Seq([key : Keys, peer : Nodes])
TableOfNodes(t) == DOMAIN t = Buckets /\ \A b \in Buckets : OfNodes(t[b])
Tables(ts) == DOMAIN ts = Nodes /\ \A n \in Nodes : TableOfNodes(ts[n])

Linked == Domains /\ SessionInv /\ Clean(stream)

IInv == Linked /\ Lists /\ Tables(table)

-----------------------------------------------------------------------------
(* The routing table: what stays in a bucket, and who is found.              *)

\* A set of natural numbers that has an element has a first one.
LEMMA FirstExists ==
    ASSUME NEW S \in SUBSET Nat, S # {}
    PROVE  \E x \in S : \A i \in S : x <= i
<1> DEFINE Less == {ss \in Nat \X Nat : ss[1] < ss[2]}
<1>1. IsWellFoundedOn(Less, Nat) BY NatLessThanWellFounded, Zenon DEF OpToRel
<1>2. PICK x \in S : \A y \in S : ~(<<y, x>> \in Less)
  <2> HIDE DEF Less
  <2> QED BY ONLY <1>1, S \in SUBSET Nat, S # {}, WFMin
<1>3. \A y \in S : x <= y
  <2> TAKE y \in S
  <2>1. x \in Nat /\ y \in Nat OBVIOUS
  <2>2. <<y, x>> \notin Less BY <1>2
  <2>3. <<y, x>>[1] = y /\ <<y, x>>[2] = x OBVIOUS
  <2>4. ~(y < x) BY <2>1, <2>2, <2>3
  <2> QED BY <2>1, <2>4
<1> QED BY <1>3

\* There is a bucket for every distance.
LEMMA DistanceIsBucket ==
    ASSUME NEW key1 \in Keys, NEW key2 \in Keys
    PROVE  Distance(key1, key2) \in Buckets
<1> DEFINE E(j) == key1 \div 2^j = key2 \div 2^j
           S == {j \in 0..KeyBits : E(j)}
<1>1. KeyBits \in Nat \ {0} BY RoutingTableAssumption
<1>2. CASE key1 = key2 BY <1>1, <1>2 DEF Distance, Buckets
<1>3. CASE key1 # key2
  <2>1. key1 \in Nat /\ key2 \in Nat /\ ~E(0)
    <3>1. 2^KeyBits \in Int /\ 2^0 = 1 BY <1>1
    <3>2. key1 \in Nat /\ key2 \in Nat BY <3>1 DEF Keys
    <3> QED BY <1>3, <3>1, <3>2
  <2>2. E(KeyBits)
    <3>1. PICK p \in Int : p = 2^KeyBits BY <1>1
    <3>2. key1 < p /\ key2 < p BY <2>1, <3>1 DEF Keys
    <3>3. key1 \div p = 0 /\ key2 \div p = 0 BY <2>1, <3>1, <3>2
    <3> QED BY <3>1, <3>3
  <2> HIDE DEF E
  <2>3. S \in SUBSET Nat /\ S # {} BY <1>1, <2>2
  <2>4. PICK l \in S : \A i \in S : l <= i
    <3> HIDE DEF S
    <3> QED BY <2>3, FirstExists
  <2>5. l \in 1..KeyBits /\ E(l) BY <1>1, <2>1, <2>4
  <2>6. l - 1 \in Buckets /\ ~E(l - 1) /\ l - 1 + 1 = l BY <1>1, <2>4, <2>5 DEF Buckets
  <2>7. \E j \in Buckets : ~E(j) /\ E(j + 1) BY <2>5, <2>6
  <2> QED BY <1>3, <2>7 DEF E, Distance
<1> QED BY <1>2, <1>3

\* get_node() looks into buckets that are there.
LEMMA ScannedIsBucket ==
    ASSUME NEW d \in Buckets, NEW i \in DOMAIN Scanned(d)
    PROVE  Scanned(d)[i] \in Buckets
<1>1. KeyBits \in Nat \ {0} /\ KLEN_KEY \in Nat \ {0} /\ KLEN_KEY <= KeyBits /\ d \in 0..(KeyBits - 1)
  BY RoutingTableAssumption DEF Buckets
<1> DEFINE right == IF d < KLEN_KEY THEN KLEN_KEY - d ELSE 0
<1>2. right \in Nat /\ (right = 0 \/ d + right = KLEN_KEY) BY <1>1
<1>3. Scanned(d) = [j \in 1..(right + d) |-> IF j <= right THEN d + j - 1 ELSE d + right - j]
  BY DEF Scanned
<1> HIDE DEF right
<1>4. i \in 1..(right + d) /\ Scanned(d)[i] = IF i <= right THEN d + i - 1 ELSE d + right - i
  BY <1>3
<1> QED BY <1>1, <1>2, <1>4 DEF Buckets

\* Only what is in the table is found.
LEMMA FoundIsNode ==
    ASSUME NEW t, TableOfNodes(t), NEW self \in Keys, NEW key \in Keys, NEW req, NEW status
    PROVE  GetNode(t, self, key, req, status) \subseteq Nodes
<1> DEFINE d == Distance(self, key)
<1>1. d \in Buckets BY DistanceIsBucket
<1> HIDE DEF d
<1>2. ASSUME NEW s \in DOMAIN Scanned(d), NEW i \in DOMAIN t[Scanned(d)[s]]
      PROVE  t[Scanned(d)[s]][i].peer \in Nodes
  <2> DEFINE bucket == t[Scanned(d)[s]]
             M == [key : Keys, peer : Nodes]
  <2>1. OfNodes(bucket) BY <1>1, ScannedIsBucket DEF TableOfNodes
  <2>2. bucket \in Seq(M) /\ i \in DOMAIN bucket BY <2>1 DEF OfNodes
  <2> HIDE DEF bucket, M
  <2>3. bucket[i] \in M BY <2>2
  <2> QED BY <2>3 DEF bucket, M
<1>3. Online(t, d, req, status) \subseteq Nodes
  BY <1>2 DEF Online, OnlineInBucket
<1>4. \A c \in Candidates(t, key, d, req) : c[3] \in Nodes
  BY <1>2 DEF Candidates, Nearest
<1> QED BY <1>3, <1>4 DEF GetNode, d

\* A full bucket gives up, if anything, a node that compares worse.
LEMMA VictimIsWorse ==
    ASSUME NEW M, NEW bucket \in Seq(M), NEW node, NEW status
    PROVE  LET i == Victim(bucket, node, status) IN
           \/ i = 0
           \/ i \in 1..Len(bucket) /\ status[bucket[i].peer] > status[node.peer]
<1> DEFINE worse == WorseNodes(bucket, node, status)
<1>1. worse \subseteq DOMAIN bucket /\ DOMAIN bucket = 1..Len(bucket) /\ Len(bucket) \in Nat
  BY DEF WorseNodes
<1>2. CASE worse = {} BY <1>2 DEF Victim
<1>3. CASE worse # {}
  <2>1. \E x \in worse : \A i \in worse : x <= i
    <3>1. worse \in SUBSET Nat BY <1>1
    <3> HIDE DEF worse
    <3> QED BY <1>3, <3>1, FirstExists
  <2>2. Victim(bucket, node, status) \in worse \cup {0} BY <2>1 DEF Victim
  <2> QED BY <1>1, <2>2 DEF WorseNodes
<1> QED BY <1>2, <1>3

\* What was in the bucket and was GOOD is in the new one.
Keeps(bucket, new, status) ==
    \A j \in DOMAIN bucket :
        \/ \E k \in DOMAIN new : new[k] = bucket[j]
        \/ status[bucket[j].peer] # GOOD

\* A full bucket loses one node at most, a worse one than it takes in.
LEMMA BucketKeeps ==
    ASSUME NEW M, NEW bucket, bucket \in Seq(M), NEW node, NEW m, m = node.peer,
           NEW status, status[m] \in {GOOD, QUESTIONABLE}
    PROVE  LET new == AddToBucket(bucket, node, status) IN
           new \in Seq(M \cup {node}) /\ Keeps(bucket, new, status)
<1> DEFINE new == AddToBucket(bucket, node, status)
           i == Victim(bucket, node, status)
           N == M \cup {node}
           A == SubSeq(bucket, i + 1, Len(bucket))
           B == SubSeq(bucket, 1, i - 1)
<1>1. bucket \in Seq(N) /\ Len(bucket) \in Nat /\ DOMAIN bucket = 1..Len(bucket)
  OBVIOUS
<1>2. CASE Len(bucket) < KBUCKET_SIZE
  <2>1. AddToBucket(bucket, node, status) = Append(bucket, node) BY <1>2 DEF AddToBucket
  <2>2. \A j \in DOMAIN bucket : j \in DOMAIN Append(bucket, node) /\ Append(bucket, node)[j] = bucket[j]
    BY <1>1
  <2> QED BY <2>1, <2>2, <1>1 DEF Keeps
<1>3. CASE ~(Len(bucket) < KBUCKET_SIZE) /\ i = 0
  BY <1>1, <1>3 DEF AddToBucket, Keeps
<1>4. CASE ~(Len(bucket) < KBUCKET_SIZE) /\ i # 0
  <2>1. AddToBucket(bucket, node, status) = A \o B \o <<node>> BY <1>4 DEF AddToBucket
  <2>2. i \in 1..Len(bucket) /\ status[bucket[i].peer] > status[node.peer]
    BY <1>4, VictimIsWorse
  <2>3. status[bucket[i].peer] # GOOD BY <2>2 DEF GOOD, QUESTIONABLE
  <2> HIDE DEF i
  <2>4. /\ A \in Seq(N) /\ Len(A) = Len(bucket) - i
        /\ \A k \in 1..(Len(bucket) - i) : A[k] = bucket[i + k]
    <3>1. i + 1 \in Int /\ Len(bucket) \in Int /\ \A k \in (i + 1)..Len(bucket) : bucket[k] \in N
      BY <1>1, <2>2
    <3>2. /\ A \in Seq(N)
          /\ Len(A) = IF i + 1 <= Len(bucket) THEN Len(bucket) - (i + 1) + 1 ELSE 0
          /\ \A k \in 1..(Len(bucket) - (i + 1) + 1) : A[k] = bucket[(i + 1) + k - 1]
      BY <3>1, SubSeqProperties
    <3> HIDE DEF A
    <3>3. \A l \in Nat : l - (i + 1) + 1 = l - i /\ (i \in 1..l => (i + 1 <= l \/ l - i = 0))
      BY <2>2
    <3>4. Len(A) = Len(bucket) - i BY <1>1, <2>2, <3>2, <3>3
    <3>5. \A k \in Int : (i + 1) + k - 1 = i + k BY <2>2
    <3>6. \A k \in 1..(Len(bucket) - i) : A[k] = bucket[i + k]
      <4> SUFFICES ASSUME NEW k \in 1..(Len(bucket) - i) PROVE A[k] = bucket[i + k] OBVIOUS
      <4>1. k \in Int /\ k \in 1..(Len(bucket) - (i + 1) + 1) BY <1>1, <2>2, <3>3
      <4>2. A[k] = bucket[(i + 1) + k - 1] BY <3>2, <4>1
      <4> QED BY <3>5, <4>1, <4>2
    <3> QED BY <3>2, <3>4, <3>6
  <2>5. /\ B \in Seq(N) /\ Len(B) = i - 1
        /\ \A k \in 1..(i - 1) : B[k] = bucket[k]
    BY <1>1, <2>2
  <2> HIDE DEF A, B
  <2>6. <<node>> \in Seq(N) /\ Len(<<node>>) = 1 OBVIOUS
  <2>7. new \in Seq(N) /\ DOMAIN new = 1..Len(bucket)
    <3> DEFINE AB == A \o B
    <3>1. AB \in Seq(N) /\ Len(AB) = Len(A) + Len(B) BY <2>4, <2>5, ConcatProperties
    <3> HIDE DEF AB
    <3>2. AB \o <<node>> \in Seq(N) /\ Len(AB \o <<node>>) = Len(AB) + 1 BY <2>6, <3>1
    <3>3. \A l \in Nat : i \in 1..l => l - i + (i - 1) + 1 = l BY <2>2
    <3>4. Len(AB \o <<node>>) = Len(bucket) BY <1>1, <2>2, <2>4, <2>5, <3>1, <3>2, <3>3
    <3> QED BY <2>1, <3>2, <3>4 DEF AB
  <2>8. \A k \in 1..Len(A) : new[k] = A[k] BY <2>1, <2>4, <2>5, <2>6
  <2>9. \A k \in 1..Len(B) : new[Len(A) + k] = B[k] BY <2>1, <2>4, <2>5, <2>6
  <2>10. ASSUME NEW j \in DOMAIN bucket, j # i
         PROVE  \E k \in DOMAIN new : new[k] = bucket[j]
    <3>1. CASE j > i
      <4>1. j - i \in 1..Len(A) /\ j - i \in DOMAIN new /\ i + (j - i) = j
        BY <1>1, <2>2, <2>4, <2>7, <2>10, <3>1
      <4>2. new[j - i] = bucket[j] BY <2>4, <2>8, <4>1
      <4> QED BY <4>1, <4>2
    <3>2. CASE j < i
      <4>1. j \in 1..Len(B) /\ Len(A) + j \in DOMAIN new
        BY <1>1, <2>2, <2>4, <2>5, <2>7, <2>10, <3>2
      <4>2. new[Len(A) + j] = bucket[j] BY <2>5, <2>9, <4>1
      <4> QED BY <4>1, <4>2
    <3> QED BY <1>1, <2>2, <2>10, <3>1, <3>2
  <2> QED BY <2>3, <2>7, <2>10 DEF Keeps
<1> QED BY <1>2, <1>3, <1>4

-----------------------------------------------------------------------------
(* Queues. *)

\* Queues of proper messages: none, two in a row, one, one more, one fewer.
LEMMA EmptyIsProper == ASSUME NEW m PROVE ProperQueue(<<>>, m)
<1> DEFINE q == <<>>
<1>1. q \in Seq({}) OBVIOUS
<1> HIDE DEF q
<1>2. ProperQueue(q, m) BY <1>1 DEF ProperQueue
<1> QED BY <1>2 DEF q

LEMMA JoinIsProper ==
    ASSUME NEW m, NEW q, NEW r, ProperQueue(q, m), ProperQueue(r, m)
    PROVE  ProperQueue(q \o r, m)
<1>1. PICK M : q \in Seq(M) /\ \A msg \in M : Proper(msg, m) BY DEF ProperQueue
<1>2. PICK N : r \in Seq(N) /\ \A msg \in N : Proper(msg, m) BY DEF ProperQueue
<1>3. q \in Seq(M \cup N) /\ r \in Seq(M \cup N) BY <1>1, <1>2
<1>4. q \o r \in Seq(M \cup N) BY <1>3
<1>5. \A msg \in M \cup N : Proper(msg, m) BY <1>1, <1>2
<1> QED BY <1>4, <1>5 DEF ProperQueue

LEMMA OneIsProper ==
    ASSUME NEW m, NEW msg, Proper(msg, m)
    PROVE  ProperQueue(<<msg>>, m)
<1> DEFINE q == <<msg>>
<1>1. q \in Seq({msg}) OBVIOUS
<1> HIDE DEF q
<1>2. ProperQueue(q, m) BY <1>1 DEF ProperQueue
<1> QED BY <1>2 DEF q

LEMMA MoreIsProper ==
    ASSUME NEW m, NEW q, ProperQueue(q, m), NEW msg, Proper(msg, m)
    PROVE  ProperQueue(Append(q, msg), m)
<1>1. Append(q, msg) = q \o <<msg>>
  <2>1. PICK M : q \in Seq(M) BY DEF ProperQueue
  <2> QED BY <2>1
<1> QED BY <1>1, OneIsProper, JoinIsProper

LEMMA RestIsProper ==
    ASSUME NEW m, NEW q, ProperQueue(q, m), q # <<>>
    PROVE  ProperQueue(Tail(q), m) /\ Proper(Head(q), m)
<1>1. PICK M : q \in Seq(M) /\ \A msg \in M : Proper(msg, m) BY DEF ProperQueue
<1>2. Tail(q) \in Seq(M) /\ Head(q) \in M BY <1>1
<1> QED BY <1>1, <1>2 DEF ProperQueue

LEMMA ContentsAreKeys == ASSUME NEW q \in Seq(Contents) PROVE q \in Seq(Keys)
<1>1. Contents \subseteq Keys BY SearchAssumption
<1> HIDE DEF Keys
<1> QED BY <1>1

\* What send() is given, by type.
LEMMA MessageIsProper ==
    ASSUME NEW m, NEW type, NEW keys, NEW peers \in SUBSET (Nodes \ {m}),
           \/ type = "REGISTER_ACK" /\ keys \in Seq(Keys)
           \/ type = "REGISTER_REQ" /\ keys \in Seq(Keys) \ {<<>>}
           \/ type = "SEARCH_REQ" /\ keys \in Seq(Contents)
           \/ type \in Answers /\ keys \in Seq(Contents) \ {<<>>}
    PROVE  Proper(Message(type, keys, peers), m)
<1> DEFINE msg == Message(type, keys, peers)
<1>1. msg.type = type /\ msg.keys = keys /\ msg.peers = peers /\ Message3(msg)
  BY DEF Message, Message3
<1> HIDE DEF msg
<1>2. keys \in Seq(Contents) => keys \in Seq(Keys) BY ContentsAreKeys
<1>3. Proper(msg, m) BY <1>1, <1>2 DEF Proper, Answers
<1> QED BY <1>3 DEF msg

\* What is left of a message, when a key or a peer of it has been handled.
LEMMA LeftIsProper ==
    ASSUME NEW m, NEW msg, Proper(msg, m)
    PROVE  /\ msg.type = "SEARCH_REQ" /\ msg.keys # <<>>
                  => Proper([msg EXCEPT !.keys = Tail(@)], m)
           /\ \A p : Proper([msg EXCEPT !.peers = @ \ {p}], m)
<1>1. Message3(msg) BY DEF Proper
<1>2. ASSUME msg.type = "SEARCH_REQ", msg.keys # <<>>
      PROVE  Proper([msg EXCEPT !.keys = Tail(@)], m)
  <2> DEFINE left == [msg EXCEPT !.keys = Tail(@)]
  <2>0. left = [type |-> msg.type, keys |-> Tail(msg.keys), peers |-> msg.peers]
    <3>1. \A k : [msg EXCEPT !.keys = k] = [type |-> msg.type, keys |-> k, peers |-> msg.peers]
      BY <1>1 DEF Message3
    <3> QED BY <3>1
  <2>1. /\ left.type = msg.type /\ left.keys = Tail(msg.keys) /\ left.peers = msg.peers
        /\ Message3(left)
    BY <2>0 DEF Message3
  <2> HIDE DEF left
  <2>2. Tail(msg.keys) \in Seq(Contents) BY <1>2 DEF Proper
  <2>3. msg.type \notin Answers \cup {"REGISTER_REQ"} BY <1>2 DEF Answers
  <2>4. Tail(msg.keys) \in Seq(Keys) BY <2>2, ContentsAreKeys
  <2>5. Proper(left, m) BY <2>1, <2>2, <2>3, <2>4 DEF Proper
  <2> QED BY <2>5 DEF left
<1>3. ASSUME NEW p PROVE Proper([msg EXCEPT !.peers = @ \ {p}], m)
  <2> DEFINE left == [msg EXCEPT !.peers = @ \ {p}]
  <2>1. /\ left.type = msg.type /\ left.keys = msg.keys /\ left.peers = msg.peers \ {p}
        /\ Message3(left)
    BY <1>1 DEF Message3
  <2> HIDE DEF left
  <2>2. Proper(left, m) BY <2>1 DEF Proper
  <2> QED BY <2>2 DEF left
<1> QED BY <1>2, <1>3

-----------------------------------------------------------------------------
(* Streams: what is sent, handled, left. *)

\* Sending and handling keep the streams clean.
LEMMA SentIsClean ==
    ASSUME NEW streams, Clean(streams), NEW n \in Nodes, NEW m, NEW messages,
           ProperQueue(messages, m)
    PROVE  Clean(Sent(streams, n, m, messages))
<1>1. CASE SessionOf(m, n) = 0 BY <1>1 DEF Sent
<1>2. CASE SessionOf(m, n) # 0
  <2>1. Sent(streams, n, m, messages) =
            [streams EXCEPT ![n] = [streams[n] EXCEPT ![m] = streams[n][m] \o messages]]
    BY <1>2 DEF Sent
  <2>2. m \in Nodes => ProperQueue(streams[n][m] \o messages, m)
    BY JoinIsProper DEF Clean
  <2> QED BY <2>1, <2>2 DEF Clean
<1> QED BY <1>1, <1>2

LEMMA HandledIsClean ==
    ASSUME Clean(stream), NEW n \in Nodes, NEW m \in Nodes, stream[m][n] # <<>>
    PROVE  /\ Clean(Handled(n, m))
           /\ Proper(Head(stream[m][n]), n)
           /\ \A rest : Proper(rest, n) => Clean(LeftOver(n, m, rest))
<1>1. ProperQueue(Tail(stream[m][n]), n) /\ Proper(Head(stream[m][n]), n)
  BY RestIsProper DEF Clean
<1>2. Clean(Handled(n, m)) BY <1>1 DEF Clean, Handled
<1>3. ASSUME NEW rest, Proper(rest, n) PROVE Clean(LeftOver(n, m, rest))
  <2>1. ProperQueue(<<rest>> \o Tail(stream[m][n]), n)
    BY <1>1, <1>3, OneIsProper, JoinIsProper
  <2> QED BY <2>1 DEF Clean, LeftOver
<1> QED BY <1>1, <1>2, <1>3

\* A search does not find the one who asks (routing_table.cpp, ReqPeer).
LEMMA FoundIsNotAsker ==
    ASSUME NEW t, NEW self, NEW key, NEW req, NEW status
    PROVE  req \notin GetNode(t, self, key, req, status)
<1>1. req \notin Online(t, Distance(self, key), req, status)
  BY DEF Online, OnlineInBucket
<1>2. \A c \in Candidates(t, key, Distance(self, key), req) : c[3] # req
  BY DEF Candidates, Nearest
<1> QED BY <1>1, <1>2 DEF GetNode

-----------------------------------------------------------------------------
(* Sessions. *)

\* RoutingTable::add keeps the nodes that are GOOD, and buckets of nodes.
LEMMA RememberedIsNode ==
    ASSUME Tables(table), NEW n \in Nodes, NEW key \in Keys, NEW m \in Nodes
    PROVE  /\ Tables(Remember(n, key, m))
           /\ \A o \in Nodes : \A e \in NodesIn(table[o]) \ NodesIn(Remember(n, key, m)[o]) :
                  Status(o)[e.peer] # GOOD
<1> DEFINE node == [key |-> key, peer |-> m]
           d == Distance(key, Pid[n])
           new == AddToBucket(table[n][d], node, Status(n))
           t == Remember(n, key, m)
<1>1. t = [table EXCEPT ![n] = [table[n] EXCEPT ![d] = new]]
  BY DEF Remember, AddNode
<1>2. /\ node.peer = m /\ Status(n)[m] \in {GOOD, QUESTIONABLE}
      /\ node \in [key : Keys, peer : Nodes]
  BY DEF Status
<1> HIDE DEF node, d, new, t
<1>3. /\ DOMAIN t = Nodes /\ \A o \in Nodes : DOMAIN t[o] = Buckets
      /\ \A o \in Nodes, b \in Buckets :
             t[o][b] = IF o = n /\ b = d THEN new ELSE table[o][b]
  BY <1>1 DEF Tables, TableOfNodes
<1>4. ASSUME d \in Buckets
      PROVE  OfNodes(new) /\ Keeps(table[n][d], new, Status(n))
  <2> DEFINE M == [key : Keys, peer : Nodes]
  <2>1. table[n][d] \in Seq(M) BY <1>4 DEF Tables, TableOfNodes, OfNodes
  <2> HIDE DEF M
  <2>2. new \in Seq(M \cup {node}) /\ Keeps(table[n][d], new, Status(n))
    <3>1. PICK bucket : bucket = table[n][d] OBVIOUS
    <3>2. PICK status : status = Status(n) OBVIOUS
    <3>3. m = node.peer /\ bucket \in Seq(M) /\ status[m] \in {GOOD, QUESTIONABLE} BY <1>2, <2>1, <3>1, <3>2
    <3>4. new = AddToBucket(bucket, node, status) BY <3>1, <3>2 DEF new
    <3>5. new \in Seq(M \cup {node}) /\ Keeps(bucket, new, status)
      BY ONLY <3>3, <3>4, BucketKeeps
    <3> QED BY <3>1, <3>2, <3>5
  <2>3. M \cup {node} = M BY <1>2 DEF M
  <2> QED BY <2>2, <2>3 DEF OfNodes, M
<1>5. Tables(t) BY <1>3, <1>4 DEF Tables, TableOfNodes
<1>6. ASSUME NEW o \in Nodes, NEW e \in NodesIn(table[o]), e \notin NodesIn(t[o])
      PROVE  Status(o)[e.peer] # GOOD
  <2>1. PICK b \in Buckets : \E j \in DOMAIN table[o][b] : e = table[o][b][j]
    BY DEF NodesIn, Tables, TableOfNodes
  <2>2. \A k \in DOMAIN t[o][b] : t[o][b][k] # e BY <1>3, <1>6 DEF NodesIn
  <2>3. o = n /\ b = d BY <1>3, <2>1, <2>2
  <2> QED BY <1>3, <1>4, <2>1, <2>2, <2>3 DEF Keeps
<1> QED BY <1>5, <1>6 DEF t

\* session_id() finds the session of an address, or 0 when there is none.
LEMMA NoneForPeer ==
    ASSUME NEW n, NEW m, SessionOf(n, m) = 0
    PROVE  \A s \in SessionIds : session[n][s].peer # m
<1>1. 0 \notin SessionIds BY DEF SessionIds
<1> QED BY <1>1 DEF SessionOf

LEMMA SessionOfPeer ==
    ASSUME NEW n, NEW m, SessionOf(n, m) # 0
    PROVE  SessionOf(n, m) \in SessionIds /\ session[n][SessionOf(n, m)].peer = m
  BY DEF SessionOf

LEMMA NoNodeIsNone == NoNode \notin Nodes
  BY SearchAssumption DEF Nodes

\* A session with another node, when there is none with that node.
LEMMA OpensInv ==
    ASSUME Domains, SessionInv, NEW n \in Nodes, NEW m \in Nodes \ {n}, NEW up,
           NEW cid \in Contents \cup {NoNode},
           SessionOf(n, m) = 0, OpenSession(n, m, up, cid)
    PROVE  Domains' /\ SessionInv'
<1> DEFINE k == NextId(n)
           new == [peer |-> m, up |-> up, cid |-> cid]
<1>1. session' = session \/ session' = [session EXCEPT ![n] = [session[n] EXCEPT ![k] = new]]
  BY DEF OpenSession
<1>2. \A s \in SessionIds : session[n][s].peer # m BY NoneForPeer
<1>3. new.cid = cid /\ DOMAIN new = {"peer", "up", "cid"} /\ new.peer = m OBVIOUS
<1> HIDE DEF new, k
<1>4. CASE session' = session BY <1>4 DEF Domains, SessionInv
<1>5. CASE session' = [session EXCEPT ![n] = [session[n] EXCEPT ![k] = new]]
  <2>1. /\ DOMAIN session' = Nodes
        /\ \A o \in Nodes : DOMAIN session'[o] = SessionIds
        /\ \A o \in Nodes, s \in SessionIds :
               session'[o][s] = IF o = n /\ s = k THEN new ELSE session[o][s]
    BY <1>5 DEF Domains
  <2>2. Domains' BY <2>1, <1>3 DEF Domains
  <2>3. SessionInv' BY <2>1, <1>2, <1>3 DEF SessionInv
  <2> QED BY <2>2, <2>3
<1> QED BY <1>1, <1>4, <1>5

\* connect_peer() to another node.
LEMMA ApproachInv ==
    ASSUME Domains, SessionInv, NEW n \in Nodes, NEW m \in Nodes \ {n},
           NEW x \in Contents \cup {NoNode}, Approach(n, m, x)
    PROVE  Domains' /\ SessionInv'
<1>1. CASE SessionOf(n, m) = 0 BY <1>1, OpensInv DEF Approach
<1>2. CASE SessionOf(n, m) # 0 BY <1>2 DEF Approach, Domains, SessionInv
<1> QED BY <1>1, <1>2

\* A field of a session changes that is not its peer.
LEMMA SessionKept ==
    ASSUME Domains, SessionInv, NEW n \in Nodes, NEW k \in SessionIds,
           \/ session' = session
           \/ session' = [session EXCEPT ![n][k].up = TRUE]
           \/ session' = [session EXCEPT ![n][k].cid = NoNode]
    PROVE  Domains' /\ SessionInv'
<1>1. /\ DOMAIN session' = Nodes
      /\ \A o \in Nodes : DOMAIN session'[o] = SessionIds
      /\ \A o \in Nodes, s \in SessionIds :
             /\ DOMAIN session'[o][s] = {"peer", "up", "cid"}
             /\ session'[o][s].peer = session[o][s].peer
             /\ session'[o][s].cid \in {session[o][s].cid, NoNode}
  BY DEF Domains
<1> QED BY <1>1 DEF Domains, SessionInv

-----------------------------------------------------------------------------
(* Each action. *)

LEMMA InitInv == Init => IInv
<1> SUFFICES ASSUME Init PROVE IInv OBVIOUS
<1>1. NoSession.peer = NoNode /\ NoSession.cid = NoNode /\ DOMAIN NoSession = {"peer", "up", "cid"}
  BY DEF NoSession
<1>2. Domains /\ SessionInv BY <1>1, NoNodeIsNone DEF Init, Domains, SessionInv
<1>3. Clean(stream) BY EmptyIsProper DEF Init, Clean
<1>4. Lists BY SearchAssumption DEF Init, Lists
<1>5. Tables(table)
  <2>1. OfNodes(<<>>) BY DEF OfNodes
  <2> QED BY <2>1 DEF Init, EmptyTable, Tables, TableOfNodes
<1> QED BY <1>2, <1>3, <1>4, <1>5 DEF IInv, Linked

LEMMA SessionStepsInv ==
    ASSUME IInv, NEW n \in Nodes,
           \/ n \in Peers /\ Join(n)
           \/ \E m \in Nodes : Accept(n, m)
           \/ \E s \in SessionIds : Connected(n, s) \/ SearchAtLast(n, s) \/ Close(n, s) \/ Recycle(n, s)
    PROVE  Linked'
<1>1. Domains /\ SessionInv /\ Clean(stream) BY DEF IInv, Linked
<1>2. ASSUME n \in Peers, Join(n) PROVE Linked'
  <2>1. Tracker \in Nodes \ {n} BY <1>2, SearchAssumption DEF Nodes
  <2>2. Domains' /\ SessionInv' BY <1>1, <1>2, <2>1, ApproachInv DEF Join
  <2>3. stream' = stream BY <1>2 DEF Join
  <2> QED BY <1>1, <2>2, <2>3 DEF IInv, Linked
<1>3. ASSUME NEW m \in Nodes, Accept(n, m) PROVE Linked'
  <2>1. m # n BY <1>1, <1>3, NoNodeIsNone DEF Accept, SessionInv
  <2>2. Domains' /\ SessionInv' BY <1>1, <1>3, <2>1, OpensInv DEF Accept
  <2>3. stream' = stream BY <1>3 DEF Accept
  <2> QED BY <1>1, <2>2, <2>3 DEF IInv, Linked
<1>4. ASSUME NEW s \in SessionIds, Connected(n, s) \/ Recycle(n, s) PROVE Linked'
  <2>1. Domains' /\ SessionInv' BY <1>1, <1>4, SessionKept DEF Connected, Recycle
  <2>2. stream' = stream BY <1>4 DEF Connected, Recycle
  <2> QED BY <1>1, <2>1, <2>2 DEF IInv, Linked
<1>5. ASSUME NEW s \in SessionIds, SearchAtLast(n, s) PROVE Linked'
  <2> DEFINE m == session[n][s].peer
             messages == <<Message("SEARCH_REQ", <<session[n][s].cid>>, {})>>
  <2>1. Domains' /\ SessionInv' BY <1>1, <1>5, SessionKept DEF SearchAtLast
  <2>2. ProperQueue(messages, m)
    <3>1. session[n][s].cid \in Contents BY <1>1, <1>5 DEF SearchAtLast, SessionInv
    <3>2. <<session[n][s].cid>> \in Seq(Contents) BY <3>1
    <3>3. Proper(Message("SEARCH_REQ", <<session[n][s].cid>>, {}), m) BY <3>2, MessageIsProper
    <3> QED BY <3>3, OneIsProper
  <2>3. stream' = stream \/ stream' = Sent(stream, n, m, messages) BY <1>5 DEF SearchAtLast
  <2> HIDE DEF m, messages
  <2>4. Clean(stream') BY <1>1, <2>2, <2>3, SentIsClean
  <2> QED BY <2>1, <2>4 DEF IInv, Linked
<1>6. ASSUME NEW s \in SessionIds, Close(n, s) PROVE Linked'
  <2> DEFINE m == session[n][s].peer
  <2>1. session' = [session EXCEPT ![n] = [session[n] EXCEPT ![s] = NoSession]]
    BY <1>6 DEF Close
  <2>2. /\ DOMAIN session' = Nodes
        /\ \A o \in Nodes : DOMAIN session'[o] = SessionIds
        /\ \A o \in Nodes, t \in SessionIds :
               session'[o][t] = IF o = n /\ t = s THEN NoSession ELSE session[o][t]
    BY <1>1, <2>1 DEF Domains
  <2>3. NoSession.peer = NoNode /\ NoSession.cid = NoNode /\ DOMAIN NoSession = {"peer", "up", "cid"} BY DEF NoSession
  <2>4. Domains' BY <1>1, <2>2, <2>3 DEF Domains
  <2>5. SessionInv' BY <1>1, <2>2, <2>3, NoNodeIsNone DEF SessionInv
  <2>6. stream' = [stream EXCEPT ![n][m] = <<>>, ![m][n] = <<>>] BY <1>6 DEF Close
  <2>7. /\ DOMAIN stream' = Nodes
        /\ \A o \in Nodes : DOMAIN stream'[o] = Nodes
        /\ \A o, p \in Nodes : stream'[o][p] \in {stream[o][p], <<>>}
    <3> DEFINE one == [stream EXCEPT ![n][m] = <<>>]
    <3>1. /\ DOMAIN one = Nodes
          /\ \A o \in Nodes : DOMAIN one[o] = Nodes
          /\ \A o, p \in Nodes : one[o][p] \in {stream[o][p], <<>>}
      BY <1>1 DEF Clean
    <3>2. stream' = [one EXCEPT ![m][n] = <<>>] BY <2>6
    <3> HIDE DEF one, m
    <3> QED BY <3>1, <3>2
  <2>8. Clean(stream') BY <1>1, <2>7, EmptyIsProper DEF Clean
  <2> QED BY <2>4, <2>5, <2>8 DEF IInv, Linked
<1> QED BY <1>2, <1>3, <1>4, <1>5, <1>6

\* A step that only sends.
LEMMA SendingStep ==
    ASSUME IInv, session' = session, Clean(stream')
    PROVE  Linked'
  BY DEF IInv, Linked, Domains, SessionInv

LEMMA PidIsKey == ASSUME NEW n \in Nodes PROVE <<Pid[n]>> \in Seq(Keys) \ {<<>>}
<1>1. Pid[n] \in Keys BY SearchAssumption
<1> HIDE DEF Keys
<1> QED BY <1>1

\* What get_cid() gives out.
LEMMA NextCidsAreContents ==
    ASSUME Lists, NEW n \in Peers
    PROVE  NextCids(n) \in Seq(Contents)
<1> DEFINE list == cidList[n]
           k == AtMost(Len(list), CidsPerMessage)
<1>1. list \in Seq(Contents) BY DEF Lists
<1>2. CidsPerMessage \in Nat BY SearchAssumption
<1>3. k \in 0..Len(list) BY <1>1, <1>2 DEF AtMost
<1> HIDE DEF list, k
<1>4. SubSeq(list, 1, k) \in Seq(Contents)
  <2>1. k \in Int /\ 1 \in Int /\ \A i \in 1..k : list[i] \in Contents BY <1>1, <1>3
  <2> QED BY <2>1, SubSeqProperties
<1> QED BY <1>4 DEF NextCids, list, k

LEMMA SearchingInv ==
    ASSUME IInv, NEW n \in Peers, SearchLoop(n) \/ \E x \in Contents : AddContent(n, x)
    PROVE  Linked'
<1>1. Clean(stream) /\ n \in Nodes /\ Lists BY DEF IInv, Linked, Nodes
<1>2. CASE SearchLoop(n)
  <2> DEFINE m == session[n][Head(toRegister[n])].peer
             one == Message("REGISTER_REQ", <<Pid[n]>>, {})
             two == Message("SEARCH_REQ", NextCids(n), {})
  <2>1. session' = session /\ (stream' = stream \/ stream' = Sent(stream, n, m, <<one, two>>))
    BY <1>2 DEF SearchLoop, linkVars
  <2>2. Proper(one, m) /\ Proper(two, m)
    <3>1. NextCids(n) \in Seq(Contents) BY <1>1, NextCidsAreContents
    <3>2. <<Pid[n]>> \in Seq(Keys) \ {<<>>} BY <1>1, PidIsKey
    <3> QED BY <3>1, <3>2, MessageIsProper
  <2> HIDE DEF one, two, m
  <2>3. ProperQueue(<<one, two>>, m)
    <3>1. <<one, two>> = Append(<<one>>, two) OBVIOUS
    <3> QED BY <2>2, <3>1, OneIsProper, MoreIsProper
  <2>4. Clean(stream') BY <1>1, <2>1, <2>3, SentIsClean
  <2> QED BY <2>1, <2>4, SendingStep
<1>3. ASSUME NEW x \in Contents, AddContent(n, x) PROVE Linked'
  <2> DEFINE msg == Message("SEARCH_REQ", <<x>>, {})
  <2>1. session' = session BY <1>3 DEF AddContent, linkVars
  <2>2. PICK asked : stream' = [stream EXCEPT ![n] = [m \in Nodes |->
            IF m \in asked THEN Append(stream[n][m], msg) ELSE stream[n][m]]]
    BY <1>3 DEF AddContent
  <2>3. \A m \in Nodes : Proper(msg, m)
    <3>1. <<x>> \in Seq(Contents) OBVIOUS
    <3> QED BY <3>1, MessageIsProper
  <2> HIDE DEF msg
  <2>4. \A m \in Nodes : ProperQueue(Append(stream[n][m], msg), m)
    BY <1>1, <2>3, MoreIsProper DEF Clean
  <2>5. /\ DOMAIN stream' = Nodes
        /\ \A o \in Nodes : DOMAIN stream'[o] = Nodes
        /\ \A o, m \in Nodes : \/ stream'[o][m] = stream[o][m]
                               \/ o = n /\ stream'[o][m] = Append(stream[o][m], msg)
    BY <1>1, <2>2 DEF Clean
  <2>6. Clean(stream') BY <1>1, <2>4, <2>5 DEF Clean
  <2> QED BY <2>1, <2>6, SendingStep
<1> QED BY <1>2, <1>3

LEMMA SearchReqInv ==
    ASSUME IInv, NEW n \in Nodes, NEW m \in Nodes, HandleSearchReq(n, m)
    PROVE  Linked'
<1> DEFINE msg == Head(stream[m][n])
           x == Head(msg.keys)
           left == LeftOver(n, m, [msg EXCEPT !.keys = Tail(@)])
           Answer(type, keys, peers) == <<Message(type, keys, peers)>>
<1>1. /\ SessionInv /\ Clean(stream) /\ stream[m][n] # <<>> /\ session' = session
      /\ msg.type = "SEARCH_REQ"
  BY DEF IInv, Linked, HandleSearchReq, Arrived, linkVars
<1>2. /\ Clean(Handled(n, m)) /\ Proper(msg, n) /\ msg.keys \in Seq(Contents)
      /\ msg.keys # <<>> => Clean(left)
  <2>1. Clean(Handled(n, m)) /\ Proper(msg, n) BY <1>1, HandledIsClean
  <2>2. msg.keys # <<>> => Proper([msg EXCEPT !.keys = Tail(@)], n)
    BY <1>1, <2>1, LeftIsProper
  <2> HIDE DEF msg
  <2>3. msg.keys # <<>> => Clean(left) BY <1>1, <2>2, HandledIsClean
  <2> QED BY <1>1, <2>1, <2>3 DEF Proper
<1>3. ASSUME NEW msg1, Proper(msg1, m), NEW ss, Clean(ss) PROVE Clean(Sent(ss, n, m, <<msg1>>))
  BY <1>3, OneIsProper, SentIsClean
<1> HIDE DEF msg
<1>4. msg.keys # <<>> => x \in Contents /\ <<x>> \in Seq(Contents) \ {<<>>}
  <2>1. msg.keys # <<>> => x \in Contents BY <1>2
  <2> HIDE DEF x
  <2> QED BY <2>1
<1>5. ASSUME msg.keys # <<>>, SearchHit(n, m, x, left) PROVE Clean(stream')
  <2> DEFINE s == SessionOf(n, m)
             named == {session[n][p].peer : p \in (SessionIds \cap partners[n][x]) \ {s}} \ {NoNode}
             answer == Message("PARTNER", <<x>>, named)
  <2>1. m \notin named
    <3>1. SUFFICES ASSUME NEW p \in SessionIds, p # s, session[n][p].peer = m, m # NoNode
                   PROVE  FALSE
      OBVIOUS
    <3>2. s # 0 BY <3>1, NoneForPeer
    <3>3. s \in SessionIds /\ session[n][s].peer = m BY <3>2, SessionOfPeer
    <3> QED BY <1>1, <3>1, <3>3 DEF SessionInv
  <2>2. named \subseteq Nodes BY <1>1 DEF SessionInv
  <2>3. stream' = left \/ stream' = Sent(left, n, m, <<answer>>)
    BY <1>5 DEF SearchHit
  <2> HIDE DEF named, left, x
  <2>4. Proper(answer, m) BY <1>4, <1>5, <2>1, <2>2, MessageIsProper DEF Answers
  <2> HIDE DEF answer
  <2> QED BY <1>2, <1>3, <1>5, <2>3, <2>4
<1>6. ASSUME msg.keys # <<>>, SearchMiss(n, m, x, left) PROVE Clean(stream')
  <2> DEFINE t == Remember(n, x, m)[n]
             found == GetNode(t, Pid[n], x, m, Status(n))
             answer == Message("SEARCH_ACK", <<x>>, found)
  <2>1. m \notin found BY FoundIsNotAsker
  <2>2. found \subseteq Nodes
    <3>1. x \in Keys /\ Pid[n] \in Keys BY <1>4, <1>6, SearchAssumption
    <3>2. TableOfNodes(t) BY <3>1, RememberedIsNode DEF IInv, Tables
    <3> HIDE DEF t, x
    <3> QED BY <3>1, <3>2, FoundIsNode
  <2>3. stream' = left \/ stream' = Sent(left, n, m, <<answer>>)
    BY <1>6 DEF SearchMiss
  <2> HIDE DEF found, left, x
  <2>4. Proper(answer, m) BY <1>4, <1>6, <2>1, <2>2, MessageIsProper DEF Answers
  <2> HIDE DEF answer
  <2> QED BY <1>2, <1>3, <1>6, <2>3, <2>4
<1>7. \/ msg.keys # <<>> /\ SearchHit(n, m, x, left)
      \/ msg.keys # <<>> /\ SearchMiss(n, m, x, left)
      \/ stream' = Handled(n, m)
      \/ /\ n \in Peers
         /\ stream' = Sent(Handled(n, m), n, m, <<Message("REGISTER_ACK", NextCids(n), {})>>)
  BY DEF HandleSearchReq, msg, Nodes
<1>8. n \in Peers => Proper(Message("REGISTER_ACK", NextCids(n), {}), m)
  <2>1. n \in Peers => NextCids(n) \in Seq(Keys)
    BY NextCidsAreContents, ContentsAreKeys DEF IInv
  <2> QED BY <2>1, MessageIsProper
<1> HIDE DEF x, left
<1>9. Clean(stream') BY <1>2, <1>3, <1>5, <1>6, <1>7, <1>8
<1> QED BY <1>1, <1>9, SendingStep

LEMMA RegisterInv ==
    ASSUME IInv, NEW n \in Nodes, NEW m \in Nodes,
           HandleRegisterReq(n, m) \/ HandleRegisterAck(n, m)
    PROVE  Linked'
<1> DEFINE ack == Message("REGISTER_ACK", <<Pid[n]>>, {})
<1>1. /\ Clean(stream) /\ stream[m][n] # <<>> /\ session' = session
      /\ stream' = Handled(n, m) \/ stream' = Sent(Handled(n, m), n, m, <<ack>>)
  BY DEF IInv, Linked, HandleRegisterReq, HandleRegisterAck, Arrived, linkVars
<1>2. Proper(ack, m) BY PidIsKey, MessageIsProper
<1> HIDE DEF ack
<1>3. ProperQueue(<<ack>>, m) BY <1>2, OneIsProper
<1>4. Clean(stream') BY <1>1, <1>3, HandledIsClean, SentIsClean
<1> QED BY <1>1, <1>4, SendingStep

\* Whom n approaches was named in a message to n.
LEMMA NamedInv ==
    ASSUME IInv, NEW n \in Nodes, NEW m \in Nodes,
           HandleSearchAck(n, m) \/ HandlePartner(n, m)
    PROVE  Linked'
<1> DEFINE msg == Head(stream[m][n])
<1>1. Domains /\ SessionInv /\ Clean(stream) /\ stream[m][n] # <<>>
  BY DEF IInv, Linked, HandleSearchAck, HandlePartner, Arrived
<1>2. /\ Clean(Handled(n, m)) /\ Proper(msg, n)
      /\ \A p : Clean(LeftOver(n, m, [msg EXCEPT !.peers = @ \ {p}]))
      /\ msg.type \in Answers
  <2>1. Clean(Handled(n, m)) /\ Proper(msg, n) BY <1>1, HandledIsClean
  <2>2. msg.type \in Answers BY DEF HandleSearchAck, HandlePartner, Arrived, Answers
  <2> HIDE DEF msg
  <2>3. \A p : Proper([msg EXCEPT !.peers = @ \ {p}], n) BY <2>1, LeftIsProper
  <2>4. \A p : Clean(LeftOver(n, m, [msg EXCEPT !.peers = @ \ {p}]))
    BY <1>1, <2>3, HandledIsClean
  <2> QED BY <2>1, <2>2, <2>4
<1>3. ASSUME NEW p \in msg.peers, Approach(n, p, Head(msg.keys)),
             \/ stream' = Handled(n, m)
             \/ stream' = LeftOver(n, m, [msg EXCEPT !.peers = @ \ {p}])
      PROVE  Linked'
  <2>1. p \in Nodes \ {n} /\ Head(msg.keys) \in Contents
    <3> HIDE DEF msg
    <3>1. p \in Nodes \ {n} /\ msg.keys \in Seq(Contents) /\ msg.keys # <<>>
      BY <1>2, <1>3 DEF Proper
    <3> QED BY <3>1
  <2>2. Domains' /\ SessionInv' BY <1>1, <1>3, <2>1, ApproachInv
  <2>3. Clean(stream') BY <1>2, <1>3
  <2> QED BY <2>2, <2>3 DEF IInv, Linked
<1>4. CASE HandleSearchAck(n, m)
  <2>1. PICK p \in msg.peers :
            /\ stream' = IF msg.peers = {p} THEN Handled(n, m)
                         ELSE LeftOver(n, m, [msg EXCEPT !.peers = @ \ {p}])
            /\ Approach(n, p, Head(msg.keys))
    BY <1>4 DEF HandleSearchAck
  <2> QED BY <1>3, <2>1
<1>5. CASE HandlePartner(n, m)
  <2>1. CASE stream' = Handled(n, m) /\ session' = session
    BY <1>2, <2>1, SendingStep
  <2>2. CASE \E p \in msg.peers :
            /\ stream' = IF msg.peers = {p} THEN Handled(n, m)
                         ELSE LeftOver(n, m, [msg EXCEPT !.peers = @ \ {p}])
            /\ Approach(n, p, Head(msg.keys))
    <3>1. PICK p \in msg.peers :
            /\ stream' = IF msg.peers = {p} THEN Handled(n, m)
                         ELSE LeftOver(n, m, [msg EXCEPT !.peers = @ \ {p}])
            /\ Approach(n, p, Head(msg.keys))
      BY <2>2
    <3> QED BY <1>3, <3>1
  <2> QED BY <1>5, <2>1, <2>2 DEF HandlePartner
<1> QED BY <1>4, <1>5

LEMMA ListsStay ==
    ASSUME IInv, [Next]_vars
    PROVE  Lists'
<1>1. ASSUME NEW n \in Peers, TurnCids(n) PROVE Lists'
  <2> DEFINE list == cidList[n]
             turned == [i \in DOMAIN list |-> Rotated(list, i)]
  <2>1. list \in Seq(Contents) BY DEF IInv, Lists
  <2>2. cidList' = [cidList EXCEPT ![n] = turned] BY <1>1 DEF TurnCids
  <2> HIDE DEF list
  <2>3. turned \in Seq(Contents)
    <3>1. DOMAIN list = 1..Len(list) /\ Len(list) \in Nat BY <2>1
    <3>2. \A i \in 1..Len(list) : Rotated(list, i) \in Contents
      <4> SUFFICES ASSUME NEW i \in 1..Len(list) PROVE Rotated(list, i) \in Contents OBVIOUS
      <4>1. CidsPerMessage \in Nat BY SearchAssumption
      <4>2. PICK a \in Nat : a = i + CidsPerMessage - 1 BY <3>1, <4>1
      <4>3. Len(list) > 0 BY <3>1
      <4>4. a % Len(list) \in 0..(Len(list) - 1) BY <3>1, <4>2, <4>3
      <4>5. (a % Len(list)) + 1 \in 1..Len(list) BY <3>1, <4>4
      <4> QED BY <2>1, <4>2, <4>5 DEF Rotated
    <3> QED BY <3>1, <3>2
  <2> HIDE DEF turned
  <2> QED BY <2>2, <2>3 DEF IInv, Lists
<1>2. ASSUME NEW n \in Peers, NEW x \in Contents, AddCid(n, x) PROVE Lists'
  <2> DEFINE list == <<x>> \o cidList[n]
  <2>1. list \in Seq(Contents)
    <3>1. <<x>> \in Seq(Contents) /\ cidList[n] \in Seq(Contents) BY DEF IInv, Lists
    <3> QED BY <3>1
  <2>2. cidList' = [cidList EXCEPT ![n] = list] BY <1>2 DEF AddCid
  <2> HIDE DEF list
  <2> QED BY <2>1, <2>2 DEF IInv, Lists
<1>3. \/ cidList' = cidList
      \/ \E n \in Peers : TurnCids(n)
      \/ \E n \in Peers, x \in Contents : AddCid(n, x)
  <2>1. CASE UNCHANGED vars BY <2>1 DEF vars
  <2>2. ASSUME NEW n \in Nodes, NEW m \in Nodes, Handle(n, m)
        PROVE  cidList' = cidList \/ (n \in Peers /\ TurnCids(n))
    <3>1. CASE HandleSearchReq(n, m) BY <3>1 DEF HandleSearchReq, Nodes
    <3>2. CASE HandleSearchAck(n, m) \/ HandlePartner(n, m)
      BY <3>2 DEF HandleSearchAck, HandlePartner
    <3>3. CASE HandleRegisterReq(n, m) \/ HandleRegisterAck(n, m)
      BY <3>3 DEF HandleRegisterReq, HandleRegisterAck
    <3> QED BY <2>2, <3>1, <3>2, <3>3 DEF Handle
  <2>3. ASSUME NEW n \in Peers, Join(n) \/ SearchLoop(n)
        PROVE  cidList' = cidList \/ TurnCids(n)
    BY <2>3 DEF Join, SearchLoop
  <2>4. ASSUME NEW n \in Nodes, NEW s \in SessionIds,
               Connected(n, s) \/ SearchAtLast(n, s) \/ Close(n, s) \/ Recycle(n, s)
        PROVE  cidList' = cidList
    BY <2>4 DEF Connected, SearchAtLast, Close, Recycle
  <2>5. ASSUME NEW n \in Peers, NEW x \in Contents, AddContent(n, x) PROVE AddCid(n, x)
    BY <2>5 DEF AddContent
  <2>6. ASSUME NEW n \in Nodes, NEW m \in Nodes, Accept(n, m) PROVE cidList' = cidList
    BY <2>6 DEF Accept
  <2> QED BY <2>1, <2>2, <2>3, <2>4, <2>5, <2>6 DEF Next
<1>4. CASE cidList' = cidList BY <1>4 DEF IInv, Lists
<1> QED BY <1>1, <1>2, <1>3, <1>4

\* n hears of m: m speaks to n, or somebody names m, whom n then approaches.
Heard(n, m) ==
    \E k \in Nodes :
        /\ Handle(n, k)
        /\ \/ m = k
           \/ m \in Head(stream[k][n]).peers /\ \E x : Approach(n, m, x)

\* A table changes in one way: a node of which its owner has heard is added to it.
TableStep ==
    \/ table' = table
    \/ \E n, m \in Nodes : \E key \in Keys : table' = Remember(n, key, m) /\ Heard(n, m)

\* Every step adds one node to one table at most.
LEMMA TablesOnlyRemember ==
    ASSUME IInv, [Next]_vars
    PROVE  TableStep
<1>1. CASE UNCHANGED vars BY <1>1 DEF vars, TableStep
<1>2. ASSUME NEW n \in Nodes, NEW m \in Nodes, Handle(n, m) PROVE TableStep
  <2> DEFINE msg == Head(stream[m][n])
             x == Head(msg.keys)
  <2>1. Proper(msg, n)
    BY <1>2, HandledIsClean
    DEF IInv, Linked, Handle, HandleSearchReq, HandleSearchAck, HandlePartner,
        HandleRegisterReq, HandleRegisterAck, Arrived
  <2> HIDE DEF msg
  <2>2. msg.keys # <<>> => x \in Keys
    <3>1. msg.keys \in Seq(Keys) BY <2>1 DEF Proper
    <3> HIDE DEF Keys
    <3> QED BY <3>1
  <2>3. msg.type \in Answers \cup {"REGISTER_REQ"} => msg.keys # <<>> BY <2>1 DEF Proper
  <2> HIDE DEF x
  <2>4. Heard(n, m) BY <1>2 DEF Heard
  <2>5. CASE HandleSearchReq(n, m)
    <3>1. table' = table \/ (msg.keys # <<>> /\ table' = Remember(n, x, m))
      BY <2>5 DEF HandleSearchReq, SearchHit, SearchMiss, x, msg
    <3> QED BY <2>2, <2>4, <3>1 DEF TableStep
  <2>6. CASE HandleSearchAck(n, m)
    <3>1. PICK p \in msg.peers : /\ table' = table \/ table' = Remember(n, x, p)
                                 /\ Approach(n, p, x)
      BY <2>6 DEF HandleSearchAck, x, msg
    <3>2. p \in Nodes /\ Heard(n, p) BY <1>2, <2>1, <3>1 DEF Proper, Heard, msg
    <3>3. msg.type \in Answers BY <2>6 DEF HandleSearchAck, Arrived, Answers, msg
    <3> QED BY <2>2, <2>3, <3>1, <3>2, <3>3 DEF TableStep
  <2>7. CASE HandlePartner(n, m) BY <2>7 DEF HandlePartner, TableStep
  <2>8. CASE HandleRegisterReq(n, m)
    <3>1. table' = Remember(n, x, m) /\ msg.type = "REGISTER_REQ"
      BY <2>8 DEF HandleRegisterReq, Arrived, x, msg
    <3> QED BY <2>2, <2>3, <2>4, <3>1 DEF TableStep
  <2>9. CASE HandleRegisterAck(n, m)
    <3>1. PICK key \in IF msg.keys = <<>> THEN Keys ELSE {x} : table' = Remember(n, key, m)
      BY <2>9 DEF HandleRegisterAck, x, msg
    <3>2. key \in Keys BY <2>2
    <3> QED BY <2>4, <3>1, <3>2, Zenon DEF TableStep
  <2> QED BY <1>2, <2>5, <2>6, <2>7, <2>8, <2>9, Zenon DEF Handle
<1>3. ASSUME NEW n \in Peers, Join(n) \/ SearchLoop(n) PROVE TableStep
  BY <1>3 DEF Join, SearchLoop, TableStep
<1>4. ASSUME NEW n \in Nodes, NEW s \in SessionIds,
             Connected(n, s) \/ SearchAtLast(n, s) \/ Close(n, s) \/ Recycle(n, s)
      PROVE  TableStep
  BY <1>4 DEF Connected, SearchAtLast, Close, Recycle, TableStep
<1>5. ASSUME NEW n \in Peers, NEW x \in Contents, AddContent(n, x) PROVE TableStep
  BY <1>5 DEF AddContent, TableStep
<1>6. ASSUME NEW n \in Nodes, NEW m \in Nodes, Accept(n, m) PROVE TableStep
  BY <1>6 DEF Accept, TableStep
<1> QED BY <1>1, <1>2, <1>3, <1>4, <1>5, <1>6 DEF Next

LEMMA NextInv == IInv /\ [Next]_vars => IInv'
<1> SUFFICES ASSUME IInv, [Next]_vars PROVE IInv' OBVIOUS
<1>1. Peers \subseteq Nodes BY DEF Nodes
<1>2. ASSUME UNCHANGED vars PROVE Linked'
  <2>1. session' = session /\ stream' = stream /\ Clean(stream)
    BY <1>2 DEF vars, linkVars, IInv, Linked
  <2>2. Clean(stream') BY <2>1
  <2> QED BY <2>1, <2>2, SendingStep
<1>3. ASSUME NEW n \in Nodes, NEW m \in Nodes, Handle(n, m) PROVE Linked'
  BY <1>3, SearchReqInv, RegisterInv, NamedInv DEF Handle
<1>4. Linked' BY <1>1, <1>2, <1>3, SessionStepsInv, SearchingInv DEF Next
<1>5. Tables(table)'
  <2>1. TableStep BY TablesOnlyRemember
  <2> QED BY <2>1, RememberedIsNode DEF TableStep, IInv
<1> QED BY <1>4, <1>5, ListsStay DEF IInv

\* No node has a session with its own address, however it came by that
\* (handle_routing_search_ack and handle_routing_partner connect to whomever
\* they are told of): whatever a node answers, it does not name the asker.
THEOREM NobodyMeetsHimself == Spec => []NotWithItself
<1>1. IInv => NotWithItself
  <2> SUFFICES ASSUME IInv, NEW n \in Nodes, SessionOf(n, n) # 0 PROVE FALSE
    BY DEF NotWithItself
  <2>1. SessionOf(n, n) \in SessionIds /\ session[n][SessionOf(n, n)].peer = n
    BY SessionOfPeer
  <2>2. NoNode \notin Nodes BY NoNodeIsNone
  <2> QED BY <2>1, <2>2 DEF IInv, Linked, SessionInv
<1> QED BY <1>1, InitInv, NextInv, PTL DEF Spec

\* k_bucket.h: a node leaves the routing table only when its peer has
\* disconnected.  Whatever the keys are, a node is compared, in its own
\* bucket, with one of a known peer, which is never BAD.
THEOREM GoodNodesAreKept == Spec => GoodNodesKept
<1>1. ASSUME IInv, [Next]_vars, NEW n \in Nodes,
             NEW e \in NodesIn(table[n]) \ NodesIn(table'[n])
      PROVE  Status(n)[e.peer] # GOOD
  <2>1. TableStep /\ Tables(table) BY <1>1, TablesOnlyRemember DEF IInv
  <2> QED BY <1>1, <2>1, RememberedIsNode DEF TableStep
<1>2. IInv /\ [Next]_vars => [\A n \in Nodes : table'[n] # table[n] =>
          \A e \in NodesIn(table[n]) \ NodesIn(table'[n]) : Status(n)[e.peer] # GOOD]_vars
  BY <1>1
<1> QED BY <1>2, InitInv, NextInv, PTL DEF Spec, GoodNodesKept


-----------------------------------------------------------------------------
(* Lists without repetitions.                                                *)

\* A list without repetitions: without its first element, ...
LEMMA TailIsDistinct ==
    ASSUME NEW S, NEW q \in Seq(S), q # <<>>, IsInjective(q)
    PROVE  /\ Tail(q) \in Seq(S) /\ IsInjective(Tail(q))
           /\ Head(q) \in Listed(q) /\ Listed(q) \subseteq S
           /\ Listed(Tail(q)) \subseteq Listed(q) \ {Head(q)}
<1>1. /\ Tail(q) \in Seq(S) /\ Head(q) = q[1] /\ Len(q) \in Nat /\ Len(q) > 0
      /\ DOMAIN q = 1..Len(q) /\ DOMAIN Tail(q) = 1..(Len(q) - 1)
      /\ \A i \in 1..(Len(q) - 1) : Tail(q)[i] = q[i + 1]
  OBVIOUS
<1>2. \A i \in 1..(Len(q) - 1) : i + 1 \in DOMAIN q /\ i + 1 # 1 BY <1>1
<1>3. \A i, j \in 1..(Len(q) - 1) : i + 1 = j + 1 => i = j BY <1>1
<1>4. IsInjective(Tail(q)) BY <1>1, <1>2, <1>3 DEF IsInjective
<1>5. 1 \in DOMAIN q BY <1>1
<1>6. \A i \in DOMAIN q : q[i] \in S OBVIOUS
<1> QED BY <1>1, <1>2, <1>4, <1>5, <1>6 DEF IsInjective, Listed

\* ... with a new one at the end, ...
LEMMA AppendIsDistinct ==
    ASSUME NEW S, NEW q \in Seq(S), NEW x \in S, IsInjective(q), x \notin Listed(q)
    PROVE  /\ Append(q, x) \in Seq(S) /\ IsInjective(Append(q, x))
           /\ Listed(Append(q, x)) = Listed(q) \cup {x}
<1> DEFINE r == Append(q, x)
<1>1. /\ r \in Seq(S) /\ Len(q) \in Nat /\ DOMAIN q = 1..Len(q) /\ DOMAIN r = 1..(Len(q) + 1)
      /\ r[Len(q) + 1] = x /\ \A i \in 1..Len(q) : r[i] = q[i]
  OBVIOUS
<1> HIDE DEF r
<1>2. DOMAIN r = DOMAIN q \cup {Len(q) + 1} BY <1>1
<1>3. Listed(r) = Listed(q) \cup {x} BY <1>1, <1>2 DEF Listed
<1>4. IsInjective(r) BY <1>1, <1>2 DEF IsInjective, Listed
<1> QED BY <1>1, <1>3, <1>4 DEF r

\* ... with a new one in front; ...
LEMMA FrontIsDistinct ==
    ASSUME NEW S, NEW q \in Seq(S), NEW x \in S, IsInjective(q), x \notin Listed(q)
    PROVE  /\ IsInjective(<<x>> \o q)
           /\ Listed(<<x>> \o q) = Listed(q) \cup {x}
<1> DEFINE r == <<x>> \o q
<1>1. /\ Len(q) \in Nat /\ DOMAIN q = 1..Len(q) /\ DOMAIN r = 1..(Len(q) + 1)
      /\ r[1] = x /\ \A i \in 2..(Len(q) + 1) : r[i] = q[i - 1]
  OBVIOUS
<1> HIDE DEF r
<1>2. \A i \in DOMAIN r : i = 1 \/ (i \in 2..(Len(q) + 1) /\ i - 1 \in DOMAIN q) BY <1>1
<1>3. 1 \in DOMAIN r /\ \A i \in DOMAIN q : i + 1 \in 2..(Len(q) + 1) /\ i + 1 \in DOMAIN r /\ i + 1 - 1 = i
  BY <1>1
<1>4. \A i, j \in 2..(Len(q) + 1) : i - 1 = j - 1 => i = j BY <1>1
<1>5. Listed(r) = Listed(q) \cup {x}
  <2>1. ASSUME NEW y \in Listed(r) PROVE y \in Listed(q) \cup {x}
    BY <1>1, <1>2, <2>1 DEF Listed
  <2>2. ASSUME NEW i \in DOMAIN q PROVE q[i] \in Listed(r)
    <3>1. r[i + 1] = q[i] /\ i + 1 \in DOMAIN r BY <1>1, <1>3
    <3> QED BY <3>1 DEF Listed
  <2>3. x \in Listed(r) BY <1>1, <1>3 DEF Listed
  <2> QED BY <2>1, <2>2, <2>3 DEF Listed
<1>6. IsInjective(r)
  <2> SUFFICES ASSUME NEW i \in DOMAIN r, NEW j \in DOMAIN r, r[i] = r[j] PROVE i = j
    BY DEF IsInjective
  <2>1. CASE i = 1 \/ j = 1 BY <1>1, <1>2, <2>1 DEF Listed
  <2>2. CASE i # 1 /\ j # 1 BY <1>1, <1>2, <1>4, <2>2 DEF IsInjective
  <2> QED BY <2>1, <2>2
<1> QED BY <1>5, <1>6 DEF r

\* ... and as long as its elements are many.
LEMMA LenIsCardinality ==
    ASSUME NEW S, NEW q \in Seq(S), IsInjective(q)
    PROVE  Len(q) = Cardinality(Listed(q))
<1>1. Len(q) \in Nat /\ q \in [1..Len(q) -> Listed(q)] /\ DOMAIN q = 1..Len(q)
  BY DEF Listed
<1>2. q \in Bijection(1..Len(q), Listed(q))
  BY <1>1 DEF Bijection, Injection, Surjection, Listed
<1>3. IsFiniteSet(1..Len(q)) /\ Cardinality(1..Len(q)) = Len(q) BY <1>1, FS_Interval
<1>4. ExistsBijection(1..Len(q), Listed(q)) BY <1>2 DEF ExistsBijection
<1> QED BY <1>3, <1>4, FS_Bijection

\* Numbers less than l apart that leave the same rest are equal.
LEMMA SameRest ==
    ASSUME NEW l \in Nat, l > 0, NEW a \in Int, NEW b \in Int, a - b < l, b - a < l,
           a % l = b % l
    PROVE  a = b
<1>1. PICK p \in Int : p = a \div l OBVIOUS
<1>2. PICK q \in Int : q = b \div l OBVIOUS
<1>3. PICK r \in Int : r = a % l OBVIOUS
<1>4. a = l * p + r /\ b = l * q + r BY <1>1, <1>2, <1>3
<1>5. a - b = l * (p - q) BY <1>4
<1>6. CASE p - q >= 1
  <2>1. l * (p - q) >= l BY <1>6
  <2> QED BY <1>5, <2>1
<1>7. CASE q - p >= 1
  <2>1. l * (q - p) >= l BY <1>7
  <2>2. b - a = l * (q - p) BY <1>4
  <2> QED BY <2>1, <2>2
<1>8. CASE p = q BY <1>4, <1>8
<1> QED BY <1>6, <1>7, <1>8

\* get_cid turns the list: the same contents are in it, each once.
LEMMA TurnedIsDistinct ==
    ASSUME NEW S, NEW list \in Seq(S), IsInjective(list), NEW t,
           t = [i \in DOMAIN list |-> Rotated(list, i)]
    PROVE  IsInjective(t) /\ Listed(t) = Listed(list)
<1> DEFINE l == Len(list)
           c == CidsPerMessage
           sh == [i \in 1..l |-> ((i + c - 1) % l) + 1]
<1>1. l \in Nat /\ DOMAIN list = 1..l /\ c \in Nat /\ DOMAIN t = 1..l
  BY SearchAssumption
<1>2. \A i \in 1..l : t[i] = list[sh[i]] BY <1>1 DEF Rotated
<1> HIDE DEF l, c
<1>3. sh \in Injection(1..l, 1..l)
  <2>1. ASSUME NEW i \in 1..l PROVE ((i + c - 1) % l) \in 0..(l - 1)
    <3>1. PICK a \in Int : a = i + c - 1 BY <1>1
    <3>2. l > 0 BY <1>1
    <3> QED BY <1>1, <3>1, <3>2
  <2>2. ASSUME NEW i \in 1..l PROVE ((i + c - 1) % l) + 1 \in 1..l
    <3>1. PICK r \in Int : r = (i + c - 1) % l BY <2>1
    <3> QED BY <1>1, <2>1, <3>1
  <2>3. sh \in [1..l -> 1..l] BY <2>2
  <2>4. ASSUME NEW i \in 1..l, NEW j \in 1..l, sh[i] = sh[j] PROVE i = j
    <3>1. PICK a \in Int : a = i + c - 1 BY <1>1
    <3>2. PICK b \in Int : b = j + c - 1 BY <1>1
    <3>3. l > 0 /\ a - b < l /\ b - a < l BY <1>1, <3>1, <3>2
    <3>4. a % l \in Int /\ b % l \in Int BY <1>1, <3>3
    <3>5. (a % l) + 1 = (b % l) + 1 BY <2>4, <3>1, <3>2
    <3>6. a % l = b % l BY <3>4, <3>5
    <3>7. a = b BY <1>1, <3>3, <3>6, SameRest
    <3> QED BY <1>1, <3>1, <3>2, <3>7
  <2> HIDE DEF sh
  <2>5. \A i, j \in DOMAIN sh : sh[i] = sh[j] => i = j BY <2>3, <2>4
  <2> QED BY <2>3, <2>5 DEF Injection, IsInjective
<1> HIDE DEF sh
<1>4. sh \in Surjection(1..l, 1..l)
  <2>1. IsFiniteSet(1..l) BY <1>1, FS_Interval
  <2> QED BY <1>3, <2>1, FS_Injection
<1>5. /\ \A i \in 1..l : sh[i] \in 1..l
      /\ \A i, j \in 1..l : sh[i] = sh[j] => i = j
      /\ \A k \in 1..l : \E i \in 1..l : sh[i] = k
  BY <1>3, <1>4 DEF Injection, Surjection, IsInjective
<1>6. IsInjective(t)
  <2> SUFFICES ASSUME NEW i \in 1..l, NEW j \in 1..l, t[i] = t[j] PROVE i = j
    BY <1>1 DEF IsInjective
  <2>1. list[sh[i]] = list[sh[j]] BY <1>2
  <2>2. sh[i] = sh[j] BY <1>1, <1>5, <2>1 DEF IsInjective
  <2> QED BY <1>5, <2>2
<1>7. Listed(t) = Listed(list)
  <2>1. ASSUME NEW i \in 1..l PROVE t[i] \in Listed(list)
    <3>1. sh[i] \in DOMAIN list /\ t[i] = list[sh[i]] BY <1>1, <1>2, <1>5
    <3> QED BY <3>1 DEF Listed
  <2>2. ASSUME NEW k \in 1..l PROVE list[k] \in Listed(t)
    <3>1. PICK i \in 1..l : sh[i] = k BY <1>5
    <3>2. t[i] = list[k] BY <1>2, <3>1
    <3> QED BY <1>1, <3>2 DEF Listed
  <2> QED BY <1>1, <2>1, <2>2 DEF Listed
<1> QED BY <1>6, <1>7

-----------------------------------------------------------------------------
(* The session ids.                                                          *)

InUse(n) == {s \in SessionIds : session[n][s].peer # NoNode}

\* An id is with a session, cooling or in the queue, and once, if it was given out.
IdsApart(n) ==
    /\ IsInjective(idQueue[n])
    /\ InUse(n) \cap cooling[n] = {}
    /\ Listed(idQueue[n]) \cap (InUse(n) \cup cooling[n]) = {}
    /\ \A s \in InUse(n) \cup cooling[n] \cup Listed(idQueue[n]) : s <= sessionNum[n]

SessionRecord == [peer : Nodes \cup {NoNode}, up : BOOLEAN, cid : Contents \cup {NoNode}]

IdInv ==
    /\ session \in [Nodes -> [SessionIds -> SessionRecord]]
    /\ sessionNum \in [Nodes -> 0..SessionCapacity]
    /\ idQueue \in [Nodes -> Seq(SessionIds)]
    /\ cooling \in [Nodes -> SUBSET SessionIds]
    /\ \A n \in Nodes : IdsApart(n)

\* What is on the way has a session that takes it: add_partner is never told 0.
LiveStreams == \A n, m \in Nodes : stream[m][n] # <<>> => SessionOf(n, m) # 0

\* A content of the partner table is in the list, once.
CidInv ==
    /\ DOMAIN partners = Peers
    /\ \A n \in Peers :
         /\ IsInjective(cidList[n])
         /\ partners[n] \in [Listed(cidList[n]) -> SUBSET SessionIds]

RestInv ==
    /\ toRegister \in [Peers -> Seq(SessionIds)]
    /\ joined \subseteq Peers
    /\ early \in [Peers -> SUBSET Contents]
    /\ closes \in 0..MaxCloses

Types == IdInv /\ LiveStreams /\ CidInv /\ RestInv

LEMMA InitTypes == Init => Types
<1> SUFFICES ASSUME Init PROVE Types OBVIOUS
<1>1. NoSession \in SessionRecord /\ NoSession.peer = NoNode BY DEF NoSession, SessionRecord
<1> DEFINE q == <<>>
<1>2. q \in Seq(SessionIds) /\ IsInjective(q) /\ Listed(q) = {} BY DEF IsInjective, Listed
<1> HIDE DEF q
<1>3. IdInv
  <2>1. /\ session = [n \in Nodes |-> [s \in SessionIds |-> NoSession]]
        /\ sessionNum = [n \in Nodes |-> 0] /\ idQueue = [n \in Nodes |-> q]
        /\ cooling = [n \in Nodes |-> {}]
    BY DEF Init, q
  <2>2. 0 \in 0..SessionCapacity BY SearchAssumption
  <2>3. \A n \in Nodes : InUse(n) = {} BY <1>1, <2>1 DEF InUse
  <2>4. \A n \in Nodes : IdsApart(n) BY <1>2, <2>1, <2>3 DEF IdsApart
  <2> QED BY <1>1, <1>2, <2>1, <2>2, <2>4 DEF IdInv
<1>4. LiveStreams BY DEF Init, LiveStreams
<1>5. CidInv
  <2>1. /\ DOMAIN partners = Peers /\ cidList = Loaded
        /\ \A n \in Peers : partners[n] = [x \in Listed(Loaded[n]) |-> {}]
    BY DEF Init
  <2>2. \A n \in Peers : IsInjective(Loaded[n]) BY SearchAssumption
  <2> QED BY <2>1, <2>2 DEF CidInv
<1>6. RestInv
  <2>1. 0 \in 0..MaxCloses BY SearchAssumption
  <2> QED BY <1>2, <2>1 DEF Init, RestInv, q
<1> QED BY <1>3, <1>4, <1>5, <1>6 DEF Types

\* The list of the contents has them all, once each.
LEMMA TypesGiveTypeOK == IInv /\ Types => TypeOK
<1> SUFFICES ASSUME IInv, Types PROVE TypeOK OBVIOUS
<1>1. ASSUME NEW n \in Peers
      PROVE  /\ Interested(n) = Listed(cidList[n])
             /\ Len(cidList[n]) = Cardinality(Listed(cidList[n]))
  <2>1. cidList[n] \in Seq(Contents) /\ IsInjective(cidList[n]) BY DEF IInv, Lists, Types, CidInv
  <2>2. Interested(n) = Listed(cidList[n]) BY DEF Interested, Types, CidInv
  <2> QED BY <2>1, <2>2, LenIsCardinality
<1>2. ASSUME NEW n \in Nodes PROVE NodesIn(table[n]) \subseteq [key : Keys, peer : Nodes]
  <2> DEFINE M == [key : Keys, peer : Nodes]
  <2>1. \A b \in DOMAIN table[n] : table[n][b] \in Seq(M)
    BY DEF IInv, Tables, TableOfNodes, OfNodes
  <2> HIDE DEF M
  <2>2. NodesIn(table[n]) \subseteq M BY <2>1 DEF NodesIn
  <2> QED BY <2>2 DEF M
<1> QED BY <1>1, <1>2 DEF TypeOK, Types, IdInv, CidInv, RestInv, SessionRecord

-----------------------------------------------------------------------------
(* What the actions do to sessions and ids.                                  *)

\* Peers stay with their sessions.
PeersStay ==
    \A o \in Nodes, s \in SessionIds :
        session[o][s].peer \in Nodes => session'[o][s].peer = session[o][s].peer

OnlyFields ==
    /\ UNCHANGED <<idVars, closes>>
    /\ \/ session' = session
       \/ \E n \in Nodes, k \in SessionIds : session' = [session EXCEPT ![n][k].up = TRUE]
       \/ \E n \in Nodes, k \in SessionIds : session' = [session EXCEPT ![n][k].cid = NoNode]

Opens ==
    \E n, m \in Nodes : \E up \in BOOLEAN, cid \in Contents \cup {NoNode} :
        OpenSession(n, m, up, cid)

LinkStep ==
    \/ OnlyFields \/ Opens
    \/ \E n \in Nodes, s \in SessionIds : Close(n, s) \/ Recycle(n, s)

\* Ids: a step that changes what a session says, not whose it is; ...
LEMMA OnlyFieldsKeep ==
    ASSUME IdInv, OnlyFields
    PROVE  IdInv' /\ PeersStay
<1>1. /\ session' \in [Nodes -> [SessionIds -> SessionRecord]]
      /\ \A o \in Nodes, s \in SessionIds : session'[o][s].peer = session[o][s].peer
  <2>1. CASE session' = session BY <2>1 DEF IdInv
  <2>2. ASSUME NEW n \in Nodes, NEW k \in SessionIds, NEW new \in SessionRecord,
               session' = [session EXCEPT ![n] = [session[n] EXCEPT ![k] = new]],
               new.peer = session[n][k].peer
        PROVE  /\ session' \in [Nodes -> [SessionIds -> SessionRecord]]
               /\ \A o \in Nodes, s \in SessionIds : session'[o][s].peer = session[o][s].peer
    BY <2>2 DEF IdInv
  <2>3. ASSUME NEW n \in Nodes, NEW k \in SessionIds,
               \/ session' = [session EXCEPT ![n][k].up = TRUE]
               \/ session' = [session EXCEPT ![n][k].cid = NoNode]
        PROVE  \E new \in SessionRecord :
                   /\ session' = [session EXCEPT ![n] = [session[n] EXCEPT ![k] = new]]
                   /\ new.peer = session[n][k].peer
    <3>1. session[n][k] \in SessionRecord BY DEF IdInv
    <3>2. CASE session' = [session EXCEPT ![n][k].up = TRUE]
      <4> DEFINE new == [session[n][k] EXCEPT !.up = TRUE]
      <4>1. new \in SessionRecord /\ new.peer = session[n][k].peer BY <3>1 DEF SessionRecord
      <4>2. session' = [session EXCEPT ![n] = [session[n] EXCEPT ![k] = new]]
        BY <3>2
      <4> QED BY <4>1, <4>2
    <3>3. CASE session' = [session EXCEPT ![n][k].cid = NoNode]
      <4> DEFINE new == [session[n][k] EXCEPT !.cid = NoNode]
      <4>1. new \in SessionRecord /\ new.peer = session[n][k].peer BY <3>1 DEF SessionRecord
      <4>2. session' = [session EXCEPT ![n] = [session[n] EXCEPT ![k] = new]]
        BY <3>3
      <4> QED BY <4>1, <4>2
    <3> QED BY <2>3, <3>2, <3>3
  <2> QED BY <2>1, <2>2, <2>3 DEF OnlyFields
<1>2. \A n \in Nodes : InUse(n)' = InUse(n) BY <1>1 DEF InUse
<1>3. IdInv' BY <1>1, <1>2 DEF IdInv, IdsApart, OnlyFields, idVars
<1> QED BY <1>1, <1>3 DEF PeersStay

\* ... a new session takes an id from the queue or counts one out; ...
LEMMA OpensKeeps ==
    ASSUME IdInv, NEW n \in Nodes, NEW m \in Nodes, NEW up \in BOOLEAN,
           NEW cid \in Contents \cup {NoNode}, OpenSession(n, m, up, cid)
    PROVE  IdInv' /\ PeersStay
<1> DEFINE k == NextId(n)
           new == [peer |-> m, up |-> up, cid |-> cid]
           q == idQueue[n]
<1>1. /\ session' = IF k = 0 THEN session ELSE [session EXCEPT ![n] = [session[n] EXCEPT ![k] = new]]
      /\ idQueue' = IF k = 0 \/ q = <<>> THEN idQueue ELSE [idQueue EXCEPT ![n] = Tail(q)]
      /\ sessionNum' = IF k = 0 \/ q # <<>> THEN sessionNum ELSE [sessionNum EXCEPT ![n] = k]
      /\ cooling' = cooling
  BY DEF OpenSession
<1>2. /\ q \in Seq(SessionIds) /\ IsInjective(q) /\ sessionNum[n] \in Nat
      /\ SessionCapacity \in Nat /\ IdsApart(n) /\ new \in SessionRecord /\ new.peer = m
  BY SearchAssumption DEF IdInv, IdsApart, SessionRecord
<1>3. q # <<>> =>
        /\ k = Head(q) /\ k \in SessionIds /\ k \in Listed(q)
        /\ Tail(q) \in Seq(SessionIds) /\ IsInjective(Tail(q))
        /\ Listed(Tail(q)) \subseteq Listed(q) \ {k}
  <2>1. q # <<>> => k = Head(q) BY DEF NextId
  <2> HIDE DEF q, k
  <2> QED BY <1>2, <2>1, TailIsDistinct
<1>4. q = <<>> => k = 0 \/ (k = sessionNum[n] + 1 /\ sessionNum[n] < SessionCapacity)
  BY DEF NextId
<1>5. q = <<>> => Listed(q) = {} BY DEF Listed
<1> HIDE DEF k, new
<1>6. CASE k = 0
  <2>1. \A o \in Nodes : InUse(o)' = InUse(o) BY <1>1, <1>6 DEF InUse
  <2> QED BY <1>1, <1>6, <2>1 DEF IdInv, IdsApart, PeersStay
<1>7. CASE k # 0
  <2>1. k \in SessionIds /\ k \notin InUse(n) \cup cooling[n]
    <3>1. CASE q # <<>> BY <1>2, <1>3, <3>1 DEF IdsApart
    <3>2. CASE q = <<>>
      <4>1. k = sessionNum[n] + 1 /\ k \in SessionIds BY <1>2, <1>4, <1>7, <3>2 DEF SessionIds
      <4>2. ~(k <= sessionNum[n]) BY <1>2, <4>1
      <4> QED BY <1>2, <4>1, <4>2 DEF IdsApart
    <3> QED BY <3>1, <3>2
  <2>2. /\ session' \in [Nodes -> [SessionIds -> SessionRecord]]
        /\ \A o \in Nodes, s \in SessionIds :
               session'[o][s] = IF o = n /\ s = k THEN new ELSE session[o][s]
    BY <1>1, <1>2, <1>7, <2>1 DEF IdInv
  <2>3. session[n][k].peer = NoNode BY <2>1 DEF InUse
  <2>4. PeersStay BY <2>2, <2>3, NoNodeIsNone DEF PeersStay
  <2>5. /\ InUse(n)' \subseteq InUse(n) \cup {k}
        /\ \A o \in Nodes : o # n => InUse(o)' = InUse(o)
    BY <2>2 DEF InUse
  <2>6. /\ idQueue' \in [Nodes -> Seq(SessionIds)]
        /\ \A o \in Nodes : o # n => idQueue'[o] = idQueue[o]
        /\ IsInjective(idQueue'[n]) /\ Listed(idQueue'[n]) \subseteq Listed(q) \ {k}
    <3>1. CASE q # <<>> BY <1>1, <1>3, <1>7, <3>1 DEF IdInv
    <3>2. CASE q = <<>>
      <4>1. idQueue' = idQueue /\ Listed(idQueue'[n]) = {} BY <1>1, <1>5, <3>2
      <4> QED BY <1>2, <4>1 DEF IdInv
    <3> QED BY <3>1, <3>2
  <2>7. /\ sessionNum' \in [Nodes -> 0..SessionCapacity]
        /\ \A o \in Nodes : o # n => sessionNum'[o] = sessionNum[o]
        /\ k <= sessionNum'[n] /\ sessionNum[n] <= sessionNum'[n] /\ sessionNum'[n] \in Nat
    <3>1. CASE q # <<>>
      <4>1. k <= sessionNum[n] BY <1>2, <1>3, <3>1 DEF IdsApart
      <4> QED BY <1>1, <1>2, <3>1, <4>1 DEF IdInv
    <3>2. CASE q = <<>>
      <4>1. k \in 0..SessionCapacity /\ k = sessionNum[n] + 1 BY <1>2, <1>4, <1>7, <3>2
      <4> QED BY <1>1, <1>2, <1>7, <3>2, <4>1 DEF IdInv
    <3> QED BY <3>1, <3>2
  <2>8. IdsApart(n)'
    <3>1. InUse(n)' \cap cooling'[n] = {} BY <1>1, <1>2, <2>1, <2>5 DEF IdsApart
    <3>2. Listed(idQueue'[n]) \cap (InUse(n)' \cup cooling'[n]) = {}
      BY <1>1, <1>2, <2>5, <2>6 DEF IdsApart
    <3>3. ASSUME NEW s \in InUse(n)' \cup cooling'[n] \cup Listed(idQueue'[n])
          PROVE  s <= sessionNum'[n]
      <4>1. s = k \/ s \in InUse(n) \cup cooling[n] \cup Listed(q) BY <1>1, <2>5, <2>6
      <4>2. s = k \/ (s <= sessionNum[n] /\ s \in Nat)
        <5>1. InUse(n) \cup cooling[n] \cup Listed(q) \subseteq SessionIds
          BY <1>2 DEF InUse, IdInv, Listed
        <5> QED BY <1>2, <4>1, <5>1 DEF IdsApart, SessionIds
      <4> QED BY <1>2, <2>7, <4>2
    <3> QED BY <2>6, <3>1, <3>2, <3>3 DEF IdsApart
  <2>9. ASSUME NEW o \in Nodes, o # n PROVE IdsApart(o)'
    BY <1>1, <2>5, <2>6, <2>7, <2>9 DEF IdInv, IdsApart
  <2>10. IdInv' BY <1>1, <2>2, <2>6, <2>7, <2>8, <2>9 DEF IdInv
  <2> QED BY <2>4, <2>10
<1> QED BY <1>6, <1>7

\* ... a closed one has its id cooling; ...
LEMMA CloseKeeps ==
    ASSUME IdInv, NEW n \in Nodes, NEW s \in SessionIds, Close(n, s)
    PROVE  IdInv'
<1>1. /\ session' = [session EXCEPT ![n] = [session[n] EXCEPT ![s] = NoSession]]
      /\ cooling' = [cooling EXCEPT ![n] = cooling[n] \cup {s}]
      /\ sessionNum' = sessionNum /\ idQueue' = idQueue /\ s \in InUse(n)
  BY DEF Close, InUse
<1>2. NoSession \in SessionRecord /\ NoSession.peer = NoNode BY DEF NoSession, SessionRecord
<1>3. /\ session' \in [Nodes -> [SessionIds -> SessionRecord]]
      /\ \A o \in Nodes, t \in SessionIds :
             session'[o][t] = IF o = n /\ t = s THEN NoSession ELSE session[o][t]
      /\ cooling' \in [Nodes -> SUBSET SessionIds]
      /\ \A o \in Nodes : cooling'[o] = IF o = n THEN cooling[n] \cup {s} ELSE cooling[o]
  BY <1>1, <1>2 DEF IdInv
<1>4. \A o \in Nodes : InUse(o)' = IF o = n THEN InUse(n) \ {s} ELSE InUse(o)
  BY <1>2, <1>3 DEF InUse
<1>5. \A o \in Nodes : IdsApart(o)' BY <1>1, <1>3, <1>4 DEF IdInv, IdsApart
<1> QED BY <1>1, <1>3, <1>5 DEF IdInv

\* ... and a recycled id is in the queue.
LEMMA RecycleKeeps ==
    ASSUME IdInv, NEW n \in Nodes, NEW s \in SessionIds, Recycle(n, s)
    PROVE  IdInv' /\ PeersStay
<1> DEFINE q == Append(idQueue[n], s)
<1>1. /\ session' = session /\ s \in cooling[n]
      /\ cooling' = [cooling EXCEPT ![n] = cooling[n] \ {s}]
      /\ sessionNum' = sessionNum /\ idQueue' = [idQueue EXCEPT ![n] = q]
  BY DEF Recycle
<1>2. q \in Seq(SessionIds) /\ IsInjective(q) /\ Listed(q) = Listed(idQueue[n]) \cup {s}
  <2>1. idQueue[n] \in Seq(SessionIds) /\ IsInjective(idQueue[n]) /\ s \notin Listed(idQueue[n])
    BY <1>1 DEF IdInv, IdsApart
  <2> QED BY <2>1, AppendIsDistinct
<1> HIDE DEF q
<1>3. /\ cooling' \in [Nodes -> SUBSET SessionIds]
      /\ \A o \in Nodes : cooling'[o] = IF o = n THEN cooling[n] \ {s} ELSE cooling[o]
      /\ idQueue' \in [Nodes -> Seq(SessionIds)]
      /\ \A o \in Nodes : idQueue'[o] = IF o = n THEN q ELSE idQueue[o]
  BY <1>1, <1>2 DEF IdInv
<1>4. \A o \in Nodes : InUse(o)' = InUse(o) BY <1>1 DEF InUse
<1>5. \A o \in Nodes : IdsApart(o)' BY <1>1, <1>2, <1>3, <1>4 DEF IdInv, IdsApart
<1> QED BY <1>1, <1>3, <1>5 DEF IdInv, PeersStay

\* Every action is one of these for the sessions.
LEMMA ActionsLink == ASSUME IInv, Types, [Next]_vars PROVE LinkStep
<1>1. \A n, m \in Nodes : \A x \in Contents \cup {NoNode} : Approach(n, m, x) => LinkStep
  BY DEF Approach, LinkStep, OnlyFields, Opens
<1>2. CASE UNCHANGED <<session, idVars, closes>> BY <1>2 DEF LinkStep, OnlyFields
<1>3. ASSUME NEW n \in Nodes, NEW m \in Nodes, Handle(n, m) PROVE LinkStep
  <2> DEFINE msg == Head(stream[m][n])
             x == Head(msg.keys)
  <2>1. CASE HandleSearchReq(n, m) \/ HandleRegisterReq(n, m) \/ HandleRegisterAck(n, m)
    BY <1>2, <2>1 DEF HandleSearchReq, HandleRegisterReq, HandleRegisterAck, linkVars
  <2>2. CASE HandleSearchAck(n, m) \/ HandlePartner(n, m)
    <3>1. Proper(msg, n) /\ msg.type \in Answers
      BY <2>2, HandledIsClean
      DEF IInv, Linked, HandleSearchAck, HandlePartner, Arrived, Answers
    <3> HIDE DEF msg
    <3>2. x \in Contents
      <4>1. msg.keys \in Seq(Contents) /\ msg.keys # <<>> BY <3>1, Zenon DEF Proper
      <4> QED BY <4>1
    <3> HIDE DEF x
    <3>3. \/ UNCHANGED <<session, idVars, closes>>
          \/ \E p \in msg.peers : Approach(n, p, x)
      BY <2>2 DEF HandleSearchAck, HandlePartner, msg, x
    <3>4. msg.peers \subseteq Nodes BY <3>1 DEF Proper
    <3>5. ASSUME NEW p \in msg.peers, Approach(n, p, x) PROVE LinkStep
      BY <1>1, <3>2, <3>4, <3>5, Zenon
    <3> QED BY <1>2, <3>3, <3>5, Zenon
  <2> QED BY <1>3, <2>1, <2>2 DEF Handle
<1>4. ASSUME NEW n \in Peers, Join(n) \/ SearchLoop(n) PROVE LinkStep
  <2>1. n \in Nodes /\ Tracker \in Nodes BY DEF Nodes
  <2>2. CASE Join(n) BY <1>1, <2>1, <2>2 DEF Join
  <2>3. CASE SearchLoop(n) BY <1>2, <2>3 DEF SearchLoop, linkVars
  <2> QED BY <1>4, <2>2, <2>3
<1>5. ASSUME NEW n \in Nodes, NEW s \in SessionIds, Connected(n, s) \/ SearchAtLast(n, s)
      PROVE  LinkStep
  BY <1>5 DEF Connected, SearchAtLast, LinkStep, OnlyFields
<1>6. ASSUME NEW n \in Nodes, NEW m \in Nodes, Accept(n, m) PROVE LinkStep
  BY <1>6 DEF Accept, LinkStep, Opens
<1>7. ASSUME NEW n \in Peers, NEW x \in Contents, AddContent(n, x) PROVE LinkStep
  BY <1>2, <1>7 DEF AddContent, linkVars
<1>8. CASE UNCHANGED vars BY <1>2, <1>8 DEF vars, linkVars
<1> QED BY <1>3, <1>4, <1>5, <1>6, <1>7, <1>8 DEF Next, LinkStep

-----------------------------------------------------------------------------
(* What is on the way.                                                       *)

HasSession(n, m) == \E s \in SessionIds : session[n][s].peer = m

LEMMA HasIsNotZero == ASSUME NEW n, NEW m PROVE HasSession(n, m) <=> SessionOf(n, m) # 0
<1>1. 0 \notin SessionIds BY DEF SessionIds
<1> QED BY <1>1 DEF HasSession, SessionOf

\* Nobody sends without a session at the other side.
OnlySends ==
    \A o, p \in Nodes : stream'[o][p] # <<>> => stream[o][p] # <<>> \/ SessionOf(p, o) # 0

\* What a handler sends is only kept where the other side has a session.
LEMMA SentOnly ==
    ASSUME NEW ss, DOMAIN ss = Nodes, \A o \in Nodes : DOMAIN ss[o] = Nodes,
           \A o, p \in Nodes : ss[o][p] # <<>> => stream[o][p] # <<>>,
           NEW n \in Nodes, stream' = ss \/ \E m, messages : stream' = Sent(ss, n, m, messages)
    PROVE  OnlySends
<1>1. CASE stream' = ss BY <1>1 DEF OnlySends
<1>2. ASSUME NEW m, NEW messages, stream' = Sent(ss, n, m, messages), SessionOf(m, n) = 0
      PROVE  OnlySends
  BY <1>2 DEF OnlySends, Sent
<1>3. ASSUME NEW m, NEW messages, stream' = Sent(ss, n, m, messages), SessionOf(m, n) # 0
      PROVE  OnlySends
  <2>1. stream' = [ss EXCEPT ![n] = [ss[n] EXCEPT ![m] = ss[n][m] \o messages]]
    BY <1>3 DEF Sent
  <2>2. \A o, p \in Nodes : stream'[o][p] = ss[o][p] \/ (o = n /\ p = m) BY <2>1
  <2> QED BY <1>3, <2>2 DEF OnlySends
<1> QED BY <1>1, <1>2, <1>3

\* What is handled leaves the stream.
LEMMA HandledOnly ==
    ASSUME Clean(stream), NEW n \in Nodes, NEW m \in Nodes, stream[m][n] # <<>>, NEW ss,
           ss = Handled(n, m) \/ \E rest : ss = LeftOver(n, m, rest)
    PROVE  /\ DOMAIN ss = Nodes /\ \A o \in Nodes : DOMAIN ss[o] = Nodes
           /\ \A o, p \in Nodes : ss[o][p] # <<>> => stream[o][p] # <<>>
<1>1. PICK q : ss = [stream EXCEPT ![m] = [stream[m] EXCEPT ![n] = q]]
  BY DEF Handled, LeftOver
<1> QED BY <1>1 DEF Clean

\* So the handlers fill no stream without a session.
LEMMA HandlersOnlySend ==
    ASSUME IInv, NEW n \in Nodes, NEW m \in Nodes, Handle(n, m)
    PROVE  OnlySends /\ stream[m][n] # <<>>
<1>1. Clean(stream) /\ stream[m][n] # <<>>
  BY DEF IInv, Linked, Handle, HandleSearchReq, HandleSearchAck, HandlePartner,
         HandleRegisterReq, HandleRegisterAck, Arrived
<1>2. PICK ss : /\ ss = Handled(n, m) \/ \E rest : ss = LeftOver(n, m, rest)
                /\ stream' = ss \/ \E p, messages : stream' = Sent(ss, n, p, messages)
  <2>1. CASE HandleSearchReq(n, m)
    BY <2>1, Zenon DEF HandleSearchReq, SearchHit, SearchMiss
  <2>2. CASE HandleRegisterReq(n, m) \/ HandleRegisterAck(n, m)
    BY <2>2, Zenon DEF HandleRegisterReq, HandleRegisterAck
  <2>3. CASE HandleSearchAck(n, m) \/ HandlePartner(n, m)
    BY <2>3, Zenon DEF HandleSearchAck, HandlePartner
  <2> QED BY <2>1, <2>2, <2>3 DEF Handle
<1>3. /\ DOMAIN ss = Nodes /\ \A o \in Nodes : DOMAIN ss[o] = Nodes
      /\ \A o, p \in Nodes : ss[o][p] # <<>> => stream[o][p] # <<>>
  BY <1>1, <1>2, HandledOnly
<1> QED BY <1>1, <1>2, <1>3, SentOnly

LEMMA LiveStreamsStep ==
    ASSUME IInv, Types, [Next]_vars
    PROVE  LiveStreams'
<1>1. /\ DOMAIN stream = Nodes /\ \A n \in Nodes : DOMAIN stream[n] = Nodes
      /\ SessionInv
  BY DEF IInv, Linked, Clean
<1>2. ASSUME NEW n \in Nodes, NEW s \in SessionIds, Close(n, s) PROVE LiveStreams'
  <2> DEFINE m == session[n][s].peer
  <2>1. m \in Nodes \ {n} BY <1>1, <1>2 DEF Close, SessionInv
  <2>2. /\ session' = [session EXCEPT ![n] = [session[n] EXCEPT ![s] = NoSession]]
        /\ stream' = [stream EXCEPT ![n][m] = <<>>, ![m][n] = <<>>]
    BY <1>2 DEF Close
  <2>3. \A o \in Nodes, t \in SessionIds :
            session'[o][t] = IF o = n /\ t = s THEN NoSession ELSE session[o][t]
    BY <2>2 DEF Types, IdInv
  <2> HIDE DEF m
  <2>4. /\ stream'[m][n] = <<>>
        /\ \A o, p \in Nodes : stream'[o][p] # <<>> => stream[o][p] # <<>>
    <3> DEFINE one == [stream EXCEPT ![n] = [stream[n] EXCEPT ![m] = <<>>]]
    <3>1. stream' = [one EXCEPT ![m] = [one[m] EXCEPT ![n] = <<>>]] BY <2>2
    <3>2. /\ DOMAIN one = Nodes /\ \A o \in Nodes : DOMAIN one[o] = Nodes
          /\ \A o, p \in Nodes : one[o][p] # <<>> => stream[o][p] # <<>>
      BY <1>1
    <3> HIDE DEF one
    <3> QED BY <2>1, <3>1, <3>2
  <2>5. ASSUME NEW o \in Nodes, NEW p \in Nodes, stream'[p][o] # <<>>
        PROVE  HasSession(o, p)'
    <3>1. HasSession(o, p) BY <2>4, <2>5, HasIsNotZero DEF Types, LiveStreams
    <3>2. PICK t \in SessionIds : session[o][t].peer = p BY <3>1 DEF HasSession
    <3>3. o = n => t # s BY <2>4, <2>5, <3>2 DEF m
    <3>4. session'[o][t].peer = p BY <2>3, <3>2, <3>3
    <3> QED BY <3>4 DEF HasSession
  <2>6. \A o, p \in Nodes : HasSession(o, p)' => SessionOf(o, p)' # 0
    <3>1. 0 \notin SessionIds BY DEF SessionIds
    <3> QED BY <3>1 DEF HasSession, SessionOf
  <2> QED BY <2>5, <2>6 DEF LiveStreams
<1>3. ASSUME PeersStay, OnlySends PROVE LiveStreams'
  <2>1. ASSUME NEW o \in Nodes, NEW p \in Nodes, stream'[p][o] # <<>>
        PROVE  HasSession(o, p)'
    <3>1. HasSession(o, p) BY <1>3, <2>1, HasIsNotZero DEF Types, LiveStreams, OnlySends
    <3> QED BY <1>3, <3>1 DEF HasSession, PeersStay
  <2>2. \A o, p \in Nodes : HasSession(o, p)' => SessionOf(o, p)' # 0
    <3>1. 0 \notin SessionIds BY DEF SessionIds
    <3> QED BY <3>1 DEF HasSession, SessionOf
  <2> QED BY <2>1, <2>2 DEF LiveStreams
<1>4. PeersStay \/ \E n \in Nodes, s \in SessionIds : Close(n, s)
  BY ActionsLink, OnlyFieldsKeep, OpensKeeps, RecycleKeeps DEF LinkStep, Opens, Types
<1>5. OnlySends \/ \E n \in Nodes, s \in SessionIds : Close(n, s)
  <2>1. ASSUME UNCHANGED stream PROVE OnlySends BY <2>1 DEF OnlySends
  <2>2. ASSUME NEW n \in Nodes, NEW m \in Nodes, Handle(n, m) PROVE OnlySends
    BY <2>2, HandlersOnlySend
  <2>3. ASSUME NEW n \in Peers, Join(n) \/ SearchLoop(n) PROVE OnlySends
    <3>1. n \in Nodes BY DEF Nodes
    <3>2. stream' = stream \/ \E m, messages : stream' = Sent(stream, n, m, messages)
      BY <2>3 DEF Join, SearchLoop
    <3> QED BY <1>1, <3>1, <3>2, SentOnly
  <2>4. ASSUME NEW n \in Nodes, NEW s \in SessionIds,
               Connected(n, s) \/ SearchAtLast(n, s) \/ Recycle(n, s)
        PROVE  OnlySends
    <3>1. stream' = stream \/ \E m, messages : stream' = Sent(stream, n, m, messages)
      BY <2>4 DEF Connected, SearchAtLast, Recycle
    <3> QED BY <1>1, <3>1, SentOnly
  <2>5. ASSUME NEW n \in Peers, NEW x \in Contents, AddContent(n, x) PROVE OnlySends
    <3> DEFINE asked == {m \in GetNode(table[n], Pid[n], x, NoNode, Status(n)) :
                            SessionOf(n, m) # 0 /\ SessionOf(m, n) # 0}
    <3>1. stream' = [stream EXCEPT ![n] = [m \in Nodes |->
               IF m \in asked THEN Append(stream[n][m], Message("SEARCH_REQ", <<x>>, {}))
               ELSE stream[n][m]]]
      BY <2>5 DEF AddContent
    <3>2. \A m \in asked : SessionOf(m, n) # 0 OBVIOUS
    <3> HIDE DEF asked
    <3> QED BY <1>1, <3>1, <3>2 DEF OnlySends
  <2>6. ASSUME NEW n \in Nodes, NEW m \in Nodes, Accept(n, m) PROVE OnlySends
    BY <2>1, <2>6 DEF Accept
  <2>7. CASE UNCHANGED vars BY <2>1, <2>7 DEF vars
  <2> QED BY <2>2, <2>3, <2>4, <2>5, <2>6, <2>7 DEF Next
<1> QED BY <1>2, <1>3, <1>4, <1>5

-----------------------------------------------------------------------------
(* The partner table.                                                        *)

CidStep ==
    \/ UNCHANGED <<partners, cidList>>
    \/ \E n \in Peers : TurnCids(n) /\ UNCHANGED partners
    \/ \E n \in Peers, x \in Contents : x \notin Interested(n) /\ AddCid(n, x)
    \/ \E n \in Nodes, ids \in SUBSET SessionIds : \E x \in Interested(n) :
           AddPartners(n, x, ids) /\ UNCHANGED cidList

\* The lists of contents and the partner table, action by action.
LEMMA ActionsCid == ASSUME IInv, Types, [Next]_vars PROVE CidStep
<1>1. CASE UNCHANGED <<partners, cidList>> BY <1>1 DEF CidStep
<1>2. ASSUME NEW n \in Nodes, NEW m \in Nodes, Handle(n, m) PROVE CidStep
  <2> DEFINE x == Head(Head(stream[m][n]).keys)
             s == SessionOf(n, m)
  <2>1. s \in SessionIds
    <3>1. stream[m][n] # <<>> BY <1>2, HandlersOnlySend
    <3> QED BY <3>1, SessionOfPeer DEF Types, LiveStreams
  <2>2. \A p : {SessionOf(n, p)} \ {0} \subseteq SessionIds BY SessionOfPeer
  <2>3. CASE HandleSearchReq(n, m)
    <3>1. \/ UNCHANGED <<partners, cidList>>
          \/ x \in Interested(n) /\ AddPartners(n, x, {s}) /\ UNCHANGED cidList
          \/ n \in Peers /\ TurnCids(n) /\ UNCHANGED partners
      BY <2>3, Zenon DEF HandleSearchReq, SearchHit, SearchMiss, Nodes
    <3>2. {s} \in SUBSET SessionIds BY <2>1
    <3> HIDE DEF x, s
    <3> QED BY <3>1, <3>2 DEF CidStep
  <2>4. CASE HandleRegisterReq(n, m) \/ HandleRegisterAck(n, m)
    BY <1>1, <2>4 DEF HandleRegisterReq, HandleRegisterAck
  <2>5. CASE HandleSearchAck(n, m)
    <3>1. PICK p : \/ UNCHANGED <<partners, cidList>>
                   \/ /\ x \in Interested(n) /\ UNCHANGED cidList
                      /\ AddPartners(n, x, {SessionOf(n, p)} \ {0})
      BY <2>5 DEF HandleSearchAck
    <3> HIDE DEF x
    <3>2. {SessionOf(n, p)} \ {0} \in SUBSET SessionIds BY <2>2
    <3> QED BY <3>1, <3>2 DEF CidStep
  <2>6. CASE HandlePartner(n, m)
    <3>1. PICK p : \/ UNCHANGED <<partners, cidList>>
                   \/ /\ x \in Interested(n) /\ UNCHANGED cidList
                      /\ AddPartners(n, x, {s}) \/ AddPartners(n, x, {s, SessionOf(n, p)} \ {0})
      BY <2>6 DEF HandlePartner
    <3>2. {s} \in SUBSET SessionIds /\ {s, SessionOf(n, p)} \ {0} \in SUBSET SessionIds
      BY <2>1, <2>2
    <3> HIDE DEF x, s
    <3> QED BY <3>1, <3>2 DEF CidStep
  <2> QED BY <1>2, <2>3, <2>4, <2>5, <2>6 DEF Handle
<1>3. ASSUME NEW n \in Peers, Join(n) \/ SearchLoop(n) PROVE CidStep
  BY <1>3 DEF Join, SearchLoop, CidStep
<1>4. ASSUME NEW n \in Nodes, NEW s \in SessionIds,
             Connected(n, s) \/ SearchAtLast(n, s) \/ Close(n, s) \/ Recycle(n, s)
      PROVE  CidStep
  BY <1>1, <1>4 DEF Connected, SearchAtLast, Close, Recycle
<1>5. ASSUME NEW n \in Peers, NEW x \in Contents, AddContent(n, x) PROVE CidStep
  BY <1>5 DEF AddContent, CidStep
<1>6. ASSUME NEW n \in Nodes, NEW m \in Nodes, Accept(n, m) PROVE CidStep
  BY <1>1, <1>6 DEF Accept
<1>7. CASE UNCHANGED vars BY <1>1, <1>7 DEF vars
<1> QED BY <1>2, <1>3, <1>4, <1>5, <1>6, <1>7 DEF Next

LEMMA CidInvStep == ASSUME IInv, Types, [Next]_vars PROVE CidInv'
<1>1. /\ DOMAIN partners = Peers /\ DOMAIN cidList = Peers
      /\ \A n \in Peers : /\ cidList[n] \in Seq(Contents) /\ IsInjective(cidList[n])
                          /\ partners[n] \in [Listed(cidList[n]) -> SUBSET SessionIds]
                          /\ Interested(n) = Listed(cidList[n])
  BY DEF IInv, Lists, Types, CidInv, Interested
<1>2. CASE UNCHANGED <<partners, cidList>> BY <1>1, <1>2 DEF CidInv
<1>3. ASSUME NEW n \in Peers, TurnCids(n), UNCHANGED partners PROVE CidInv'
  <2> DEFINE t == [i \in DOMAIN cidList[n] |-> Rotated(cidList[n], i)]
  <2>1. cidList' = [cidList EXCEPT ![n] = t] BY <1>3 DEF TurnCids
  <2>2. IsInjective(t) /\ Listed(t) = Listed(cidList[n]) BY <1>1, TurnedIsDistinct
  <2> HIDE DEF t
  <2>3. \A o \in Peers : cidList'[o] = IF o = n THEN t ELSE cidList[o] BY <1>1, <2>1
  <2> QED BY <1>1, <1>3, <2>2, <2>3 DEF CidInv
<1>4. ASSUME NEW n \in Peers, NEW x \in Contents, x \notin Interested(n), AddCid(n, x)
      PROVE  CidInv'
  <2> DEFINE list == <<x>> \o cidList[n]
             new == [y \in DOMAIN partners[n] \cup {x} |-> IF y = x THEN {} ELSE partners[n][y]]
  <2>1. cidList' = [cidList EXCEPT ![n] = list] /\ partners' = [partners EXCEPT ![n] = new]
    BY <1>4 DEF AddCid
  <2>2. IsInjective(list) /\ Listed(list) = Listed(cidList[n]) \cup {x}
    BY <1>1, <1>4, FrontIsDistinct
  <2>3. new \in [Listed(cidList[n]) \cup {x} -> SUBSET SessionIds]
    <3> DEFINE old == partners[n]
    <3>1. new = [y \in DOMAIN old \cup {x} |-> IF y = x THEN {} ELSE old[y]]
      OBVIOUS
    <3>2. old \in [Listed(cidList[n]) -> SUBSET SessionIds] BY <1>1
    <3> HIDE DEF old, new
    <3> QED BY <3>1, <3>2
  <2> HIDE DEF list, new
  <2>4. DOMAIN partners' = Peers /\ \A o \in Peers : /\ cidList'[o] = IF o = n THEN list ELSE cidList[o]
                          /\ partners'[o] = IF o = n THEN new ELSE partners[o]
    BY <1>1, <2>1
  <2> QED BY <1>1, <2>2, <2>3, <2>4 DEF CidInv
<1>5. ASSUME NEW n \in Nodes, NEW ids \in SUBSET SessionIds, NEW x \in Interested(n),
             AddPartners(n, x, ids), UNCHANGED cidList
      PROVE  CidInv'
  <2>1. DOMAIN partners' = Peers BY <1>1, <1>5 DEF AddPartners
  <2>2. \A o \in Peers : o # n => partners'[o] = partners[o] BY <1>1, <1>5 DEF AddPartners
  <2>3. n \in Peers => partners'[n] \in [Listed(cidList[n]) -> SUBSET SessionIds]
    BY <1>1, <1>5 DEF AddPartners
  <2> QED BY <1>1, <1>5, <2>1, <2>2, <2>3 DEF CidInv
<1> QED BY <1>2, <1>3, <1>4, <1>5, ActionsCid DEF CidStep

LEMMA RestInvStep == ASSUME IInv, Types, [Next]_vars PROVE RestInv'
<1>1. toRegister' \in [Peers -> Seq(SessionIds)]
  <2>1. \/ toRegister' = toRegister
        \/ \E n \in Nodes, s \in SessionIds :
               toRegister' = [toRegister EXCEPT ![n] = Append(toRegister[n], s)]
        \/ \E n \in Peers : /\ toRegister[n] # <<>>
                            /\ toRegister' = [toRegister EXCEPT ![n] = Tail(toRegister[n])]
    <3>1. ASSUME NEW n \in Nodes, NEW m \in Nodes, Accept(n, m) \/ Handle(n, m)
          PROVE  toRegister' = toRegister
      BY <3>1 DEF Accept, Handle, HandleSearchReq, HandleSearchAck, HandlePartner,
                  HandleRegisterReq, HandleRegisterAck
    <3>2. ASSUME NEW n \in Peers, NEW x \in Contents, AddContent(n, x)
          PROVE  toRegister' = toRegister
      BY <3>2 DEF AddContent
    <3>3. ASSUME NEW n \in Peers, Join(n) PROVE toRegister' = toRegister
      BY <3>3 DEF Join
    <3>4. ASSUME NEW n \in Nodes, NEW s \in SessionIds,
                 SearchAtLast(n, s) \/ Close(n, s) \/ Recycle(n, s)
          PROVE  toRegister' = toRegister
      BY <3>4 DEF SearchAtLast, Close, Recycle
    <3>5. UNCHANGED vars => toRegister' = toRegister BY DEF vars
    <3> QED BY <3>1, <3>2, <3>3, <3>4, <3>5 DEF Next, Connected, SearchLoop
  <2>2. toRegister \in [Peers -> Seq(SessionIds)] BY DEF Types, RestInv
  <2>3. ASSUME NEW n \in Nodes, NEW s \in SessionIds,
               toRegister' = [toRegister EXCEPT ![n] = Append(toRegister[n], s)]
        PROVE  toRegister' \in [Peers -> Seq(SessionIds)]
    <3>1. n \in Peers => Append(toRegister[n], s) \in Seq(SessionIds) BY <2>2
    <3> QED BY <2>2, <2>3, <3>1
  <2>4. ASSUME NEW n \in Peers, toRegister[n] # <<>>,
               toRegister' = [toRegister EXCEPT ![n] = Tail(toRegister[n])]
        PROVE  toRegister' \in [Peers -> Seq(SessionIds)]
    <3>1. Tail(toRegister[n]) \in Seq(SessionIds) BY <2>2, <2>4
    <3> QED BY <2>2, <2>4, <3>1
  <2> QED BY <2>1, <2>2, <2>3, <2>4
<1>2. joined' \subseteq Peers /\ early' \in [Peers -> SUBSET Contents]
  <2>1. \/ joined' = joined /\ early' = early
        \/ \E n \in Peers : /\ joined' = joined \cup {n}
                            /\ early' = [early EXCEPT ![n] = Interested(n)]
    <3>1. ASSUME NEW n \in Nodes, NEW m \in Nodes, Accept(n, m) \/ Handle(n, m)
          PROVE  UNCHANGED <<joined, early>>
      BY <3>1 DEF Accept, Handle, HandleSearchReq, HandleSearchAck, HandlePartner,
                  HandleRegisterReq, HandleRegisterAck, linkVars
    <3>2. ASSUME NEW n \in Peers, NEW x \in Contents, AddContent(n, x)
          PROVE  UNCHANGED <<joined, early>>
      BY <3>2 DEF AddContent, linkVars
    <3>3. ASSUME NEW n \in Nodes, NEW s \in SessionIds,
                 Connected(n, s) \/ SearchAtLast(n, s) \/ Close(n, s) \/ Recycle(n, s)
          PROVE  UNCHANGED <<joined, early>>
      BY <3>3 DEF Connected, SearchAtLast, Close, Recycle
    <3>4. ASSUME NEW n \in Peers, SearchLoop(n) PROVE UNCHANGED <<joined, early>>
      BY <3>4 DEF SearchLoop, linkVars
    <3>5. UNCHANGED vars => UNCHANGED <<joined, early>> BY DEF vars, linkVars
    <3> QED BY <3>1, <3>2, <3>3, <3>4, <3>5 DEF Next, Join
  <2>2. \A n \in Peers : Interested(n) \subseteq Contents
    <3> SUFFICES ASSUME NEW n \in Peers PROVE Interested(n) \subseteq Contents OBVIOUS
    <3>1. cidList[n] \in Seq(Contents) BY DEF IInv, Lists
    <3>2. Listed(cidList[n]) \subseteq Contents BY <3>1 DEF Listed
    <3> QED BY <3>2 DEF Types, CidInv, Interested
  <2> QED BY <2>1, <2>2 DEF Types, RestInv
<1>3. closes' \in 0..MaxCloses
  <2>1. closes' = closes \/ (closes' = closes + 1 /\ closes < MaxCloses)
    BY ActionsLink DEF LinkStep, OnlyFields, Opens, OpenSession, Close, Recycle
  <2> QED BY <2>1, SearchAssumption DEF Types, RestInv
<1> QED BY <1>1, <1>2, <1>3 DEF RestInv

LEMMA TypesStep == IInv /\ Types /\ [Next]_vars => Types'
<1> SUFFICES ASSUME IInv, Types, [Next]_vars PROVE Types' OBVIOUS
<1>1. IdInv'
  BY ActionsLink, OnlyFieldsKeep, OpensKeeps, CloseKeeps, RecycleKeeps DEF LinkStep, Opens, Types
<1> QED BY <1>1, LiveStreamsStep, CidInvStep, RestInvStep DEF Types

\* Nothing leaves its type.  Above all, only ids of sessions get into the partner
\* table: what arrives has a session still when it is handled, although session_id()
\* has 0 for those that have gone.  And get_cid() turns the list of the contents
\* without losing or repeating one (partner_table.cpp), while no session id is ever
\* given out twice.
THEOREM SearchTypes == Spec => []TypeOK
<1> QED BY InitInv, NextInv, InitTypes, TypesStep, TypesGiveTypeOK, PTL DEF Spec
=============================================================================
