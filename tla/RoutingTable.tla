---------------------------- MODULE RoutingTable ----------------------------
(***************************************************************************)
(* The routing table of a node as operators without state                  *)
(* (module_peer/routing_table.cpp, routing/k_bucket.cpp, routing/node.cpp): *)
(* one bucket of nodes for each distance from the node's own key, how a    *)
(* node is added and how the nodes near a key are found.                   *)
(*                                                                         *)
(* A node is [key, peer].  What a peer is, and its status, belong to the   *)
(* modules that use this one: they pass the status of peers as a function. *)
(***************************************************************************)
EXTENDS Integers, Sequences, FiniteSets

CONSTANTS
    KeyBits,          \* the buckets of m_VecKBucket: 160 in the code
    KLEN_KEY,         \* 20, the bytes of a key, where the scan to the right ends
    KBUCKET_SIZE,     \* 10 in the code
    KALPHA_REQUESTS   \* 3 in the code

ASSUME RoutingTableAssumption ==
    /\ {KeyBits, KLEN_KEY, KBUCKET_SIZE} \subseteq Nat \ {0}
    /\ KLEN_KEY <= KeyBits
    /\ KALPHA_REQUESTS \in Nat \ {0, 1}

Keys == 0..(2^KeyBits - 1)
Buckets == 0..(KeyBits - 1)

\* enum PeerStatus
GOOD == 0
QUESTIONABLE == 1
BAD == 2

\* The highest bit in which two keys differ; 0 for equal keys as well.
Distance(key1, key2) ==
    IF key1 = key2 THEN 0
    ELSE CHOOSE j \in Buckets :
            /\ key1 \div 2^j # key2 \div 2^j
            /\ key1 \div 2^(j + 1) = key2 \div 2^(j + 1)

EmptyTable == [b \in Buckets |-> <<>>]

-----------------------------------------------------------------------------
(* KBucket::add_node: a full bucket turns until a node of worse status than  *)
(* the new one is in front, and drops that.                                  *)

WorseNodes(bucket, node, status) ==
    {i \in DOMAIN bucket : status[bucket[i].peer] > status[node.peer]}

\* The node that makes room for the new one: 0 when there is room, or none.
Victim(bucket, node, status) ==
    LET worse == WorseNodes(bucket, node, status)
    IN  IF Len(bucket) < KBUCKET_SIZE \/ worse = {} THEN 0
        ELSE CHOOSE i \in worse : \A j \in worse : i <= j

\* Slip: a full bucket drops its front whatever its status.
SlipBucketDropsFront(bucket, node, status) ==
    IF Len(bucket) < KBUCKET_SIZE THEN Append(bucket, node)
    ELSE Append(Tail(bucket), node)

AddToBucket(bucket, node, status) ==
    LET i == Victim(bucket, node, status)
    IN  IF Len(bucket) < KBUCKET_SIZE THEN Append(bucket, node)
        ELSE IF i = 0 THEN bucket
        ELSE SubSeq(bucket, i + 1, Len(bucket)) \o SubSeq(bucket, 1, i - 1) \o <<node>>

\* RoutingTable::add_node of the node with key self.
AddNode(table, self, node, status) ==
    [table EXCEPT ![Distance(node.key, self)] = AddToBucket(@, node, status)]

NodesIn(table) ==
    UNION {{table[b][i] : i \in DOMAIN table[b]} : b \in DOMAIN table}

-----------------------------------------------------------------------------
(* RoutingTable::get_node. *)

\* The buckets in the order of both scans: from d to the right, which ends at
\* KLEN_KEY, then from d - 1 to the left.
Scanned(d) ==
    LET right == IF d < KLEN_KEY THEN KLEN_KEY - d ELSE 0
    IN  [i \in 1..(right + d) |-> IF i <= right THEN d + i - 1 ELSE d + right - i]

\* KBucket::get_online_node for the peer req, in the set of 0 or 1 elements.
OnlineInBucket(bucket, req, status) ==
    LET online == {i \in DOMAIN bucket :
                      bucket[i].peer # req /\ status[bucket[i].peer] = GOOD}
    IN  {bucket[i].peer : i \in {j \in online : \A k \in online : j <= k}}

\* The online peer of the first bucket of the scan that has one.
Online(table, d, req, status) ==
    LET scan == Scanned(d)
        found == {s \in DOMAIN scan : OnlineInBucket(table[scan[s]], req, status) # {}}
    IN  UNION {OnlineInBucket(table[scan[s]], req, status) :
                  s \in {t \in found : \A u \in found : t <= u}}

\* KBucket::get_node keeps one node, the first, of each distance from the key.
Nearest(bucket, key, req) ==
    {i \in DOMAIN bucket :
        /\ bucket[i].peer # req
        /\ \A j \in 1..(i - 1) :
               \/ bucket[j].peer = req
               \/ Distance(bucket[j].key, key) # Distance(bucket[i].key, key)}

\* What the second scan would insert: the place of the bucket in the scan, the
\* distance from the key and the peer, in this order.
Candidates(table, key, d, req) ==
    LET scan == Scanned(d)
    IN  UNION {{<<s, Distance(table[scan[s]][i].key, key), table[scan[s]][i].peer>> :
                   i \in Nearest(table[scan[s]], key, req)} : s \in DOMAIN scan}

Before(c, e) ==
    \/ c[1] < e[1]
    \/ c[1] = e[1] /\ c[2] < e[2]

\* Slip: whoever asks is in the answer too.
SlipGetNodeAsker(table, self, key, req, status) ==
    LET all == Candidates(table, key, Distance(self, key), "none")
        SeenBefore(c) == {e[3] : e \in {f \in all : Before(f, c)}}
    IN  {c[3] : c \in {e \in all : Cardinality(SeenBefore(e)) < KALPHA_REQUESTS}}

\* The peers found for a key: candidates enter until there are enough.
GetNode(table, self, key, req, status) ==
    LET d == Distance(self, key)
        online == Online(table, d, req, status)
        all == Candidates(table, key, d, req)
        SeenBefore(c) == online \cup {e[3] : e \in {f \in all : Before(f, c)}}
    IN  online \cup
        {c[3] : c \in {e \in all : Cardinality(SeenBefore(e)) < KALPHA_REQUESTS}}

=============================================================================
