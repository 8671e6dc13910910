--------------------------------- MODULE DHT ---------------------------------
(***************************************************************************)
(* The distributed hash table (src/network/DHT.cpp) as the nodes of a      *)
(* network use it: routing tables of k-buckets, filled by handshakes, peer *)
(* lists and FIND_NODE answers, and values kept for a time by the nodes    *)
(* closest to their keys.                                                  *)
(*                                                                         *)
(* In the program, DHT packets come through PeerManager::ProcessDHTPacket, *)
(* which knows FIND_NODE and its answer and drops the others (a PING is    *)
(* shorter than the FIND_NODE payload it asks for).  STORE, GET_VALUE and  *)
(* its answer are modelled as DHT::ProcessIncoming takes them, the entry   *)
(* that the class has for its own use and PeerManager does not call: the   *)
(* program's behaviours are those in which no value is ever stored.        *)
(*                                                                         *)
(* What is abstracted: a node is its address, and has one node id (other   *)
(* identities of an address are Registration's subject), so a bucket is a  *)
(* set; last_seen and responsive are written and never read; the contents  *)
(* of values.  The handshake of a client with a seed is one step here.     *)
(***************************************************************************)
EXTENDS Selection, SequencesExt

CONSTANTS
    Node,                \* addresses
    Seeds,               \* the seed nodes, which all others have configured
    Bits,                \* length of a node id; 160 in the code
    NodeId,              \* NodeId[n]: the id of n, a function from 0..Bits-1 to {0, 1}
    Keys,                \* ids under which values are stored
    DHT_K_BUCKET_SIZE,   \* 20 in the code
    DHT_ALPHA,           \* 3 in the code
    TTL,                 \* seconds a value is kept; 3600 in the code
    TimeWrap,            \* GetCurrentTime is 32 bits wide: 2^32 in the code
    Horizon,             \* bound on the clock
    MaxCalls             \* bound on the calls of StoreValue and of GetValue

ids == [0..(Bits - 1) -> {0, 1}]

ASSUME DHTAssumption ==
    /\ IsFiniteSet(Node) /\ Seeds \subseteq Node
    /\ Bits \in Nat \ {0}
    /\ NodeId \in [Node -> ids]
    /\ \A n, m \in Node : NodeId[n] = NodeId[m] => n = m
    /\ Keys \subseteq ids
    /\ DHT_K_BUCKET_SIZE \in Nat \ {0} /\ DHT_ALPHA \in Nat
    /\ TTL \in Nat /\ TimeWrap \in Nat \ {0} /\ Horizon \in Nat /\ MaxCalls \in Nat

VARIABLES
    connected,         \* <<c, s>> for a client and a seed that have completed a handshake
    m_peers,           \* m_peers[n]: the peer table, oldest first
    m_buckets,         \* m_buckets[n]: the routing table, a set of nodes per bucket
    dhtDiscoverySent,  \* dhtDiscoverySent[n]: the FIND_NODE round has been sent
    m_localStore,      \* m_localStore[n]: key -> the value's expires_at, for the keys stored
    net,               \* packets sent; each may be received at any time, again, or never
    now,               \* the wall clock of all nodes, before it is cut to 32 bits
    told,              \* told[n]: history, the nodes AddNode has been called for
    stored,            \* history: <<n, k, t>> for a value put under k at n at time t
    calls              \* calls[f]: how often the application has called f

vars == <<connected, m_peers, m_buckets, dhtDiscoverySent, m_localStore, net, now, told, stored, calls>>

Clients == Node \ Seeds

-----------------------------------------------------------------------------
(* Distances and the routing table *)

XORDistance(x, y) == [i \in 0..(Bits - 1) |-> IF x[i] = y[i] THEN 0 ELSE 1]

\* Both distances have the same length: the first bit in which they differ decides.
CompareXORDistance(d, e) ==
    \E i \in 0..(Bits - 1) : d[i] < e[i] /\ \A j \in 0..(i - 1) : d[j] = e[j]

\* Mutant: the search for the differing bit starts after the first.
BucketIndexFromSecond(n, x) ==
    LET differing == {i \in 1..(Bits - 1) : NodeId[n][i] # NodeId[x][i]}
    IN  IF differing = {} THEN Bits - 1
        ELSE CHOOSE i \in differing : \A j \in differing : i =< j

\* The first bit in which the ids differ; a node's own id is in the last bucket.
GetBucketIndex(n, x) ==
    LET differing == {i \in 0..(Bits - 1) : NodeId[n][i] # NodeId[x][i]}
    IN  IF differing = {} THEN Bits - 1
        ELSE CHOOSE i \in differing : \A j \in differing : i =< j

Nodes(table) == UNION {table[i] : i \in 0..(Bits - 1)}

\* A full bucket refuses the newcomer: nothing is evicted.
BucketAdd(bucket, x) ==
    IF x \in bucket \/ Cardinality(bucket) < DHT_K_BUCKET_SIZE
    THEN bucket \cup {x}
    ELSE bucket

\* AddNode of each of a sequence of nodes to the table of n.
AddNodes(n, nodes) ==
    LET table[i \in 0..Len(nodes)] ==
            IF i = 0 THEN m_buckets[n]
            ELSE [table[i - 1] EXCEPT ![GetBucketIndex(n, nodes[i])] = BucketAdd(@, nodes[i])]
    IN  table[Len(nodes)]

Closer(target, x, y) ==
    CompareXORDistance(XORDistance(NodeId[x], target), XORDistance(NodeId[y], target))

\* Mutant: the table is cut to size before it is sorted.
CutThenSort(n, target, count) ==
    LET nodes == SetToSeq(Nodes(m_buckets[n]))
    IN  SortSeq(IF Len(nodes) > count THEN SubSeq(nodes, 1, count) ELSE nodes,
                LAMBDA x, y : Closer(target, x, y))

\* How many of the nodes sorting puts before x.
Before(nodes, target, x) == Cardinality({y \in nodes : Closer(target, y, x)})

\* The count nodes of n's table closest to the target, closest first.
GetClosestNodes(n, target, count) ==
    LET nodes == Nodes(m_buckets[n])
        size == IF Cardinality(nodes) > count THEN count ELSE Cardinality(nodes)
    IN  [k \in 1..size |-> CHOOSE x \in nodes : Before(nodes, target, x) = k - 1]

FindNodes(n, target) == GetClosestNodes(n, target, DHT_K_BUCKET_SIZE)

-----------------------------------------------------------------------------
(* The store *)

GetCurrentTime == now % TimeWrap

\* Mutant: the comparison of a value that never expires.
NeverExpired(expires_at) == GetCurrentTime < expires_at - TTL

IsExpired(expires_at) == GetCurrentTime > expires_at

\* Mutant: a value that is there keeps its time.
StoredOnce(store, k) ==
    [x \in DOMAIN store \cup {k} |->
        IF x \in DOMAIN store THEN store[x] ELSE (GetCurrentTime + TTL) % TimeWrap]

\* Store: the new value replaces the old, and its time begins anew.
Stored(store, k) ==
    [x \in DOMAIN store \cup {k} |->
        IF x = k THEN (GetCurrentTime + TTL) % TimeWrap ELSE store[x]]

\* Get: a value that has expired is erased and not returned.
Held(n, k) == k \in DOMAIN m_localStore[n] /\ ~IsExpired(m_localStore[n][k])
Erased(n, k) ==
    IF Held(n, k) THEN m_localStore[n]
    ELSE [x \in DOMAIN m_localStore[n] \ {k} |-> m_localStore[n][x]]

-----------------------------------------------------------------------------
(* The packets *)

PeerList(n, d, peers) == [type |-> "peer_list", src |-> n, dst |-> d, nodes |-> peers]
FindNode(n, d, target) == [type |-> "find_node", src |-> n, dst |-> d, id |-> target]
FindNodeResponse(n, d, nodes) == [type |-> "nodes", src |-> n, dst |-> d, nodes |-> nodes]
StorePacket(n, d, k) == [type |-> "store", src |-> n, dst |-> d, id |-> k]
GetValuePacket(n, d, k) == [type |-> "get_value", src |-> n, dst |-> d, id |-> k]
GetValueResponse(n, d, k) == [type |-> "value", src |-> n, dst |-> d, id |-> k]

Packets ==
    [type: {"peer_list", "nodes"}, src: Node, dst: Node, nodes: Seq(Node)]
      \cup [type: {"find_node"}, src: Node, dst: Node, id: ids]
      \cup [type: {"store", "get_value", "value"}, src: Node, dst: Node, id: Keys]

Bucket == {nodes \in SUBSET Node : Cardinality(nodes) =< DHT_K_BUCKET_SIZE}

Stores == UNION {[held -> 0..(TimeWrap - 1)] : held \in SUBSET Keys}

TypeOK ==
    /\ connected \subseteq Clients \X Seeds
    /\ m_peers \in [Node -> Seq(Node)]
    /\ m_buckets \in [Node -> [0..(Bits - 1) -> Bucket]]
    /\ dhtDiscoverySent \in [Node -> BOOLEAN]
    /\ m_localStore \in [Node -> Stores]
    /\ \A m \in net : m \in Packets
    /\ now \in 0..Horizon
    /\ told \in [Node -> SUBSET Node]
    /\ stored \subseteq Node \X Keys \X (0..Horizon)
    /\ calls \in [{"StoreValue", "GetValue"} -> 0..MaxCalls]

Init ==
    /\ connected = {}
    /\ m_peers = [n \in Node |-> <<>>]
    /\ m_buckets = [n \in Node |-> [i \in 0..(Bits - 1) |-> {}]]
    /\ dhtDiscoverySent = [n \in Node |-> FALSE]
    /\ m_localStore = [n \in Node |-> <<>>]
    /\ net = {}
    /\ now = 0
    /\ told = [n \in Node |-> {}]
    /\ stored = {}
    /\ calls = [f \in {"StoreValue", "GetValue"} |-> 0]

-----------------------------------------------------------------------------
(* What PeerManager does with the table *)

\* AddPeer of each: an address that is in the table stays where it is.
AddPeers(peers, nodes) ==
    peers \o Selected(nodes, {i \in DOMAIN nodes : ~Contains(peers, nodes[i])})

Learn(n, nodes) ==
    /\ m_buckets' = [m_buckets EXCEPT ![n] = AddNodes(n, nodes)]
    /\ told' = [told EXCEPT ![n] = @ \cup ToSet(nodes)]

\* A client and a seed complete a handshake: each gets the other as a peer,
\* the seed puts the client into its routing table (the client does not do so
\* with the seed), and each sends the other its peer list.
Handshake(c, s) ==
    /\ <<c, s>> \notin connected
    /\ connected' = connected \cup {<<c, s>>}
    /\ m_peers' = [m_peers EXCEPT ![c] = AddPeers(@, <<s>>), ![s] = AddPeers(@, <<c>>)]
    /\ Learn(s, <<c>>)
    /\ net' = net \cup {PeerList(c, s, m_peers'[c]), PeerList(s, c, m_peers'[s])}
    /\ UNCHANGED <<dhtDiscoverySent, m_localStore, now, stored, calls>>

HandlePeerList(m) ==
    /\ m.type = "peer_list"
    /\ m_peers' = [m_peers EXCEPT ![m.dst] = AddPeers(@, m.nodes)]
    /\ Learn(m.dst, m.nodes)
    /\ UNCHANGED <<connected, dhtDiscoverySent, m_localStore, net, now, stored, calls>>

\* The FIND_NODE round, once all seeds are connected.  Its target, named
\* random_target, is all zeros on every node.
Discover(c) ==
    /\ ~dhtDiscoverySent[c]
    /\ Seeds # {}
    /\ \A s \in Seeds : <<c, s>> \in connected
    /\ dhtDiscoverySent' = [dhtDiscoverySent EXCEPT ![c] = TRUE]
    /\ net' = net \cup {FindNode(c, s, [i \in 0..(Bits - 1) |-> 0]) : s \in Seeds}
    /\ UNCHANGED <<connected, m_peers, m_buckets, m_localStore, now, told, stored, calls>>

\* PeerManager::HandleDHTFindNode
HandleFindNode(m) ==
    /\ m.type = "find_node"
    /\ net' = net \cup {FindNodeResponse(m.dst, m.src, FindNodes(m.dst, m.id))}
    /\ UNCHANGED <<connected, m_peers, m_buckets, dhtDiscoverySent, m_localStore, now, told, stored, calls>>

\* DHT::HandleFindNodeRequest, the answer that DHT::ProcessIncoming would give:
\* it is made from the table without FindNodes' look at its size.
HandleFindNodeRequest(m) ==
    /\ m.type = "find_node"
    /\ net' = net \cup {FindNodeResponse(m.dst, m.src,
                                         GetClosestNodes(m.dst, m.id, DHT_K_BUCKET_SIZE))}
    /\ UNCHANGED <<connected, m_peers, m_buckets, dhtDiscoverySent, m_localStore, now, told, stored, calls>>

HandleFindNodeResponse(m) ==
    /\ m.type = "nodes"
    /\ Learn(m.dst, m.nodes)
    /\ UNCHANGED <<connected, m_peers, dhtDiscoverySent, m_localStore, net, now, stored, calls>>

-----------------------------------------------------------------------------
(* Values *)

Call(f) ==
    /\ calls[f] < MaxCalls
    /\ calls' = [calls EXCEPT ![f] = @ + 1]

\* The value goes to the closest nodes known, which may include n itself; with
\* none, the call fails.
StoreValue(n, k) ==
    /\ Call("StoreValue")
    /\ net' = net \cup {StorePacket(n, d, k) :
                           d \in ToSet(GetClosestNodes(n, k, DHT_K_BUCKET_SIZE))}
    /\ UNCHANGED <<connected, m_peers, m_buckets, dhtDiscoverySent, m_localStore, now, told, stored>>

\* The local store first; then the closest nodes are asked, and the call
\* returns without an answer.
GetValue(n, k) ==
    /\ Call("GetValue")
    /\ m_localStore' = [m_localStore EXCEPT ![n] = Erased(n, k)]
    /\ net' = IF Held(n, k) THEN net
              ELSE net \cup {GetValuePacket(n, d, k) :
                                d \in ToSet(GetClosestNodes(n, k, DHT_ALPHA))}
    /\ UNCHANGED <<connected, m_peers, m_buckets, dhtDiscoverySent, now, told, stored>>

HandleStore(m) ==
    /\ m.type = "store"
    /\ m_localStore' = [m_localStore EXCEPT ![m.dst] = Stored(@, m.id)]
    /\ stored' = stored \cup {<<m.dst, m.id, now>>}
    /\ UNCHANGED <<connected, m_peers, m_buckets, dhtDiscoverySent, net, now, told, calls>>

HandleGetValueRequest(m) ==
    /\ m.type = "get_value"
    /\ m_localStore' = [m_localStore EXCEPT ![m.dst] = Erased(m.dst, m.id)]
    /\ net' = IF Held(m.dst, m.id)
              THEN net \cup {GetValueResponse(m.dst, m.src, m.id)}
              ELSE net
    /\ UNCHANGED <<connected, m_peers, m_buckets, dhtDiscoverySent, now, told, stored, calls>>

\* GET_VALUE_RESPONSE is logged: nothing changes but that it has been received.
HandleGetValueResponse(m) ==
    /\ m.type = "value"
    /\ net' = net \ {m}
    /\ UNCHANGED <<connected, m_peers, m_buckets, dhtDiscoverySent, m_localStore, now, told, stored, calls>>

Tick ==
    /\ now < Horizon
    /\ now' = now + 1
    /\ UNCHANGED <<connected, m_peers, m_buckets, dhtDiscoverySent, m_localStore, net, told, stored, calls>>

Receive(m) ==
    \/ HandlePeerList(m)
    \/ HandleFindNode(m)
    \/ HandleFindNodeRequest(m)
    \/ HandleFindNodeResponse(m)
    \/ HandleStore(m)
    \/ HandleGetValueRequest(m)
    \/ HandleGetValueResponse(m)

Next ==
    \/ Tick
    \/ \E c \in Clients : Discover(c) \/ \E s \in Seeds : Handshake(c, s)
    \/ \E n \in Node, k \in Keys : StoreValue(n, k) \/ GetValue(n, k)
    \/ \E m \in net : Receive(m)

Spec == Init /\ [][Next]_vars

-----------------------------------------------------------------------------
(* Properties *)

\* The leading bits that two ids have in common.
SharedBits(x, y) == Cardinality({i \in 0..(Bits - 1) : \A j \in 0..i : x[j] = y[j]})

\* A node that a table has been told of, in whatever order and by whichever of
\* the three ways, is missing from it only if the table has DHT_K_BUCKET_SIZE
\* others that share as many leading bits with the owner: the neighbourhood of
\* a node is never given up for nodes further away.
NothingForgotten ==
    \A n \in Node : \A x \in told[n] \ Nodes(m_buckets[n]) :
        Cardinality({y \in Nodes(m_buckets[n]) :
                        SharedBits(NodeId[n], NodeId[y]) >= SharedBits(NodeId[n], NodeId[x])})
           >= DHT_K_BUCKET_SIZE

\* A node id as a number, most significant bit first.
Value(x) ==
    LET v[i \in 0..Bits] == IF i = 0 THEN 0 ELSE 2 * v[i - 1] + x[i - 1]
    IN  v[Bits]

\* Whoever is asked for the nodes closest to zero leaves out only nodes that
\* are further away, as numbers, than all those listed, and only when the list
\* is full.
AnswersAreClosest ==
    [][\A m \in net' \ net : m.type = "nodes" =>
          \A x \in Nodes(m_buckets[m.src]) \ ToSet(m.nodes) :
             /\ Len(m.nodes) = DHT_K_BUCKET_SIZE
             /\ \A y \in ToSet(m.nodes) : Value(NodeId[y]) < Value(NodeId[x])]_vars

\* A value is served only for TTL seconds after the last time it was stored at
\* the node that serves it, whenever it is asked for.
FreshValues ==
    [][\A m \in net' \ net : m.type = "value" =>
          \E t \in 0..now : <<m.src, m.id, t>> \in stored /\ now =< t + TTL]_vars

\* Until then no request, and no older copy that arrives late, takes it away.
KeptWhileFresh ==
    \A s \in stored : now =< s[3] + TTL => s[2] \in DOMAIN m_localStore[s[1]]
=============================================================================
