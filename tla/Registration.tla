----------------------------- MODULE Registration -----------------------------
(***************************************************************************)
(* The registration protocol between nodes (src/network/PeerManager.cpp):  *)
(* the three-way exchange of identities, the exchange of peer lists that   *)
(* follows it, and the FIND_NODE round, over a network that loses,         *)
(* duplicates, delays and reorders packets, between nodes that restart and *)
(* may come back with another identity.                                    *)
(*                                                                         *)
(* What is abstracted:                                                     *)
(*   - a node is its address, and has one; a key stands for the PEM text,  *)
(*     the peer_id and the NodeId derived from it (Identity::GetShortID,   *)
(*     NodeId::FromPubkey);                                                *)
(*   - time and budgets are left out: the seed loop registers, gives up    *)
(*     and tries again when it likes, along the moves of SeedLifecycle,    *)
(*     which SeedRegistration implements;                                  *)
(*   - the listener handles a packet in one step (SeedRegistration has the *)
(*     two critical sections of REGISTER_RESP);                            *)
(*   - signing is enabled, the default of PeerManager::Initialize;         *)
(*   - m_peers is a set: its order only decides which ten are listed.      *)
(* No code sends ers_failed, so no such packet is in this network.         *)
(***************************************************************************)
EXTENDS Integers, FiniteSets

CONSTANTS
    Node,         \* addresses
    SeedsOf,      \* SeedsOf[n]: the seed nodes in the configuration of n
    Loopback,     \* TRUE if all nodes run on 127.0.0.1, as start_test.cmd deploys them
    MaxListed,    \* peers in a PEER_LIST; 10 in the code
    Replays,      \* TRUE if any packet ever sent may be received at any time, any
                  \* number of times or never; FALSE if each is received at most once
    Lossy,        \* the types of packets that may then be lost
    MaxRestarts   \* bound on the restarts of all nodes together

ASSUME RegistrationAssumption ==
    /\ IsFiniteSet(Node)
    /\ SeedsOf \in [Node -> SUBSET Node]
    /\ \A n \in Node : n \notin SeedsOf[n]
    /\ Loopback \in BOOLEAN
    /\ Replays \in BOOLEAN
    /\ MaxListed \in Nat
    /\ MaxRestarts \in Nat

VARIABLES
    incarnation,       \* incarnation[n]: which identity n runs with
    restarts,          \* restarts so far
    tracker,           \* tracker[n][s]: the state of the tracker of s at n
    m_peers,           \* m_peers[n]: the peer table, with the keys used to verify
    m_peerPublicKeys,  \* m_peerPublicKeys[n]: the keys stored by peer_id
    m_dht,             \* m_dht[n]: the routing table, one entry per node id
    dhtDiscoverySent,  \* dhtDiscoverySent[n]: the FIND_NODE round has been sent
    net                \* the packets that can be received

vars == <<incarnation, restarts, tracker, m_peers, m_peerPublicKeys, m_dht,
          dhtDiscoverySent, net>>

Keys == Node \X (0..MaxRestarts)

Key(n) == <<n, incarnation[n]>>

PeerInfo == [addr: Node, key: Keys]

Packets ==
    [type: {"register", "register_resp"}, src: Node, dst: Node, key: Keys]
      \cup [type: {"accepted", "find_node"}, src: Node, dst: Node]
      \cup [type: {"peer_list"}, src: Node, dst: Node, key: Keys, peers: SUBSET PeerInfo]
      \cup [type: {"nodes"}, src: Node, dst: Node, nodes: SUBSET PeerInfo]

TrackerStates ==
    {"Absent", "Disconnected", "Connecting", "Connected", "Failed", "Reset"}

TypeOK ==
    /\ incarnation \in [Node -> 0..MaxRestarts]
    /\ restarts \in 0..MaxRestarts
    /\ DOMAIN tracker = Node
    /\ \A n \in Node : tracker[n] \in [SeedsOf[n] -> TrackerStates]
    /\ m_peers \in [Node -> SUBSET PeerInfo]
    /\ m_peerPublicKeys \in [Node -> SUBSET Keys]
    /\ m_dht \in [Node -> SUBSET PeerInfo]
    /\ dhtDiscoverySent \in [Node -> BOOLEAN]
    /\ net \subseteq Packets

Init ==
    /\ incarnation = [n \in Node |-> 0]
    /\ restarts = 0
    /\ tracker = [n \in Node |-> [s \in SeedsOf[n] |-> "Absent"]]
    /\ m_peers = [n \in Node |-> {}]
    /\ m_peerPublicKeys = [n \in Node |-> {}]
    /\ m_dht = [n \in Node |-> {}]
    /\ dhtDiscoverySent = [n \in Node |-> FALSE]
    /\ net = {}

-----------------------------------------------------------------------------
(* The tables *)

\* Mutant: the table is replaced instead of extended.
ReplacePeers(table, peers) == IF peers = {} THEN table ELSE peers

\* AddPeer of each of the peers, which have distinct addresses: an address
\* that is in the table keeps its entry.
AddPeers(table, peers) ==
    table \cup {p \in peers : ~\E e \in table : e.addr = p.addr}

\* DHT::AddNode of each: a node id that is in the table keeps its address.
AddNodes(table, nodes) ==
    table \cup {p \in nodes : ~\E e \in table : e.key = p.key}

\* BuildPeerList: at most MaxListed peers.
PeerLists(table) ==
    {peers \in SUBSET table :
        \/ peers = table /\ Cardinality(table) =< MaxListed
        \/ Cardinality(peers) = MaxListed}

\* Mutant: own entries are not recognised.
NothingIsOwn(n, p) == FALSE

\* The entry a node skips when it reads a peer list: its own port on 127.0.0.1.
IsOwnEntry(n, p) == Loopback /\ p.addr = n

\* ProcessIncoming on a signed packet: it is dropped unless the peer table has
\* the sender, with the key that signed.
Verifies(n, src, key) == [addr |-> src, key |-> key] \in m_peers[n]

-----------------------------------------------------------------------------
(* The network *)

Register(n, s) == [type |-> "register", src |-> n, dst |-> s, key |-> Key(n)]
\* Mutant: the answer is built over the request and keeps its key.
EchoedResp(n, a) == [type |-> "register_resp", src |-> n, dst |-> a, key |-> Key(a)]
RegisterResp(n, a) == [type |-> "register_resp", src |-> n, dst |-> a, key |-> Key(n)]
Accepted(n, a) == [type |-> "accepted", src |-> n, dst |-> a]
PeerList(n, a, peers) ==
    [type |-> "peer_list", src |-> n, dst |-> a, key |-> Key(n), peers |-> peers]
FindNode(n, s) == [type |-> "find_node", src |-> n, dst |-> s]
Nodes(n, a, nodes) == [type |-> "nodes", src |-> n, dst |-> a, nodes |-> nodes]

\* What may follow a handshake: a peer list, unless the table is empty.
PeerListsTo(n, a, table) ==
    IF table = {} THEN {{}} ELSE {{PeerList(n, a, peers)} : peers \in PeerLists(table)}

\* m is received and out is sent.
Exchange(m, out) == net' = (IF Replays THEN net ELSE net \ {m}) \cup out

\* A packet is lost.
Lose ==
    /\ ~Replays
    /\ \E m \in net : m.type \in Lossy /\ net' = net \ {m}
    /\ UNCHANGED <<incarnation, restarts, tracker, m_peers, m_peerPublicKeys, m_dht,
                   dhtDiscoverySent>>

-----------------------------------------------------------------------------
(* The node's own steps *)

\* ConnectToSeeds: the trackers are created, and then registered if the seed
\* loop or a packet has not been faster.
CreateTrackers(n) ==
    /\ \E s \in SeedsOf[n] : tracker[n][s] = "Absent"
    /\ tracker' = [tracker EXCEPT ![n] = [s \in SeedsOf[n] |-> "Disconnected"]]
    /\ UNCHANGED <<incarnation, restarts, m_peers, m_peerPublicKeys, m_dht,
                   dhtDiscoverySent, net>>

Disconnected(n) == {s \in SeedsOf[n] : tracker[n][s] = "Disconnected"}

SendInitialRegistrations(n) ==
    /\ Disconnected(n) # {}
    /\ tracker' = [tracker EXCEPT ![n] =
                     [s \in SeedsOf[n] |->
                        IF s \in Disconnected(n) THEN "Connecting" ELSE tracker[n][s]]]
    /\ net' = net \cup {Register(n, s) : s \in Disconnected(n)}
    /\ UNCHANGED <<incarnation, restarts, m_peers, m_peerPublicKeys, m_dht,
                   dhtDiscoverySent>>

\* Mutant: the pass does not leave connected seeds alone.
RegistrableAlways(n) == {s \in SeedsOf[n] : tracker[n][s] # "Absent"}

\* The seeds a pass may register, and those it may give up.
Registrable(n) ==
    {s \in SeedsOf[n] : tracker[n][s] \in {"Disconnected", "Connecting", "Failed"}}

\* A pass of the seed loop that registers the seeds again and gives the seeds
\* gone up; once all are connected, FIND_NODE goes to each, for the only time.
RegistrationPass(n, again, gone) ==
    /\ again \subseteq Registrable(n)
    /\ gone \subseteq {s \in SeedsOf[n] : tracker[n][s] = "Connecting"} \ again
    /\ tracker' = [tracker EXCEPT ![n] =
                     [s \in SeedsOf[n] |->
                        IF s \in again THEN "Connecting"
                        ELSE IF s \in gone THEN "Failed" ELSE tracker[n][s]]]
    /\ LET discovery == /\ ~dhtDiscoverySent[n]
                        /\ SeedsOf[n] # {}
                        /\ \A s \in SeedsOf[n] : tracker'[n][s] = "Connected"
       IN  /\ dhtDiscoverySent' = [dhtDiscoverySent EXCEPT ![n] = @ \/ discovery]
           /\ net' = net \cup {Register(n, s) : s \in again}
                         \cup {FindNode(n, s) : s \in IF discovery THEN SeedsOf[n] ELSE {}}
    /\ UNCHANGED <<incarnation, restarts, m_peers, m_peerPublicKeys, m_dht>>

\* The process of n ends and starts again, with the identity of its
\* configuration file or, if that was lost, with a new one.
Restart(n) ==
    /\ restarts < MaxRestarts
    /\ restarts' = restarts + 1
    /\ \E k \in {incarnation[n], incarnation[n] + 1} :
          incarnation' = [incarnation EXCEPT ![n] = k]
    /\ tracker' = [tracker EXCEPT ![n] = [s \in SeedsOf[n] |-> "Absent"]]
    /\ m_peers' = [m_peers EXCEPT ![n] = {}]
    /\ m_peerPublicKeys' = [m_peerPublicKeys EXCEPT ![n] = {}]
    /\ m_dht' = [m_dht EXCEPT ![n] = {}]
    /\ dhtDiscoverySent' = [dhtDiscoverySent EXCEPT ![n] = FALSE]
    /\ UNCHANGED net

-----------------------------------------------------------------------------
(* The listener: HandleBootstrapPacket *)

\* The tracker of address a at n, if there is one, moves to state.
MoveTracker(n, a, state) ==
    tracker' = [tracker EXCEPT ![n] =
                  [s \in SeedsOf[n] |->
                     IF s = a /\ tracker[n][s] # "Absent" THEN state ELSE tracker[n][s]]]

\* Both steps that carry a key store it, and enter the sender as a peer.
LearnSender(m) ==
    /\ m_peerPublicKeys' = [m_peerPublicKeys EXCEPT ![m.dst] = @ \cup {m.key}]
    /\ m_peers' = [m_peers EXCEPT ![m.dst] =
                     AddPeers(@, {[addr |-> m.src, key |-> m.key]})]

\* Mutant: the peer list goes out with the first answer.
HandleRegisterWithList(m) ==
    /\ m.type = "register"
    /\ LearnSender(m)
    /\ m_dht' = [m_dht EXCEPT ![m.dst] = AddNodes(@, {[addr |-> m.src, key |-> m.key]})]
    /\ MoveTracker(m.dst, m.src, "Connecting")
    /\ \E list \in PeerListsTo(m.dst, m.src, m_peers'[m.dst]) :
          Exchange(m, {RegisterResp(m.dst, m.src)} \cup list)
    /\ UNCHANGED <<incarnation, restarts, dhtDiscoverySent>>

\* Mutant: a sender that is known is not answered.
HandleFirstRegister(m) ==
    /\ m.type = "register"
    /\ LearnSender(m)
    /\ m_dht' = [m_dht EXCEPT ![m.dst] = AddNodes(@, {[addr |-> m.src, key |-> m.key]})]
    /\ MoveTracker(m.dst, m.src, "Connecting")
    /\ Exchange(m, IF m.key \in m_peerPublicKeys[m.dst] THEN {} ELSE {RegisterResp(m.dst, m.src)})
    /\ UNCHANGED <<incarnation, restarts, dhtDiscoverySent>>

\* ers_register: answered whatever was known of the sender.
HandleRegister(m) ==
    /\ m.type = "register"
    /\ LearnSender(m)
    /\ m_dht' = [m_dht EXCEPT ![m.dst] = AddNodes(@, {[addr |-> m.src, key |-> m.key]})]
    /\ MoveTracker(m.dst, m.src, "Connecting")
    /\ Exchange(m, {RegisterResp(m.dst, m.src)})
    /\ UNCHANGED <<incarnation, restarts, dhtDiscoverySent>>

\* Mutant: the answer is acknowledged without storing what it carries.
AcknowledgeRegisterResp(m) ==
    /\ m.type = "register_resp"
    /\ MoveTracker(m.dst, m.src, "Connected")
    /\ Exchange(m, {Accepted(m.dst, m.src)})
    /\ UNCHANGED <<incarnation, restarts, dhtDiscoverySent, m_dht, m_peers, m_peerPublicKeys>>

\* ers_register_resp: the routing table is not told.
HandleRegisterResp(m) ==
    /\ m.type = "register_resp"
    /\ LearnSender(m)
    /\ MoveTracker(m.dst, m.src, "Connected")
    /\ \E list \in PeerListsTo(m.dst, m.src, m_peers'[m.dst]) :
          Exchange(m, {Accepted(m.dst, m.src)} \cup list)
    /\ UNCHANGED <<incarnation, restarts, m_dht, dhtDiscoverySent>>

\* ers_accepted carries no key; the sender need not be known.
HandleAccepted(m) ==
    /\ m.type = "accepted"
    /\ MoveTracker(m.dst, m.src, "Connected")
    /\ \E list \in PeerListsTo(m.dst, m.src, m_peers[m.dst]) : Exchange(m, list)
    /\ UNCHANGED <<incarnation, restarts, m_peers, m_peerPublicKeys, m_dht, dhtDiscoverySent>>

\* PT_PEER_LIST, the one packet of these that is signed.
HandlePeerList(m) ==
    /\ m.type = "peer_list"
    /\ LET learnt == IF Verifies(m.dst, m.src, m.key)
                     THEN {p \in m.peers : ~IsOwnEntry(m.dst, p)}
                     ELSE {}
       IN  /\ m_peers' = [m_peers EXCEPT ![m.dst] = AddPeers(@, learnt)]
           /\ m_dht' = [m_dht EXCEPT ![m.dst] = AddNodes(@, learnt)]
    /\ Exchange(m, {})
    /\ UNCHANGED <<incarnation, restarts, tracker, m_peerPublicKeys, dhtDiscoverySent>>

\* PT_DHT_FIND_NODE: the routing table, up to the 20 nodes closest to the target.
HandleFindNode(m) ==
    /\ m.type = "find_node"
    /\ Exchange(m, {Nodes(m.dst, m.src, m_dht[m.dst])})
    /\ UNCHANGED <<incarnation, restarts, tracker, m_peers, m_peerPublicKeys, m_dht,
                   dhtDiscoverySent>>

\* PT_DHT_FIND_NODE_RESPONSE: nobody's own entry is left out.
HandleNodes(m) ==
    /\ m.type = "nodes"
    /\ m_dht' = [m_dht EXCEPT ![m.dst] = AddNodes(@, m.nodes)]
    /\ Exchange(m, {})
    /\ UNCHANGED <<incarnation, restarts, tracker, m_peers, m_peerPublicKeys,
                   dhtDiscoverySent>>

Receive(m) ==
    \/ HandleRegister(m)
    \/ HandleRegisterResp(m)
    \/ HandleAccepted(m)
    \/ HandlePeerList(m)
    \/ HandleFindNode(m)
    \/ HandleNodes(m)

Next ==
    \/ \E n \in Node :
          \/ CreateTrackers(n)
          \/ SendInitialRegistrations(n)
          \/ \E again, gone \in SUBSET SeedsOf[n] : RegistrationPass(n, again, gone)
          \/ Restart(n)
    \/ \E m \in net : Receive(m)
    \/ Lose

Spec == Init /\ [][Next]_vars

ReceiveFrom(type, n, d) ==
    \E m \in net : m.type = type /\ m.src = n /\ m.dst = d /\ Receive(m)

\* ConnectToSeeds runs; the loop registers a seed that is not connected again
\* and again (SeedRegistration's KeepsTrying); of the REGISTERs sent again and
\* again, and of their answers, some are received; and a packet that is not
\* lost is received.
Fairness ==
    /\ \A n \in Node : WF_vars(CreateTrackers(n)) /\ WF_vars(SendInitialRegistrations(n))
    /\ \A n \in Node : \A d \in SeedsOf[n] :
          /\ WF_vars(\E gone \in SUBSET SeedsOf[n] : RegistrationPass(n, {d}, gone))
          /\ SF_vars(ReceiveFrom("register", n, d))
          /\ SF_vars(ReceiveFrom("register_resp", d, n))
          /\ WF_vars(ReceiveFrom("accepted", n, d))
          /\ WF_vars(ReceiveFrom("peer_list", d, n))

FairSpec == Spec /\ Fairness

-----------------------------------------------------------------------------
(* Properties *)

\* n can verify what a signs, and has a's key under a's peer_id.
Knows(n, a) ==
    /\ [addr |-> a, key |-> Key(a)] \in m_peers[n]
    /\ Key(a) \in m_peerPublicKeys[n]

\* Without restarts, a tracker is Connected only when both sides have the
\* other's key, whatever packets of how many attempts crossed, were lost, or
\* came twice: the three steps are enough for both.
MutualKeys ==
    \A n \in Node : \A s \in SeedsOf[n] :
        tracker[n][s] = "Connected" => Knows(n, s) /\ Knows(s, n)

\* Without restarts, a peer list is never sent to a node that has to drop it:
\* on every order of the handshakes the receiver already has the sender's key
\* in the table ProcessIncoming is given.
ListsVerify ==
    \A m \in net : m.type = "peer_list" => Verifies(m.dst, m.src, m.key)

\* The identity has been taken by its node; the entry has the address's own.
Issued(k) == k[2] =< incarnation[k[1]]
Genuine(p) == p.key[1] = p.addr /\ Issued(p.key)

\* No table ever binds an address to an identity another node has had, or to
\* one the address has not had yet, through any chain of peer lists, FIND_NODE
\* answers, restarts and packets delayed across them.
GenuineKeys ==
    \A n \in Node :
        /\ \A p \in m_peers[n] \cup m_dht[n] : Genuine(p)
        /\ \A k \in m_peerPublicKeys[n] : Issued(k)

\* Where all nodes share 127.0.0.1, no peer list makes a node its own peer,
\* not even the one of a seed it has registered with itself.
NeverOwnPeer == Loopback => \A n \in Node : \A p \in m_peers[n] : p.addr # n

\* Every seed is connected sooner or later, though any packet may be lost.
HandshakeCompletes ==
    \A n \in Node : \A s \in SeedsOf[n] : <>(tracker[n][s] = "Connected")

\* Without restarts, of any two nodes to which a third sends peer lists, one is
\* told of the other, in whatever order they register: no pair of clients can
\* both be served from a table the other is not yet in.
ListsIntroduce ==
    \A l, m \in net :
        /\ l.type = "peer_list" /\ m.type = "peer_list"
        /\ l.src = m.src /\ l.dst # m.dst
        /\ Cardinality(Node) =< MaxListed
        => \/ \E p \in l.peers : p.addr = m.dst
           \/ \E p \in m.peers : p.addr = l.dst

\* Without restarts, what each node does to its trackers is the lifecycle of
\* SeedLifecycle, which the threads of SeedRegistration implement.
Lifecycle(n) == INSTANCE SeedLifecycle WITH Seeds <- SeedsOf[n], seedState <- tracker[n]

TrackersFollowLifecycle ==
    [][\A n \in Node : Lifecycle(n)!LifecycleNext \/ UNCHANGED tracker[n]]_vars

-----------------------------------------------------------------------------
(* Inductive invariants *)

\* What is true of the packets: keys are their senders', and lists are genuine.
GenuinePacket(m) ==
    /\ m.type \in {"register", "register_resp", "peer_list"} =>
          m.key[1] = m.src /\ Issued(m.key)
    /\ m.type = "peer_list" => \A p \in m.peers : Genuine(p)
    /\ m.type = "nodes" => \A p \in m.nodes : Genuine(p)

\* With restarts: everything that is stored or under way is genuine.
GenuineInv ==
    /\ TypeOK
    /\ \A n \in Node : incarnation[n] =< restarts
    /\ GenuineKeys
    /\ \A m \in net : GenuinePacket(m)

\* What a packet of the handshake says of its two ends.
HandshakePacket(m) ==
    /\ m.type \in {"register_resp", "accepted"} => Knows(m.src, m.dst)
    /\ m.type \in {"accepted", "peer_list"} => Knows(m.dst, m.src)

\* Without restarts: keys are stored before they are relied on, at both ends.
HandshakeInv ==
    /\ GenuineInv
    /\ MutualKeys
    /\ \A m \in net : HandshakePacket(m)

IsList(m) == m.type = "peer_list"

\* Without restarts, and where a table fits in a list: a list is what its sender
\* had, its addressee included, and of two lists the later one has it all.
ListsInv ==
    /\ HandshakeInv
    /\ \A m \in net : IsList(m) =>
          /\ m.peers \subseteq m_peers[m.src]
          /\ \E p \in m.peers : p.addr = m.dst
    /\ \A l, m \in net : IsList(l) /\ IsList(m) /\ l.src = m.src =>
          l.peers \subseteq m.peers \/ m.peers \subseteq l.peers

\* A handshake is between two nodes.
BetweenTwo(m) == m.type \in {"register", "register_resp"} => m.src # m.dst

\* With restarts: nobody hears of itself, by a handshake or by a peer list.
OwnInv ==
    /\ GenuineInv
    /\ NeverOwnPeer
    /\ \A m \in net : BetweenTwo(m)

\* The trackers of a node are created together.
TrackersInv ==
    /\ GenuineInv
    /\ \A n \in Node : \A r, s \in SeedsOf[n] :
          tracker[n][r] = "Absent" => tracker[n][s] = "Absent"
=============================================================================
