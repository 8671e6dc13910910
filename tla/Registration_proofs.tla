-------------------------- MODULE Registration_proofs --------------------------
(***************************************************************************)
(* Proofs about Registration for every set of nodes, every configuration   *)
(* of seeds and every value of the other constants.                        *)
(***************************************************************************)
EXTENDS Registration, FiniteSetTheorems, TLAPS

-----------------------------------------------------------------------------
(* Packets and tables *)

\* What a packet of each type carries.
LEMMA PacketFields ==
    ASSUME NEW m \in Packets
    PROVE  /\ m.src \in Node /\ m.dst \in Node
           /\ m.type \in {"register", "register_resp", "peer_list"} => m.key \in Keys
           /\ m.type = "peer_list" => m.peers \in SUBSET PeerInfo
           /\ m.type = "nodes" => m.nodes \in SUBSET PeerInfo
BY DEF Packets

\* The packets a node makes are packets.
LEMMA MadePackets ==
    ASSUME NEW n \in Node, NEW d \in Node, Key(n) \in Keys
    PROVE  /\ Register(n, d) \in Packets
           /\ RegisterResp(n, d) \in Packets
           /\ Accepted(n, d) \in Packets
           /\ FindNode(n, d) \in Packets
           /\ \A peers \in SUBSET PeerInfo : PeerList(n, d, peers) \in Packets
           /\ \A nodes \in SUBSET PeerInfo : Nodes(n, d, nodes) \in Packets
BY DEF Register, RegisterResp, Accepted, FindNode, PeerList, Nodes, Packets

\* Keys are numbered by the restarts.
LEMMA KeyTypes == ASSUME TypeOK PROVE \A n \in Node : Key(n) \in Keys
BY DEF TypeOK, Key, Keys

\* A peer list is part of the table it is made from.
LEMMA ListsAreParts ==
    ASSUME NEW n, NEW d, NEW table, NEW list \in PeerListsTo(n, d, table), NEW m \in list
    PROVE  \E peers \in SUBSET table : m = PeerList(n, d, peers)
BY DEF PeerListsTo, PeerLists

\* Issued stays true as nodes take new identities.
LEMMA IssuedStays ==
    ASSUME TypeOK, TypeOK', NEW k \in Keys, Issued(k),
           \A n \in Node : incarnation[n] =< incarnation'[n]
    PROVE  Issued(k)'
<1>1. /\ k[1] \in Node /\ k[2] \in 0..MaxRestarts
      /\ incarnation[k[1]] \in Int /\ incarnation'[k[1]] \in Int
  BY RegistrationAssumption DEF TypeOK, Keys
<1>2. QED
  BY <1>1, RegistrationAssumption DEF Issued

-----------------------------------------------------------------------------
(* Genuine keys, whatever restarts *)

\* Nothing is stored or under way at the start.
LEMMA InitGenuine == Init => GenuineInv
BY RegistrationAssumption DEF Init, GenuineInv, TypeOK, GenuineKeys, TrackerStates

\* While nobody restarts, it is enough that what is new is genuine.
LEMMA GenuineStep ==
    ASSUME GenuineInv, TypeOK', UNCHANGED <<incarnation, restarts>>,
           \A n \in Node : \A p \in m_peers'[n] \cup m_dht'[n] : Genuine(p),
           \A n \in Node : \A k \in m_peerPublicKeys'[n] : Issued(k),
           \A m \in net' : GenuinePacket(m)
    PROVE  GenuineInv'
<1>1. \A k : Issued(k) <=> Issued(k)'
  BY DEF Issued
<1>2. \A p : Genuine(p) <=> Genuine(p)'
  BY <1>1 DEF Genuine
<1>3. \A m : GenuinePacket(m) <=> GenuinePacket(m)'
  BY <1>1, <1>2 DEF GenuinePacket
<1>4. GenuineKeys'
  BY <1>1, <1>2 DEF GenuineKeys
<1>5. QED
  BY <1>3, <1>4 DEF GenuineInv

\* The sender of a REGISTER or its answer is entered with its own key.
LEMMA SenderIsGenuine ==
    ASSUME GenuineInv, NEW m \in net, m.type \in {"register", "register_resp"}
    PROVE  /\ [addr |-> m.src, key |-> m.key] \in PeerInfo
           /\ Genuine([addr |-> m.src, key |-> m.key])
           /\ Issued(m.key)
<1>1. m \in Packets /\ GenuinePacket(m)
  BY DEF GenuineInv, TypeOK
<1>2. m.src \in Node /\ m.key \in Keys
  BY <1>1, PacketFields
<1>3. m.key[1] = m.src /\ Issued(m.key)
  BY <1>1 DEF GenuinePacket
<1>4. QED
  BY <1>2, <1>3 DEF PeerInfo, Genuine

\* So the tables stay genuine when it is learnt.
LEMMA LearnSenderGenuine ==
    ASSUME GenuineInv, NEW m \in net, m.type \in {"register", "register_resp"}, LearnSender(m)
    PROVE  /\ m_peers' \in [Node -> SUBSET PeerInfo]
           /\ m_peerPublicKeys' \in [Node -> SUBSET Keys]
           /\ \A n \in Node : \A p \in m_peers'[n] : Genuine(p)
           /\ \A n \in Node : \A k \in m_peerPublicKeys'[n] : Issued(k)
<1> DEFINE e == [addr |-> m.src, key |-> m.key]
<1>1. e \in PeerInfo /\ Genuine(e) /\ Issued(m.key)
  BY SenderIsGenuine
<1>2. m \in Packets /\ m.key \in Keys /\ m.dst \in Node
  BY PacketFields DEF GenuineInv, TypeOK
<1>3. /\ m_peers' = [m_peers EXCEPT ![m.dst] = AddPeers(@, {e})]
      /\ m_peerPublicKeys' = [m_peerPublicKeys EXCEPT ![m.dst] = @ \cup {m.key}]
  BY DEF LearnSender
<1>4. /\ m_peers \in [Node -> SUBSET PeerInfo]
      /\ m_peerPublicKeys \in [Node -> SUBSET Keys]
      /\ \A n \in Node : \A p \in m_peers[n] : Genuine(p)
      /\ \A n \in Node : \A k \in m_peerPublicKeys[n] : Issued(k)
  BY DEF GenuineInv, TypeOK, GenuineKeys
<1> HIDE DEF e
<1>5. QED
  BY <1>1, <1>2, <1>3, <1>4 DEF AddPeers

\* Moving trackers keeps their types.
LEMMA MoveTrackerTypes ==
    ASSUME TypeOK, NEW n \in Node, NEW d, NEW state \in TrackerStates, MoveTracker(n, d, state)
    PROVE  DOMAIN tracker' = Node /\ \A o \in Node : tracker'[o] \in [SeedsOf[o] -> TrackerStates]
<1>1. [s \in SeedsOf[n] |-> IF s = d /\ tracker[n][s] # "Absent" THEN state ELSE tracker[n][s]]
        \in [SeedsOf[n] -> TrackerStates]
  BY DEF TypeOK
<1>2. QED
  BY <1>1 DEF MoveTracker, TypeOK

\* A received packet leaves the network, if at all, to what it is answered with.
LEMMA ExchangeBound ==
    ASSUME NEW m, NEW out, Exchange(m, out)
    PROVE  net' \subseteq net \cup out
BY DEF Exchange

\* The packets a node makes out of its own key and tables are genuine.
LEMMA MadeGenuine ==
    ASSUME GenuineInv, NEW n \in Node, NEW d \in Node
    PROVE  /\ GenuinePacket(Register(n, d))
           /\ GenuinePacket(RegisterResp(n, d))
           /\ GenuinePacket(Accepted(n, d))
           /\ GenuinePacket(FindNode(n, d))
           /\ GenuinePacket(Nodes(n, d, m_dht[n]))
           /\ \A peers \in SUBSET PeerInfo :
                 (\A p \in peers : Genuine(p)) => GenuinePacket(PeerList(n, d, peers))
<1>1. Key(n)[1] = n /\ Issued(Key(n))
  BY RegistrationAssumption DEF GenuineInv, TypeOK, Key, Issued
<1>2. \A p \in m_dht[n] : Genuine(p)
  BY DEF GenuineInv, GenuineKeys
<1>3. QED
  BY <1>1, <1>2 DEF GenuinePacket, Register, RegisterResp, Accepted, FindNode, Nodes, PeerList

\* The handlers of packets keep everything genuine.
LEMMA ReceiveGenuine ==
    ASSUME GenuineInv, NEW m \in net, Receive(m)
    PROVE  GenuineInv'
<1>1. /\ TypeOK /\ m \in Packets /\ GenuinePacket(m)
      /\ m.src \in Node /\ m.dst \in Node
      /\ \A n \in Node : Key(n) \in Keys
  BY PacketFields, KeyTypes DEF GenuineInv, TypeOK
<1>2. /\ \A n \in Node : \A p \in m_peers[n] \cup m_dht[n] : Genuine(p)
      /\ \A n \in Node : \A k \in m_peerPublicKeys[n] : Issued(k)
      /\ \A o \in net : GenuinePacket(o)
      /\ m_peers \in [Node -> SUBSET PeerInfo]
      /\ m_dht \in [Node -> SUBSET PeerInfo]
  BY DEF GenuineInv, GenuineKeys, TypeOK
<1>3. CASE HandleRegister(m)
  <2> DEFINE e == [addr |-> m.src, key |-> m.key]
  <2>1. /\ m.type = "register" /\ LearnSender(m)
        /\ m_dht' = [m_dht EXCEPT ![m.dst] = AddNodes(@, {e})]
        /\ MoveTracker(m.dst, m.src, "Connecting")
        /\ Exchange(m, {RegisterResp(m.dst, m.src)})
        /\ UNCHANGED <<incarnation, restarts, dhtDiscoverySent>>
    BY <1>3 DEF HandleRegister
  <2>2. e \in PeerInfo /\ Genuine(e)
    BY <2>1, SenderIsGenuine
  <2> HIDE DEF e
  <2>3. /\ m_dht' \in [Node -> SUBSET PeerInfo]
        /\ \A n \in Node : \A p \in m_dht'[n] : Genuine(p)
    BY <1>1, <1>2, <2>1, <2>2 DEF AddNodes
  <2>4. /\ m_peers' \in [Node -> SUBSET PeerInfo]
        /\ m_peerPublicKeys' \in [Node -> SUBSET Keys]
        /\ \A n \in Node : \A p \in m_peers'[n] : Genuine(p)
        /\ \A n \in Node : \A k \in m_peerPublicKeys'[n] : Issued(k)
    BY <2>1, LearnSenderGenuine
  <2>5. net' \subseteq net \cup {RegisterResp(m.dst, m.src)}
    BY <2>1, ExchangeBound
  <2>6. net' \subseteq Packets /\ \A o \in net' : GenuinePacket(o)
    BY <1>1, <1>2, <2>5, MadePackets, MadeGenuine DEF TypeOK
  <2>7. DOMAIN tracker' = Node /\ \A o \in Node : tracker'[o] \in [SeedsOf[o] -> TrackerStates]
    BY <1>1, <2>1, MoveTrackerTypes DEF TrackerStates
  <2>8. TypeOK'
    BY <1>1, <2>1, <2>3, <2>4, <2>6, <2>7 DEF TypeOK
  <2>9. QED
    BY <2>1, <2>3, <2>4, <2>6, <2>8, GenuineStep
<1>4. CASE HandleRegisterResp(m)
  <2>1. /\ m.type = "register_resp" /\ LearnSender(m)
        /\ MoveTracker(m.dst, m.src, "Connected")
        /\ UNCHANGED <<incarnation, restarts, m_dht, dhtDiscoverySent>>
    BY <1>4 DEF HandleRegisterResp
  <2>2. PICK list \in PeerListsTo(m.dst, m.src, m_peers'[m.dst]) :
           Exchange(m, {Accepted(m.dst, m.src)} \cup list)
    BY <1>4 DEF HandleRegisterResp
  <2>3. /\ m_peers' \in [Node -> SUBSET PeerInfo]
        /\ m_peerPublicKeys' \in [Node -> SUBSET Keys]
        /\ \A n \in Node : \A p \in m_peers'[n] : Genuine(p)
        /\ \A n \in Node : \A k \in m_peerPublicKeys'[n] : Issued(k)
    BY <2>1, LearnSenderGenuine
  <2>4. \A o \in list : o \in Packets /\ GenuinePacket(o)
    <3> SUFFICES ASSUME NEW o \in list PROVE o \in Packets /\ GenuinePacket(o)
      OBVIOUS
    <3>1. PICK peers \in SUBSET m_peers'[m.dst] : o = PeerList(m.dst, m.src, peers)
      BY ListsAreParts
    <3>2. peers \in SUBSET PeerInfo /\ \A p \in peers : Genuine(p)
      BY <1>1, <2>3
    <3>3. QED
      BY <1>1, <3>1, <3>2, MadePackets, MadeGenuine
  <2>5. net' \subseteq net \cup ({Accepted(m.dst, m.src)} \cup list)
    BY <2>2, ExchangeBound
  <2>6. net' \subseteq Packets /\ \A o \in net' : GenuinePacket(o)
    BY <1>1, <1>2, <2>4, <2>5, MadePackets, MadeGenuine DEF TypeOK
  <2>7. DOMAIN tracker' = Node /\ \A o \in Node : tracker'[o] \in [SeedsOf[o] -> TrackerStates]
    BY <1>1, <2>1, MoveTrackerTypes DEF TrackerStates
  <2>8. TypeOK'
    BY <1>1, <2>1, <2>3, <2>6, <2>7 DEF TypeOK
  <2>9. QED
    BY <1>2, <2>1, <2>3, <2>6, <2>8, GenuineStep
<1>5. CASE HandleAccepted(m)
  <2>1. /\ MoveTracker(m.dst, m.src, "Connected")
        /\ UNCHANGED <<incarnation, restarts, m_peers, m_peerPublicKeys, m_dht, dhtDiscoverySent>>
    BY <1>5 DEF HandleAccepted
  <2>2. PICK list \in PeerListsTo(m.dst, m.src, m_peers[m.dst]) : Exchange(m, list)
    BY <1>5 DEF HandleAccepted
  <2>3. \A o \in list : o \in Packets /\ GenuinePacket(o)
    <3> SUFFICES ASSUME NEW o \in list PROVE o \in Packets /\ GenuinePacket(o)
      OBVIOUS
    <3>1. PICK peers \in SUBSET m_peers[m.dst] : o = PeerList(m.dst, m.src, peers)
      BY ListsAreParts
    <3>2. peers \in SUBSET PeerInfo /\ \A p \in peers : Genuine(p)
      BY <1>1, <1>2
    <3>3. QED
      BY <1>1, <3>1, <3>2, MadePackets, MadeGenuine
  <2>4. net' \subseteq net \cup list
    BY <2>2, ExchangeBound
  <2>5. net' \subseteq Packets /\ \A o \in net' : GenuinePacket(o)
    BY <1>1, <1>2, <2>3, <2>4 DEF TypeOK
  <2>6. DOMAIN tracker' = Node /\ \A o \in Node : tracker'[o] \in [SeedsOf[o] -> TrackerStates]
    BY <1>1, <2>1, MoveTrackerTypes DEF TrackerStates
  <2>7. TypeOK'
    BY <1>1, <2>1, <2>5, <2>6 DEF TypeOK
  <2>8. QED
    BY <1>2, <2>1, <2>5, <2>7, GenuineStep
<1>6. CASE HandlePeerList(m)
  <2> DEFINE learnt == IF Verifies(m.dst, m.src, m.key)
                       THEN {p \in m.peers : ~IsOwnEntry(m.dst, p)}
                       ELSE {}
  <2>1. /\ m.type = "peer_list"
        /\ m_peers' = [m_peers EXCEPT ![m.dst] = AddPeers(@, learnt)]
        /\ m_dht' = [m_dht EXCEPT ![m.dst] = AddNodes(@, learnt)]
        /\ Exchange(m, {})
        /\ UNCHANGED <<incarnation, restarts, tracker, m_peerPublicKeys, dhtDiscoverySent>>
    BY <1>6 DEF HandlePeerList
  <2>2. learnt \subseteq PeerInfo /\ \A p \in learnt : Genuine(p)
    BY <1>1, <2>1, PacketFields DEF GenuinePacket
  <2> HIDE DEF learnt
  <2>3. /\ m_peers' \in [Node -> SUBSET PeerInfo]
        /\ m_dht' \in [Node -> SUBSET PeerInfo]
        /\ \A n \in Node : \A p \in m_peers'[n] \cup m_dht'[n] : Genuine(p)
    BY <1>1, <1>2, <2>1, <2>2 DEF AddPeers, AddNodes
  <2>4. net' \subseteq net
    BY <2>1, ExchangeBound
  <2>5. TypeOK'
    BY <1>1, <2>1, <2>3, <2>4 DEF TypeOK
  <2>6. QED
    BY <1>2, <2>1, <2>3, <2>4, <2>5, GenuineStep
<1>7. CASE HandleFindNode(m)
  <2>1. /\ Exchange(m, {Nodes(m.dst, m.src, m_dht[m.dst])})
        /\ UNCHANGED <<incarnation, restarts, tracker, m_peers, m_peerPublicKeys, m_dht,
                       dhtDiscoverySent>>
    BY <1>7 DEF HandleFindNode
  <2>2. net' \subseteq net \cup {Nodes(m.dst, m.src, m_dht[m.dst])}
    BY <2>1, ExchangeBound
  <2>3. m_dht[m.dst] \in SUBSET PeerInfo
    BY <1>1, <1>2
  <2>4. net' \subseteq Packets /\ \A o \in net' : GenuinePacket(o)
    BY <1>1, <1>2, <2>2, <2>3, MadePackets, MadeGenuine DEF TypeOK
  <2>5. TypeOK'
    BY <1>1, <2>1, <2>4 DEF TypeOK
  <2>6. QED
    BY <1>2, <2>1, <2>4, <2>5, GenuineStep
<1>8. CASE HandleNodes(m)
  <2>1. /\ m.type = "nodes"
        /\ m_dht' = [m_dht EXCEPT ![m.dst] = AddNodes(@, m.nodes)]
        /\ Exchange(m, {})
        /\ UNCHANGED <<incarnation, restarts, tracker, m_peers, m_peerPublicKeys,
                       dhtDiscoverySent>>
    BY <1>8 DEF HandleNodes
  <2>2. m.nodes \subseteq PeerInfo /\ \A p \in m.nodes : Genuine(p)
    BY <1>1, <2>1, PacketFields DEF GenuinePacket
  <2>3. /\ m_dht' \in [Node -> SUBSET PeerInfo]
        /\ \A n \in Node : \A p \in m_dht'[n] : Genuine(p)
    BY <1>1, <1>2, <2>1, <2>2 DEF AddNodes
  <2>4. net' \subseteq net
    BY <2>1, ExchangeBound
  <2>5. TypeOK'
    BY <1>1, <2>1, <2>3, <2>4 DEF TypeOK
  <2>6. QED
    BY <1>2, <2>1, <2>3, <2>4, <2>5, GenuineStep
<1>9. QED
  BY <1>3, <1>4, <1>5, <1>6, <1>7, <1>8 DEF Receive

\* A restart: old packets and entries stay genuine, since identities only grow.
LEMMA RestartGenuine ==
    ASSUME GenuineInv, NEW n \in Node, Restart(n)
    PROVE  GenuineInv'
<1>1. /\ restarts < MaxRestarts /\ restarts' = restarts + 1
      /\ restarts \in Nat /\ incarnation \in [Node -> Nat]
      /\ \A o \in Node : incarnation[o] =< restarts
      /\ MaxRestarts \in Nat
  BY RegistrationAssumption DEF Restart, GenuineInv, TypeOK
<1>2. PICK k \in {incarnation[n], incarnation[n] + 1} :
         incarnation' = [incarnation EXCEPT ![n] = k]
  BY DEF Restart
<1>3. \A o \in Node : /\ incarnation[o] =< incarnation'[o]
                      /\ incarnation'[o] =< restarts'
  BY <1>1, <1>2
<1>4. TypeOK'
  <2>1. incarnation' \in [Node -> 0..MaxRestarts] /\ restarts' \in 0..MaxRestarts
    BY <1>1, <1>2
  <2>2. DOMAIN tracker' = Node /\ \A o \in Node : tracker'[o] \in [SeedsOf[o] -> TrackerStates]
    BY DEF Restart, GenuineInv, TypeOK, TrackerStates
  <2>3. QED
    BY <2>1, <2>2 DEF Restart, GenuineInv, TypeOK
<1>5. \A i \in Keys : Issued(i) => Issued(i)'
  BY <1>3, <1>4, IssuedStays DEF GenuineInv
<1>6. \A p \in PeerInfo : Genuine(p) => Genuine(p)'
  BY <1>5 DEF Genuine, PeerInfo
<1>7. \A m \in net' : GenuinePacket(m)'
  <2> SUFFICES ASSUME NEW m \in net PROVE GenuinePacket(m)'
    BY DEF Restart
  <2>1. m \in Packets /\ GenuinePacket(m)
    BY DEF GenuineInv, TypeOK
  <2>2. /\ m.type \in {"register", "register_resp", "peer_list"} => m.key \in Keys
        /\ m.type = "peer_list" => m.peers \in SUBSET PeerInfo
        /\ m.type = "nodes" => m.nodes \in SUBSET PeerInfo
    BY <2>1, PacketFields
  <2>3. QED
    BY <1>5, <1>6, <2>1, <2>2 DEF GenuinePacket
<1>8. GenuineKeys'
  <2> SUFFICES ASSUME NEW o \in Node
               PROVE  /\ \A p \in m_peers'[o] \cup m_dht'[o] : Genuine(p)'
                      /\ \A i \in m_peerPublicKeys'[o] : Issued(i)'
    BY DEF GenuineKeys
  <2>1. /\ m_peers'[o] \subseteq m_peers[o] /\ m_dht'[o] \subseteq m_dht[o]
        /\ m_peerPublicKeys'[o] \subseteq m_peerPublicKeys[o]
        /\ m_peers[o] \subseteq PeerInfo /\ m_dht[o] \subseteq PeerInfo
        /\ m_peerPublicKeys[o] \subseteq Keys
    BY DEF Restart, GenuineInv, TypeOK
  <2>2. QED
    BY <1>5, <1>6, <2>1 DEF GenuineInv, GenuineKeys
<1>9. QED
  BY <1>3, <1>4, <1>7, <1>8 DEF GenuineInv

\* So does every step.
LEMMA NextGenuine == GenuineInv /\ [Next]_vars => GenuineInv'
<1> SUFFICES ASSUME GenuineInv, [Next]_vars PROVE GenuineInv'
  OBVIOUS
<1>1. /\ TypeOK
      /\ \A n \in Node : \A p \in m_peers[n] \cup m_dht[n] : Genuine(p)
      /\ \A n \in Node : \A k \in m_peerPublicKeys[n] : Issued(k)
      /\ \A m \in net : GenuinePacket(m)
      /\ \A n \in Node : SeedsOf[n] \subseteq Node /\ Key(n) \in Keys
  BY KeyTypes, RegistrationAssumption DEF GenuineInv, GenuineKeys
<1>2. ASSUME NEW n \in Node, CreateTrackers(n) PROVE GenuineInv'
  <2>1. /\ tracker' = [tracker EXCEPT ![n] = [s \in SeedsOf[n] |-> "Disconnected"]]
        /\ UNCHANGED <<incarnation, restarts, m_peers, m_peerPublicKeys, m_dht,
                       dhtDiscoverySent, net>>
    BY <1>2 DEF CreateTrackers
  <2>2. TypeOK'
    BY <1>1, <2>1 DEF TypeOK, TrackerStates
  <2>3. QED
    BY <1>1, <2>1, <2>2, GenuineStep
<1>3. ASSUME NEW n \in Node, SendInitialRegistrations(n) PROVE GenuineInv'
  <2>1. /\ tracker' = [tracker EXCEPT ![n] =
                         [s \in SeedsOf[n] |->
                            IF s \in Disconnected(n) THEN "Connecting" ELSE tracker[n][s]]]
        /\ net' = net \cup {Register(n, s) : s \in Disconnected(n)}
        /\ UNCHANGED <<incarnation, restarts, m_peers, m_peerPublicKeys, m_dht,
                       dhtDiscoverySent>>
    BY <1>3 DEF SendInitialRegistrations
  <2>2. Disconnected(n) \subseteq Node
    BY <1>1 DEF Disconnected
  <2>3. net' \subseteq Packets /\ \A m \in net' : GenuinePacket(m)
    BY <1>1, <2>1, <2>2, MadePackets, MadeGenuine DEF TypeOK
  <2>4. TypeOK'
    BY <1>1, <2>1, <2>3 DEF TypeOK, TrackerStates
  <2>5. QED
    BY <1>1, <2>1, <2>3, <2>4, GenuineStep
<1>4. ASSUME NEW n \in Node, NEW again \in SUBSET SeedsOf[n], NEW gone \in SUBSET SeedsOf[n],
             RegistrationPass(n, again, gone)
      PROVE  GenuineInv'
  <2>1. /\ tracker' = [tracker EXCEPT ![n] =
                         [s \in SeedsOf[n] |->
                            IF s \in again THEN "Connecting"
                            ELSE IF s \in gone THEN "Failed" ELSE tracker[n][s]]]
        /\ UNCHANGED <<incarnation, restarts, m_peers, m_peerPublicKeys, m_dht>>
    BY <1>4 DEF RegistrationPass
  <2>2. net' \subseteq net \cup {Register(n, s) : s \in again} \cup {FindNode(n, s) : s \in SeedsOf[n]}
    BY <1>4 DEF RegistrationPass
  <2>3. net' \subseteq Packets /\ \A m \in net' : GenuinePacket(m)
    BY <1>1, <2>2, MadePackets, MadeGenuine DEF TypeOK
  <2>4. dhtDiscoverySent' \in [Node -> BOOLEAN]
    BY <1>1, <1>4 DEF RegistrationPass, TypeOK
  <2>5. TypeOK'
    BY <1>1, <2>1, <2>3, <2>4 DEF TypeOK, TrackerStates
  <2>6. QED
    BY <1>1, <2>1, <2>3, <2>5, GenuineStep
<1>5. ASSUME NEW n \in Node, Restart(n) PROVE GenuineInv'
  BY <1>5, RestartGenuine
<1>6. ASSUME NEW m \in net, Receive(m) PROVE GenuineInv'
  BY <1>6, ReceiveGenuine
<1>7. CASE Lose
  <2>1. /\ net' \subseteq net
        /\ UNCHANGED <<incarnation, restarts, tracker, m_peers, m_peerPublicKeys, m_dht,
                       dhtDiscoverySent>>
    BY <1>7 DEF Lose
  <2>2. TypeOK'
    BY <1>1, <2>1 DEF TypeOK
  <2>3. QED
    BY <1>1, <2>1, <2>2, GenuineStep
<1>8. CASE UNCHANGED vars
  <2>1. UNCHANGED <<incarnation, restarts, tracker, m_peers, m_peerPublicKeys, m_dht,
                    dhtDiscoverySent, net>>
    BY <1>8 DEF vars
  <2>2. TypeOK'
    BY <1>1, <2>1 DEF TypeOK
  <2>3. QED
    BY <1>1, <2>1, <2>2, GenuineStep
<1>9. QED
  BY <1>2, <1>3, <1>4, <1>5, <1>6, <1>7, <1>8 DEF Next

\* Everything stored or under way is genuine, for every number of nodes and
\* restarts and any loss, repetition and reordering of packets.
THEOREM GenuineInvariant == Spec => []GenuineInv
<1>1. QED
  BY InitGenuine, NextGenuine, PTL DEF Spec

\* GenuineKeys for every configuration: no chain of registrations, peer lists,
\* FIND_NODE answers and restarts binds an address to another node's identity.
THEOREM KeysAreGenuine == Spec => []GenuineKeys
<1>1. GenuineInv => GenuineKeys
  BY DEF GenuineInv
<1>2. QED
  BY <1>1, GenuineInvariant, PTL

-----------------------------------------------------------------------------
(* The handshake, without restarts *)

\* Without restarts an address has one key, so a genuine entry is the entry.
LEMMA OneKey ==
    ASSUME MaxRestarts = 0, TypeOK, NEW p \in PeerInfo, Genuine(p)
    PROVE  p.key = Key(p.addr)
<1>1. p.key \in Keys /\ p.addr \in Node /\ p.key[1] = p.addr
  BY DEF PeerInfo, Genuine
<1>2. p.key = <<p.key[1], p.key[2]>> /\ p.key[2] = 0
  BY <1>1 DEF Keys
<1>3. incarnation[p.addr] = 0
  BY <1>1 DEF TypeOK
<1>4. QED
  BY <1>1, <1>2, <1>3 DEF Key

\* The node that handles a REGISTER or its answer knows the sender afterwards.
LEMMA LearnSenderKnows ==
    ASSUME MaxRestarts = 0, GenuineInv, NEW m \in net,
           m.type \in {"register", "register_resp"}, LearnSender(m), UNCHANGED incarnation
    PROVE  Knows(m.dst, m.src)'
<1> DEFINE e == [addr |-> m.src, key |-> m.key]
<1>1. e \in PeerInfo /\ Genuine(e) /\ e.addr = m.src /\ e.key = m.key
  BY SenderIsGenuine
<1>2. m.key = Key(m.src) /\ TypeOK
  BY <1>1, OneKey DEF GenuineInv
<1>3. m.dst \in Node
  BY PacketFields DEF GenuineInv, TypeOK
<1>4. /\ m_peers'[m.dst] = AddPeers(m_peers[m.dst], {e})
      /\ m.key \in m_peerPublicKeys'[m.dst]
  BY <1>2, <1>3 DEF LearnSender, TypeOK
<1>5. e \in m_peers'[m.dst]
  <2>1. CASE ~\E p \in m_peers[m.dst] : p.addr = m.src
    BY <1>1, <1>4, <2>1 DEF AddPeers
  <2>2. CASE \E p \in m_peers[m.dst] : p.addr = m.src
    <3>1. PICK p \in m_peers[m.dst] : p.addr = m.src
      BY <2>2
    <3>2. p \in PeerInfo /\ Genuine(p)
      BY <1>2, <1>3 DEF GenuineInv, GenuineKeys, TypeOK
    <3>3. p.key = m.key
      BY <1>2, <3>1, <3>2, OneKey
    <3>4. p = e
      BY <3>1, <3>2, <3>3 DEF PeerInfo
    <3>5. QED
      BY <1>4, <3>4 DEF AddPeers
  <2>3. QED
    BY <2>1, <2>2
<1>6. Key(m.src)' = Key(m.src)
  BY DEF Key
<1>7. QED
  BY <1>2, <1>4, <1>5, <1>6 DEF Knows

\* What is true of a packet or a tracker stays true while the tables grow.
LEMMA KnowsStays ==
    ASSUME UNCHANGED incarnation, NEW n \in Node, NEW a, Knows(n, a),
           \A o \in Node : m_peers[o] \subseteq m_peers'[o],
           \A o \in Node : m_peerPublicKeys[o] \subseteq m_peerPublicKeys'[o]
    PROVE  Knows(n, a)'
BY DEF Knows, Key

\* So only the packets and the connections that are new have to be looked at.
LEMMA HandshakeStep ==
    ASSUME HandshakeInv, GenuineInv', UNCHANGED incarnation,
           \A o \in Node : m_peers[o] \subseteq m_peers'[o],
           \A o \in Node : m_peerPublicKeys[o] \subseteq m_peerPublicKeys'[o],
           \A m \in net' : m \in net \/ HandshakePacket(m)',
           \A n \in Node : \A s \in SeedsOf[n] :
               tracker'[n][s] = "Connected"
                   => tracker[n][s] = "Connected" \/ (Knows(n, s)' /\ Knows(s, n)')
    PROVE  HandshakeInv'
<1>1. \A n, a \in Node : Knows(n, a) => Knows(n, a)'
  BY KnowsStays
<1>2. MutualKeys'
  <2> SUFFICES ASSUME NEW n \in Node, NEW s \in SeedsOf[n], tracker'[n][s] = "Connected"
               PROVE  Knows(n, s)' /\ Knows(s, n)'
    BY DEF MutualKeys
  <2>1. s \in Node
    BY RegistrationAssumption
  <2>2. tracker[n][s] = "Connected" => Knows(n, s) /\ Knows(s, n)
    BY DEF HandshakeInv, MutualKeys
  <2>3. QED
    BY <1>1, <2>1, <2>2
<1>3. \A m \in net : HandshakePacket(m)'
  <2> SUFFICES ASSUME NEW m \in net PROVE HandshakePacket(m)'
    OBVIOUS
  <2>1. m.src \in Node /\ m.dst \in Node
    BY PacketFields DEF HandshakeInv, GenuineInv, TypeOK
  <2>2. HandshakePacket(m)
    BY DEF HandshakeInv
  <2>3. QED
    BY <1>1, <2>1, <2>2 DEF HandshakePacket
<1>4. QED
  BY <1>2, <1>3 DEF HandshakeInv

\* Learning a sender only adds to the tables.
LEMMA LearnSenderGrows ==
    ASSUME GenuineInv, NEW m \in net, LearnSender(m)
    PROVE  /\ \A o \in Node : m_peers[o] \subseteq m_peers'[o]
           /\ \A o \in Node : m_peerPublicKeys[o] \subseteq m_peerPublicKeys'[o]
<1>1. m.dst \in Node
  BY PacketFields DEF GenuineInv, TypeOK
<1>2. /\ m_peers' = [m_peers EXCEPT ![m.dst] =
                       m_peers[m.dst] \cup
                         {p \in {[addr |-> m.src, key |-> m.key]} :
                             ~\E e \in m_peers[m.dst] : e.addr = p.addr}]
      /\ m_peerPublicKeys' =
           [m_peerPublicKeys EXCEPT ![m.dst] = m_peerPublicKeys[m.dst] \cup {m.key}]
      /\ DOMAIN m_peers = Node /\ DOMAIN m_peerPublicKeys = Node
  BY DEF LearnSender, AddPeers, GenuineInv, TypeOK
<1>3. QED
  BY <1>1, <1>2

\* A tracker that a packet makes Connected is the one of the packet's sender.
LEMMA MoveTrackerBound ==
    ASSUME TypeOK, NEW n \in Node, NEW d, NEW state, MoveTracker(n, d, state),
           NEW o \in Node, NEW s \in SeedsOf[o], tracker'[o][s] = "Connected"
    PROVE  tracker[o][s] = "Connected" \/ (o = n /\ s = d /\ state = "Connected")
BY DEF MoveTracker, TypeOK

\* The packets that a node sends and that say nothing of the handshake.
LEMMA OtherPackets ==
    ASSUME NEW m, NEW n, NEW d,
           \/ m = Register(n, d)
           \/ m = FindNode(n, d)
           \/ \E nodes : m = Nodes(n, d, nodes)
    PROVE  HandshakePacket(m)'
BY DEF HandshakePacket, Register, FindNode, Nodes

\* What each packet of the handshake needs of its two ends.
LEMMA HandshakePackets ==
    ASSUME NEW m, NEW n, NEW d,
           \/ m = RegisterResp(n, d) /\ Knows(n, d)'
           \/ m = Accepted(n, d) /\ Knows(n, d)' /\ Knows(d, n)'
           \/ (\E peers : m = PeerList(n, d, peers)) /\ Knows(d, n)'
    PROVE  HandshakePacket(m)'
BY DEF HandshakePacket, RegisterResp, Accepted, PeerList

\* The handlers of packets keep the handshake sound.
LEMMA ReceiveHandshake ==
    ASSUME MaxRestarts = 0, HandshakeInv, NEW m \in net, Receive(m)
    PROVE  HandshakeInv'
<1>1. /\ GenuineInv /\ TypeOK /\ HandshakePacket(m)
      /\ m.src \in Node /\ m.dst \in Node
  BY PacketFields DEF HandshakeInv, GenuineInv, TypeOK
<1>2. GenuineInv'
  BY <1>1, ReceiveGenuine
<1>3. CASE HandleRegister(m)
  <2>1. /\ m.type = "register" /\ LearnSender(m)
        /\ MoveTracker(m.dst, m.src, "Connecting")
        /\ Exchange(m, {RegisterResp(m.dst, m.src)})
        /\ UNCHANGED incarnation
    BY <1>3 DEF HandleRegister
  <2>2. Knows(m.dst, m.src)'
    BY <1>1, <2>1, LearnSenderKnows
  <2>3. /\ \A o \in Node : m_peers[o] \subseteq m_peers'[o]
        /\ \A o \in Node : m_peerPublicKeys[o] \subseteq m_peerPublicKeys'[o]
    BY <1>1, <2>1, LearnSenderGrows
  <2>4. \A o \in net' : o \in net \/ HandshakePacket(o)'
    BY <2>1, <2>2, ExchangeBound, HandshakePackets
  <2>5. \A n \in Node : \A s \in SeedsOf[n] :
           tracker'[n][s] = "Connected" => tracker[n][s] = "Connected"
    BY <1>1, <2>1, MoveTrackerBound
  <2>6. QED
    BY <1>2, <2>1, <2>3, <2>4, <2>5, HandshakeStep
<1>4. CASE HandleRegisterResp(m)
  <2>1. /\ m.type = "register_resp" /\ LearnSender(m)
        /\ MoveTracker(m.dst, m.src, "Connected")
        /\ UNCHANGED incarnation
    BY <1>4 DEF HandleRegisterResp
  <2>2. PICK list \in PeerListsTo(m.dst, m.src, m_peers'[m.dst]) :
           Exchange(m, {Accepted(m.dst, m.src)} \cup list)
    BY <1>4 DEF HandleRegisterResp
  <2>3. /\ \A o \in Node : m_peers[o] \subseteq m_peers'[o]
        /\ \A o \in Node : m_peerPublicKeys[o] \subseteq m_peerPublicKeys'[o]
    BY <1>1, <2>1, LearnSenderGrows
  <2>4. Knows(m.dst, m.src)'
    BY <1>1, <2>1, LearnSenderKnows
  <2>5. Knows(m.src, m.dst)'
    <3>1. Knows(m.src, m.dst)
      BY <1>1, <2>1 DEF HandshakePacket
    <3>2. QED
      BY <1>1, <2>1, <2>3, <3>1, KnowsStays
  <2>6. \A o \in list : HandshakePacket(o)'
    BY <2>5, ListsAreParts, HandshakePackets
  <2>7. \A o \in net' : o \in net \/ HandshakePacket(o)'
    BY <2>2, <2>4, <2>5, <2>6, ExchangeBound, HandshakePackets
  <2>8. \A n \in Node : \A s \in SeedsOf[n] :
           tracker'[n][s] = "Connected" =>
               tracker[n][s] = "Connected" \/ (n = m.dst /\ s = m.src)
    BY <1>1, <2>1, MoveTrackerBound
  <2>9. QED
    BY <1>2, <2>1, <2>3, <2>4, <2>5, <2>7, <2>8, HandshakeStep
<1>5. CASE HandleAccepted(m)
  <2>1. /\ m.type = "accepted"
        /\ MoveTracker(m.dst, m.src, "Connected")
        /\ UNCHANGED <<incarnation, m_peers, m_peerPublicKeys>>
    BY <1>5 DEF HandleAccepted
  <2>2. PICK list \in PeerListsTo(m.dst, m.src, m_peers[m.dst]) : Exchange(m, list)
    BY <1>5 DEF HandleAccepted
  <2>3. Knows(m.dst, m.src) /\ Knows(m.src, m.dst)
    BY <1>1, <2>1 DEF HandshakePacket
  <2>4. Knows(m.dst, m.src)' /\ Knows(m.src, m.dst)'
    BY <1>1, <2>1, <2>3, KnowsStays
  <2>5. \A o \in list : HandshakePacket(o)'
    <3> SUFFICES ASSUME NEW o \in list PROVE HandshakePacket(o)'
      OBVIOUS
    <3>1. \E peers : o = PeerList(m.dst, m.src, peers)
      BY ListsAreParts
    <3>2. QED
      BY <2>4, <3>1, HandshakePackets
  <2>6. \A o \in net' : o \in net \/ HandshakePacket(o)'
    BY <2>2, <2>5, ExchangeBound
  <2>7. \A n \in Node : \A s \in SeedsOf[n] :
           tracker'[n][s] = "Connected" =>
               tracker[n][s] = "Connected" \/ (n = m.dst /\ s = m.src)
    BY <1>1, <2>1, MoveTrackerBound
  <2>8. QED
    BY <1>2, <2>1, <2>4, <2>6, <2>7, HandshakeStep
<1>6. CASE HandlePeerList(m)
  <2>1. /\ \E learnt : m_peers' = [m_peers EXCEPT ![m.dst] = AddPeers(@, learnt)]
        /\ Exchange(m, {})
        /\ UNCHANGED <<incarnation, tracker, m_peerPublicKeys>>
    BY <1>6 DEF HandlePeerList
  <2>2. \A o \in Node : m_peers[o] \subseteq m_peers'[o]
    BY <1>1, <2>1 DEF AddPeers, TypeOK
  <2>3. net' \subseteq net
    BY <2>1, ExchangeBound
  <2>4. QED
    BY <1>2, <2>1, <2>2, <2>3, HandshakeStep
<1>7. CASE HandleFindNode(m)
  <2>1. /\ Exchange(m, {Nodes(m.dst, m.src, m_dht[m.dst])})
        /\ UNCHANGED <<incarnation, tracker, m_peers, m_peerPublicKeys>>
    BY <1>7 DEF HandleFindNode
  <2>2. \A o \in net' : o \in net \/ HandshakePacket(o)'
    <3> SUFFICES ASSUME NEW o, o = Nodes(m.dst, m.src, m_dht[m.dst]) PROVE HandshakePacket(o)'
      BY <2>1, ExchangeBound
    <3>1. \E nodes : o = Nodes(m.dst, m.src, nodes)
      OBVIOUS
    <3>2. QED
      BY <3>1, OtherPackets
  <2>3. QED
    BY <1>2, <2>1, <2>2, HandshakeStep
<1>8. CASE HandleNodes(m)
  <2>1. /\ Exchange(m, {})
        /\ UNCHANGED <<incarnation, tracker, m_peers, m_peerPublicKeys>>
    BY <1>8 DEF HandleNodes
  <2>2. net' \subseteq net
    BY <2>1, ExchangeBound
  <2>3. QED
    BY <1>2, <2>1, <2>2, HandshakeStep
<1>9. QED
  BY <1>3, <1>4, <1>5, <1>6, <1>7, <1>8 DEF Receive

\* So does every step of a network whose nodes do not restart.
LEMMA NextHandshake ==
    ASSUME MaxRestarts = 0
    PROVE  HandshakeInv /\ [Next]_vars => HandshakeInv'
<1> SUFFICES ASSUME HandshakeInv, [Next]_vars PROVE HandshakeInv'
  OBVIOUS
<1>1. GenuineInv /\ TypeOK
  BY DEF HandshakeInv, GenuineInv
<1>2. GenuineInv'
  BY <1>1, NextGenuine
<1>3. ASSUME NEW n \in Node, CreateTrackers(n) PROVE HandshakeInv'
  <2>1. /\ tracker' = [tracker EXCEPT ![n] = [s \in SeedsOf[n] |-> "Disconnected"]]
        /\ UNCHANGED <<incarnation, m_peers, m_peerPublicKeys, net>>
    BY <1>3 DEF CreateTrackers
  <2>2. \A o \in Node : \A s \in SeedsOf[o] :
           tracker'[o][s] = "Connected" => tracker[o][s] = "Connected"
    BY <1>1, <2>1 DEF TypeOK
  <2>3. QED
    BY <1>2, <2>1, <2>2, HandshakeStep
<1>4. ASSUME NEW n \in Node, SendInitialRegistrations(n) PROVE HandshakeInv'
  <2>1. /\ tracker' = [tracker EXCEPT ![n] =
                         [s \in SeedsOf[n] |->
                            IF s \in Disconnected(n) THEN "Connecting" ELSE tracker[n][s]]]
        /\ net' = net \cup {Register(n, s) : s \in Disconnected(n)}
        /\ UNCHANGED <<incarnation, m_peers, m_peerPublicKeys>>
    BY <1>4 DEF SendInitialRegistrations
  <2>2. \A o \in Node : \A s \in SeedsOf[o] :
           tracker'[o][s] = "Connected" => tracker[o][s] = "Connected"
    BY <1>1, <2>1 DEF TypeOK
  <2>3. \A m \in net' : m \in net \/ HandshakePacket(m)'
    BY <2>1, OtherPackets
  <2>4. QED
    BY <1>2, <2>1, <2>2, <2>3, HandshakeStep
<1>5. ASSUME NEW n \in Node, NEW again \in SUBSET SeedsOf[n], NEW gone \in SUBSET SeedsOf[n],
             RegistrationPass(n, again, gone)
      PROVE  HandshakeInv'
  <2>1. /\ tracker' = [tracker EXCEPT ![n] =
                         [s \in SeedsOf[n] |->
                            IF s \in again THEN "Connecting"
                            ELSE IF s \in gone THEN "Failed" ELSE tracker[n][s]]]
        /\ UNCHANGED <<incarnation, m_peers, m_peerPublicKeys>>
    BY <1>5 DEF RegistrationPass
  <2>2. net' \subseteq net \cup {Register(n, s) : s \in again}
                        \cup {FindNode(n, s) : s \in SeedsOf[n]}
    BY <1>5 DEF RegistrationPass
  <2>3. \A o \in Node : \A s \in SeedsOf[o] :
           tracker'[o][s] = "Connected" => tracker[o][s] = "Connected"
    BY <1>1, <2>1 DEF TypeOK
  <2>4. \A m \in net' : m \in net \/ HandshakePacket(m)'
    BY <2>2, OtherPackets
  <2>5. QED
    BY <1>2, <2>1, <2>3, <2>4, HandshakeStep
<1>6. ASSUME NEW n \in Node, Restart(n) PROVE FALSE
  BY <1>1, <1>6 DEF Restart, TypeOK
<1>7. ASSUME NEW m \in net, Receive(m) PROVE HandshakeInv'
  BY <1>7, ReceiveHandshake
<1>8. CASE Lose \/ UNCHANGED vars
  <2>1. /\ net' \subseteq net
        /\ UNCHANGED <<incarnation, tracker, m_peers, m_peerPublicKeys>>
    BY <1>8 DEF Lose, vars
  <2>2. QED
    BY <1>2, <2>1, HandshakeStep
<1>9. QED
  BY <1>3, <1>4, <1>5, <1>6, <1>7, <1>8 DEF Next

\* The handshake is sound on every order, loss and repetition of its packets,
\* between any number of nodes, as long as none of them restarts.
THEOREM HandshakeInvariant == ASSUME MaxRestarts = 0 PROVE Spec => []HandshakeInv
<1>1. Init => HandshakeInv
  BY InitGenuine, RegistrationAssumption DEF Init, HandshakeInv, MutualKeys
<1>2. HandshakeInv /\ [Next]_vars => HandshakeInv'
  BY NextHandshake
<1>3. QED
  BY <1>1, <1>2, PTL DEF Spec

\* MutualKeys for every configuration: Connected means that both have the
\* other's key, in the peer table and by peer_id.
THEOREM KeysAreMutual == ASSUME MaxRestarts = 0 PROVE Spec => []MutualKeys
<1>1. HandshakeInv => MutualKeys
  BY DEF HandshakeInv
<1>2. QED
  BY <1>1, HandshakeInvariant, PTL

\* ListsVerify for every configuration: no peer list is dropped because its
\* sender is not known.
THEOREM ListsAreVerified == ASSUME MaxRestarts = 0 PROVE Spec => []ListsVerify
<1>1. HandshakeInv => ListsVerify
  <2> SUFFICES ASSUME HandshakeInv, NEW m \in net, m.type = "peer_list"
               PROVE  Verifies(m.dst, m.src, m.key)
    BY DEF ListsVerify
  <2>1. /\ m \in Packets /\ TypeOK /\ GenuinePacket(m)
    BY DEF HandshakeInv, GenuineInv, TypeOK
  <2>2. m.src \in Node /\ m.key \in Keys /\ m.key[1] = m.src /\ Issued(m.key)
    BY <2>1, PacketFields DEF GenuinePacket
  <2> DEFINE e == [addr |-> m.src, key |-> m.key]
  <2>3. e \in PeerInfo /\ Genuine(e) /\ e.addr = m.src /\ e.key = m.key
    BY <2>2 DEF PeerInfo, Genuine
  <2>4. m.key = Key(m.src)
    BY <2>1, <2>3, OneKey
  <2>5. Knows(m.dst, m.src)
    BY DEF HandshakeInv, HandshakePacket
  <2>6. QED
    BY <2>4, <2>5 DEF Knows, Verifies
<1>2. QED
  BY <1>1, HandshakeInvariant, PTL

\* TypeOK for every configuration.
THEOREM TypesAreKept == Spec => []TypeOK
<1>1. GenuineInv => TypeOK
  BY DEF GenuineInv
<1>2. QED
  BY <1>1, GenuineInvariant, PTL

-----------------------------------------------------------------------------
(* One of any two is introduced, without restarts *)

\* A table has at most one entry for each node, so where MaxListed is enough for
\* all nodes BuildPeerList leaves nothing out.
LEMMA WholeTable ==
    ASSUME MaxRestarts = 0, TypeOK, Cardinality(Node) =< MaxListed,
           NEW table \in SUBSET PeerInfo, \A p \in table : Genuine(p),
           NEW peers \in PeerLists(table)
    PROVE  peers = table
<1> DEFINE Entry(n) == [addr |-> n, key |-> Key(n)]
           All == {Entry(n) : n \in Node}
           f == [n \in Node |-> Entry(n)]
<1>1. \A p \in table : p = Entry(p.addr) /\ p.addr \in Node
  BY OneKey DEF PeerInfo
<1>2. table \subseteq All
  BY <1>1
<1>3. f \in Surjection(Node, All)
  BY DEF Surjection
<1>4. IsFiniteSet(All) /\ Cardinality(All) =< Cardinality(Node)
  BY <1>3, FS_Surjection, RegistrationAssumption
<1> HIDE DEF All, f
<1>5. IsFiniteSet(table) /\ Cardinality(table) =< Cardinality(All)
  BY <1>2, <1>4, FS_Subset
<1>6. /\ Cardinality(table) \in Nat /\ Cardinality(All) \in Nat
      /\ Cardinality(Node) \in Nat /\ MaxListed \in Nat
  BY <1>4, <1>5, FS_CardinalityType, RegistrationAssumption
<1>7. peers \subseteq table /\ (peers = table \/ Cardinality(peers) = MaxListed)
  BY DEF PeerLists
<1>8. CASE Cardinality(peers) = MaxListed
  <2>1. Cardinality(peers) = Cardinality(table)
    <3>1. Cardinality(peers) =< Cardinality(table)
      BY <1>5, <1>7, FS_Subset
    <3>2. QED
      BY <1>4, <1>5, <1>6, <1>8, <3>1
  <2>2. QED
    BY <1>5, <1>7, <2>1, FS_Subset
<1>9. QED
  BY <1>7, <1>8

\* A node that sends at most one new list, of all it has, to a node it has.
LEMMA ListsStep ==
    ASSUME ListsInv, HandshakeInv', NEW n \in Node, NEW d,
           \A o \in Node : m_peers[o] \subseteq m_peers'[o],
           \A o \in net' :
              \/ o \in net
              \/ ~IsList(o)
              \/ /\ o.src = n /\ o.dst = d /\ o.peers = m_peers'[n]
                 /\ \E p \in m_peers'[n] : p.addr = d
    PROVE  ListsInv'
<1>1. \A m \in net : m.src \in Node
  BY PacketFields DEF ListsInv, HandshakeInv, GenuineInv, TypeOK
<1>2. \A m \in net' : IsList(m) =>
         /\ m.peers \subseteq m_peers'[m.src]
         /\ \E p \in m.peers : p.addr = m.dst
  <2> SUFFICES ASSUME NEW m \in net', IsList(m)
               PROVE  /\ m.peers \subseteq m_peers'[m.src]
                      /\ \E p \in m.peers : p.addr = m.dst
    OBVIOUS
  <2>1. CASE m \in net
    <3>1. m.peers \subseteq m_peers[m.src] /\ \E p \in m.peers : p.addr = m.dst
      BY <2>1 DEF ListsInv
    <3>2. QED
      BY <1>1, <2>1, <3>1
  <2>2. CASE m \notin net
    BY <2>2
  <2>3. QED
    BY <2>1, <2>2
<1>3. \A m \in net' : m \in net \/ ~IsList(m) \/ (m.src = n /\ m.peers = m_peers'[n])
  OBVIOUS
<1>4. \A l, m \in net' : IsList(l) /\ IsList(m) /\ l.src = m.src =>
         l.peers \subseteq m.peers \/ m.peers \subseteq l.peers
  <2> SUFFICES ASSUME NEW l \in net', NEW m \in net', IsList(l), IsList(m), l.src = m.src
               PROVE  l.peers \subseteq m.peers \/ m.peers \subseteq l.peers
    OBVIOUS
  <2>1. CASE l \in net /\ m \in net
    BY <2>1 DEF ListsInv
  <2>2. CASE l \notin net
    BY <1>2, <1>3, <2>2
  <2>3. CASE m \notin net
    BY <1>2, <1>3, <2>3
  <2>4. QED
    BY <2>1, <2>2, <2>3
<1>5. QED
  BY <1>2, <1>4 DEF ListsInv, IsList

\* What a node sends on a handshake packet from d, once its table has d, is one
\* list of the whole table.
LEMMA SentList ==
    ASSUME MaxRestarts = 0, TypeOK, Cardinality(Node) =< MaxListed,
           NEW n, NEW d, NEW table \in SUBSET PeerInfo,
           \A p \in table : Genuine(p), [addr |-> d, key |-> Key(d)] \in table,
           NEW list \in PeerListsTo(n, d, table), NEW o \in list
    PROVE  o.src = n /\ o.dst = d /\ o.peers = table /\ \E p \in table : p.addr = d
<1>1. PICK peers \in PeerLists(table) : o = PeerList(n, d, peers)
  BY DEF PeerListsTo
<1>2. peers = table
  BY WholeTable
<1>3. QED
  BY <1>1, <1>2 DEF PeerList

\* The packets that are not lists.
LEMMA NoLists ==
    ASSUME NEW n, NEW d
    PROVE  /\ ~IsList(Register(n, d)) /\ ~IsList(RegisterResp(n, d))
           /\ ~IsList(Accepted(n, d)) /\ ~IsList(FindNode(n, d))
           /\ \A nodes : ~IsList(Nodes(n, d, nodes))
BY DEF IsList, Register, RegisterResp, Accepted, FindNode, Nodes

\* The handlers of packets keep lists nested.
LEMMA ReceiveLists ==
    ASSUME MaxRestarts = 0, Cardinality(Node) =< MaxListed, ListsInv, NEW m \in net, Receive(m)
    PROVE  ListsInv'
<1>1. /\ HandshakeInv /\ GenuineInv /\ TypeOK /\ HandshakePacket(m)
      /\ m.src \in Node /\ m.dst \in Node
  BY PacketFields DEF ListsInv, HandshakeInv, GenuineInv, TypeOK
<1>2. HandshakeInv'
  BY <1>1, ReceiveHandshake
<1>3. CASE HandleRegister(m)
  <2>1. m.type = "register" /\ LearnSender(m) /\ Exchange(m, {RegisterResp(m.dst, m.src)})
    BY <1>3 DEF HandleRegister
  <2>2. \A o \in Node : m_peers[o] \subseteq m_peers'[o]
    BY <1>1, <2>1, LearnSenderGrows
  <2>3. \A o \in net' : o \in net \/ ~IsList(o)
    BY <2>1, ExchangeBound, NoLists
  <2>4. QED
    BY <1>1, <1>2, <2>2, <2>3, ListsStep
<1>4. CASE HandleRegisterResp(m)
  <2>1. m.type = "register_resp" /\ LearnSender(m) /\ UNCHANGED incarnation
    BY <1>4 DEF HandleRegisterResp
  <2>2. PICK list \in PeerListsTo(m.dst, m.src, m_peers'[m.dst]) :
           Exchange(m, {Accepted(m.dst, m.src)} \cup list)
    BY <1>4 DEF HandleRegisterResp
  <2>3. /\ m_peers'[m.dst] \in SUBSET PeerInfo
        /\ \A p \in m_peers'[m.dst] : Genuine(p)
    BY <1>1, <2>1, LearnSenderGenuine
  <2>4. [addr |-> m.src, key |-> Key(m.src)] \in m_peers'[m.dst]
    <3>1. Knows(m.dst, m.src)'
      BY <1>1, <2>1, LearnSenderKnows
    <3>2. Key(m.src)' = Key(m.src)
      BY <2>1 DEF Key
    <3>3. QED
      BY <3>1, <3>2 DEF Knows
  <2>5. \A o \in list :
           /\ o.src = m.dst /\ o.dst = m.src /\ o.peers = m_peers'[m.dst]
           /\ \E p \in m_peers'[m.dst] : p.addr = m.src
    BY <1>1, <2>3, <2>4, SentList
  <2>6. \A o \in net' : o \in net \/ ~IsList(o) \/ o \in list
    BY <2>2, ExchangeBound, NoLists
  <2>7. \A o \in Node : m_peers[o] \subseteq m_peers'[o]
    BY <1>1, <2>1, LearnSenderGrows
  <2>8. QED
    BY <1>1, <1>2, <2>5, <2>6, <2>7, ListsStep
<1>5. CASE HandleAccepted(m)
  <2>1. m.type = "accepted" /\ UNCHANGED m_peers
    BY <1>5 DEF HandleAccepted
  <2>2. PICK list \in PeerListsTo(m.dst, m.src, m_peers[m.dst]) : Exchange(m, list)
    BY <1>5 DEF HandleAccepted
  <2>3. /\ m_peers[m.dst] \in SUBSET PeerInfo
        /\ \A p \in m_peers[m.dst] : Genuine(p)
    BY <1>1 DEF GenuineInv, GenuineKeys, TypeOK
  <2>4. [addr |-> m.src, key |-> Key(m.src)] \in m_peers[m.dst]
    BY <1>1, <2>1 DEF HandshakePacket, Knows
  <2>5. \A o \in list :
           /\ o.src = m.dst /\ o.dst = m.src /\ o.peers = m_peers[m.dst]
           /\ \E p \in m_peers[m.dst] : p.addr = m.src
    BY <1>1, <2>3, <2>4, SentList
  <2>6. \A o \in net' : o \in net \/ o \in list
    BY <2>2, ExchangeBound
  <2>7. QED
    BY <1>1, <1>2, <2>1, <2>5, <2>6, ListsStep
<1>6. CASE HandlePeerList(m)
  <2>1. /\ \E learnt : m_peers' = [m_peers EXCEPT ![m.dst] = AddPeers(@, learnt)]
        /\ Exchange(m, {})
    BY <1>6 DEF HandlePeerList
  <2>2. \A o \in Node : m_peers[o] \subseteq m_peers'[o]
    BY <1>1, <2>1 DEF AddPeers, TypeOK
  <2>3. net' \subseteq net
    BY <2>1, ExchangeBound
  <2>4. QED
    BY <1>1, <1>2, <2>2, <2>3, ListsStep
<1>7. CASE HandleFindNode(m) \/ HandleNodes(m)
  <2>1. UNCHANGED m_peers
    BY <1>7 DEF HandleFindNode, HandleNodes
  <2>2. \A o \in net' : o \in net \/ ~IsList(o)
    <3>1. Exchange(m, {Nodes(m.dst, m.src, m_dht[m.dst])}) \/ Exchange(m, {})
      BY <1>7 DEF HandleFindNode, HandleNodes
    <3>2. net' \subseteq net \cup {Nodes(m.dst, m.src, m_dht[m.dst])}
      BY <3>1, ExchangeBound
    <3>3. ~IsList(Nodes(m.dst, m.src, m_dht[m.dst]))
      BY NoLists
    <3>4. QED
      BY <3>2, <3>3
  <2>3. QED
    BY <1>1, <1>2, <2>1, <2>2, ListsStep
<1>8. QED
  BY <1>3, <1>4, <1>5, <1>6, <1>7 DEF Receive

\* So does every step of nodes that do not restart.
LEMMA NextLists ==
    ASSUME MaxRestarts = 0, Cardinality(Node) =< MaxListed
    PROVE  ListsInv /\ [Next]_vars => ListsInv'
<1> SUFFICES ASSUME ListsInv, [Next]_vars PROVE ListsInv'
  OBVIOUS
<1>1. HandshakeInv /\ TypeOK
  BY DEF ListsInv, HandshakeInv, GenuineInv
<1>2. HandshakeInv'
  BY <1>1, NextHandshake
<1>3. ASSUME NEW n \in Node, CreateTrackers(n) PROVE ListsInv'
  BY <1>2, <1>3, ListsStep DEF CreateTrackers
<1>4. ASSUME NEW n \in Node, SendInitialRegistrations(n) PROVE ListsInv'
  <2>1. UNCHANGED m_peers /\ \A o \in net' : o \in net \/ ~IsList(o)
    BY <1>4, NoLists DEF SendInitialRegistrations
  <2>2. QED
    BY <1>2, <2>1, ListsStep
<1>5. ASSUME NEW n \in Node, NEW again \in SUBSET SeedsOf[n], NEW gone \in SUBSET SeedsOf[n],
             RegistrationPass(n, again, gone)
      PROVE  ListsInv'
  <2>1. net' \subseteq net \cup {Register(n, s) : s \in again}
                        \cup {FindNode(n, s) : s \in SeedsOf[n]}
    BY <1>5 DEF RegistrationPass
  <2>2. UNCHANGED m_peers /\ \A o \in net' : o \in net \/ ~IsList(o)
    BY <1>5, <2>1, NoLists DEF RegistrationPass
  <2>3. QED
    BY <1>2, <2>2, ListsStep
<1>6. ASSUME NEW n \in Node, Restart(n) PROVE FALSE
  BY <1>1, <1>6 DEF Restart, TypeOK
<1>7. ASSUME NEW m \in net, Receive(m) PROVE ListsInv'
  BY <1>7, ReceiveLists
<1>8. CASE Lose \/ UNCHANGED vars
  <2>1. net' \subseteq net /\ UNCHANGED m_peers
    BY <1>8 DEF Lose, vars
  <2>2. QED
    BY <1>2, <2>1 DEF ListsInv, IsList
<1>9. QED
  BY <1>3, <1>4, <1>5, <1>6, <1>7, <1>8 DEF Next

\* ListsIntroduce for every configuration whose nodes fit in a peer list: of any
\* two nodes a third sends lists to, one is told of the other, whatever the order
\* of the handshakes.
THEOREM OneIsIntroduced ==
    ASSUME MaxRestarts = 0
    PROVE  Spec => []ListsIntroduce
<1>1. CASE Cardinality(Node) =< MaxListed
  <2>1. Init => ListsInv
    BY InitGenuine, RegistrationAssumption DEF Init, ListsInv, HandshakeInv, MutualKeys
  <2>2. ListsInv /\ [Next]_vars => ListsInv'
    BY <1>1, NextLists
  <2>3. ListsInv => ListsIntroduce
    <3> SUFFICES ASSUME ListsInv, NEW l \in net, NEW m \in net,
                        l.type = "peer_list", m.type = "peer_list", l.src = m.src
                 PROVE  \/ \E p \in l.peers : p.addr = m.dst
                        \/ \E p \in m.peers : p.addr = l.dst
      BY DEF ListsIntroduce
    <3>1. IsList(l) /\ IsList(m)
      BY DEF IsList
    <3>2. /\ \E p \in l.peers : p.addr = l.dst
          /\ \E p \in m.peers : p.addr = m.dst
          /\ l.peers \subseteq m.peers \/ m.peers \subseteq l.peers
      BY <3>1 DEF ListsInv
    <3>3. QED
      BY <3>2
  <2>4. QED
    BY <2>1, <2>2, <2>3, PTL DEF Spec
<1>2. CASE ~(Cardinality(Node) =< MaxListed)
  <2>1. ListsIntroduce
    BY <1>2 DEF ListsIntroduce
  <2>2. QED
    BY <2>1, PTL
<1>3. QED
  BY <1>1, <1>2

-----------------------------------------------------------------------------
(* Nobody is its own peer *)

\* Entering others keeps a table free of its owner.
LEMMA AddOthers ==
    ASSUME NEW n, NEW table, NEW peers,
           \A p \in table : p.addr # n, \A p \in peers : p.addr # n
    PROVE  \A p \in AddPeers(table, peers) : p.addr # n
BY DEF AddPeers

\* A step that leaves the peer tables alone only has to send handshakes to others.
LEMMA OwnStep ==
    ASSUME OwnInv, GenuineInv', UNCHANGED m_peers, \A m \in net' : m \in net \/ BetweenTwo(m)
    PROVE  OwnInv'
<1>1. \A m \in net' : BetweenTwo(m)
  BY DEF OwnInv
<1>2. NeverOwnPeer'
  BY DEF OwnInv, NeverOwnPeer
<1>3. QED
  BY <1>1, <1>2 DEF OwnInv, BetweenTwo

\* The sender of a handshake packet, entered by its receiver, is another node.
LEMMA LearnSenderOwn ==
    ASSUME OwnInv, NEW m \in net, m.type \in {"register", "register_resp"}, LearnSender(m)
    PROVE  NeverOwnPeer'
<1> SUFFICES ASSUME Loopback, NEW n \in Node, NEW p \in m_peers'[n] PROVE p.addr # n
  BY DEF NeverOwnPeer
<1> DEFINE e == [addr |-> m.src, key |-> m.key]
<1>1. m_peers \in [Node -> SUBSET PeerInfo] /\ m.dst \in Node
  BY PacketFields DEF OwnInv, GenuineInv, TypeOK
<1>2. m_peers' = [m_peers EXCEPT ![m.dst] = AddPeers(@, {e})]
  BY DEF LearnSender
<1>3. m.src # m.dst
  BY DEF OwnInv, BetweenTwo
<1>4. \A q \in m_peers[n] : q.addr # n
  BY DEF OwnInv, NeverOwnPeer
<1>5. CASE n = m.dst
  <2>1. \A q \in {e} : q.addr # n
    BY <1>3, <1>5
  <2>2. p \in AddPeers(m_peers[n], {e})
    BY <1>1, <1>2, <1>5
  <2>3. QED
    BY <1>4, <2>1, <2>2, AddOthers
<1>6. CASE n # m.dst
  BY <1>1, <1>2, <1>4, <1>6
<1>7. QED
  BY <1>5, <1>6

\* What the packets other than those of the handshake are.
LEMMA NoHandshakePackets ==
    ASSUME NEW n, NEW d
    PROVE  /\ BetweenTwo(Accepted(n, d))
           /\ BetweenTwo(FindNode(n, d))
           /\ \A peers : BetweenTwo(PeerList(n, d, peers))
           /\ \A nodes : BetweenTwo(Nodes(n, d, nodes))
           /\ n # d => BetweenTwo(Register(n, d)) /\ BetweenTwo(RegisterResp(n, d))
BY DEF BetweenTwo, Accepted, FindNode, PeerList, Nodes, Register, RegisterResp

\* Every packet received keeps a node out of its own table.
LEMMA ReceiveOwn ==
    ASSUME OwnInv, GenuineInv', NEW m \in net, Receive(m)
    PROVE  OwnInv'
<1>0. m \in Packets /\ m.src \in Node /\ m.dst \in Node
  BY PacketFields DEF OwnInv, GenuineInv, TypeOK
<1>1. CASE HandleRegister(m)
  <2>1. m.type = "register" /\ LearnSender(m) /\ Exchange(m, {RegisterResp(m.dst, m.src)})
    BY <1>1 DEF HandleRegister
  <2>2. NeverOwnPeer' /\ m.src # m.dst
    BY <2>1, LearnSenderOwn DEF OwnInv, BetweenTwo
  <2>3. \A o \in net' : BetweenTwo(o)
    BY <2>1, <2>2, ExchangeBound, NoHandshakePackets DEF OwnInv
  <2>4. QED
    BY <2>2, <2>3 DEF OwnInv, BetweenTwo
<1>2. CASE HandleRegisterResp(m)
  <2>1. PICK list \in PeerListsTo(m.dst, m.src, m_peers'[m.dst]) :
           Exchange(m, {Accepted(m.dst, m.src)} \cup list)
    BY <1>2 DEF HandleRegisterResp
  <2>2. NeverOwnPeer'
    BY <1>2, LearnSenderOwn DEF HandleRegisterResp
  <2>3. \A o \in list : BetweenTwo(o)
    <3> SUFFICES ASSUME NEW o \in list PROVE BetweenTwo(o)
      OBVIOUS
    <3>1. PICK peers : o = PeerList(m.dst, m.src, peers)
      BY ListsAreParts
    <3>2. QED
      BY <3>1, NoHandshakePackets
  <2>4. \A o \in net' : BetweenTwo(o)
    BY <2>1, <2>3, ExchangeBound, NoHandshakePackets DEF OwnInv
  <2>5. QED
    BY <2>2, <2>4 DEF OwnInv, BetweenTwo
<1>3. CASE HandleAccepted(m)
  <2>1. PICK list \in PeerListsTo(m.dst, m.src, m_peers[m.dst]) : Exchange(m, list)
    BY <1>3 DEF HandleAccepted
  <2>2. \A o \in list : BetweenTwo(o)
    <3> SUFFICES ASSUME NEW o \in list PROVE BetweenTwo(o)
      OBVIOUS
    <3>1. PICK peers : o = PeerList(m.dst, m.src, peers)
      BY ListsAreParts
    <3>2. QED
      BY <3>1, NoHandshakePackets
  <2>3. \A o \in net' : o \in net \/ BetweenTwo(o)
    BY <2>1, <2>2, ExchangeBound
  <2>4. QED
    BY <1>3, <2>3, OwnStep DEF HandleAccepted
<1>4. CASE HandlePeerList(m)
  <2> DEFINE learnt == IF Verifies(m.dst, m.src, m.key)
                       THEN {p \in m.peers : ~IsOwnEntry(m.dst, p)}
                       ELSE {}
  <2>1. m_peers' = [m_peers EXCEPT ![m.dst] = AddPeers(@, learnt)] /\ Exchange(m, {})
    BY <1>4 DEF HandlePeerList
  <2>2. Loopback => \A p \in learnt : p.addr # m.dst
    BY DEF IsOwnEntry
  <2>3. m_peers \in [Node -> SUBSET PeerInfo]
    BY DEF OwnInv, GenuineInv, TypeOK
  <2> HIDE DEF learnt
  <2>4. ASSUME Loopback, NEW n \in Node, NEW p \in m_peers'[n] PROVE p.addr # n
    <3>1. \A q \in m_peers[n] : q.addr # n
      BY <2>4 DEF OwnInv, NeverOwnPeer
    <3>2. CASE n = m.dst
      <4>1. p \in AddPeers(m_peers[n], learnt)
        BY <2>1, <2>3, <2>4, <3>2
      <4>2. QED
        BY <2>2, <2>4, <3>1, <3>2, <4>1, AddOthers
    <3>3. CASE n # m.dst
      BY <2>1, <2>3, <2>4, <3>1, <3>3
    <3>4. QED
      BY <3>2, <3>3
  <2>5. NeverOwnPeer'
    BY <2>4 DEF NeverOwnPeer
  <2>6. \A o \in net' : BetweenTwo(o)
    BY <2>1, ExchangeBound DEF OwnInv
  <2>7. QED
    BY <2>5, <2>6 DEF OwnInv, BetweenTwo
<1>5. CASE HandleFindNode(m)
  <2>1. \A o \in net' : o \in net \/ BetweenTwo(o)
    <3>1. net' \subseteq net \cup {Nodes(m.dst, m.src, m_dht[m.dst])}
      BY <1>5, ExchangeBound DEF HandleFindNode
    <3>2. BetweenTwo(Nodes(m.dst, m.src, m_dht[m.dst]))
      BY NoHandshakePackets
    <3>3. QED
      BY <3>1, <3>2
  <2>2. QED
    BY <1>5, <2>1, OwnStep DEF HandleFindNode
<1>6. CASE HandleNodes(m)
  <2>1. \A o \in net' : o \in net \/ BetweenTwo(o)
    BY <1>6, ExchangeBound DEF HandleNodes
  <2>2. QED
    BY <1>6, <2>1, OwnStep DEF HandleNodes
<1>7. QED
  BY <1>1, <1>2, <1>3, <1>4, <1>5, <1>6 DEF Receive

\* So does every other step.
LEMMA NextOwn == OwnInv /\ [Next]_vars => OwnInv'
<1> SUFFICES ASSUME OwnInv, [Next]_vars PROVE OwnInv'
  OBVIOUS
<1>0. GenuineInv'
  BY NextGenuine DEF OwnInv
<1>1. ASSUME NEW n \in Node, CreateTrackers(n) PROVE OwnInv'
  BY <1>0, <1>1, OwnStep DEF CreateTrackers
<1>2. ASSUME NEW n \in Node, SendInitialRegistrations(n) PROVE OwnInv'
  <2>1. \A s \in Disconnected(n) : n # s
    BY RegistrationAssumption DEF Disconnected
  <2>2. \A m \in net' : m \in net \/ BetweenTwo(m)
    BY <1>2, <2>1, NoHandshakePackets DEF SendInitialRegistrations
  <2>3. QED
    BY <1>0, <1>2, <2>2, OwnStep DEF SendInitialRegistrations
<1>3. ASSUME NEW n \in Node, NEW again \in SUBSET SeedsOf[n], NEW gone \in SUBSET SeedsOf[n],
             RegistrationPass(n, again, gone)
      PROVE  OwnInv'
  <2>1. net' \subseteq net \cup {Register(n, s) : s \in again}
                        \cup {FindNode(n, s) : s \in SeedsOf[n]}
    BY <1>3 DEF RegistrationPass
  <2>2. \A s \in again : n # s
    BY RegistrationAssumption
  <2>3. \A m \in net' : m \in net \/ BetweenTwo(m)
    BY <2>1, <2>2, NoHandshakePackets
  <2>4. QED
    BY <1>0, <1>3, <2>3, OwnStep DEF RegistrationPass
<1>4. ASSUME NEW n \in Node, Restart(n) PROVE OwnInv'
  <2>1. m_peers' = [m_peers EXCEPT ![n] = {}] /\ UNCHANGED net
    BY <1>4 DEF Restart
  <2>2. m_peers \in [Node -> SUBSET PeerInfo]
    BY DEF OwnInv, GenuineInv, TypeOK
  <2>3. NeverOwnPeer'
    BY <2>1, <2>2 DEF OwnInv, NeverOwnPeer
  <2>4. QED
    BY <1>0, <2>1, <2>3 DEF OwnInv, BetweenTwo
<1>5. ASSUME NEW m \in net, Receive(m) PROVE OwnInv'
  BY <1>0, <1>5, ReceiveOwn
<1>6. CASE Lose \/ UNCHANGED vars
  BY <1>0, <1>6, OwnStep DEF Lose, vars
<1>7. QED
  BY <1>1, <1>2, <1>3, <1>4, <1>5, <1>6 DEF Next

\* NeverOwnPeer for every number of nodes, with restarts: where all share
\* 127.0.0.1, no handshake and no peer list makes a node its own peer.
THEOREM NeverOwn == Spec => []NeverOwnPeer
<1>1. Init => OwnInv
  BY InitGenuine DEF Init, OwnInv, NeverOwnPeer
<1>2. OwnInv => NeverOwnPeer
  BY DEF OwnInv
<1>3. QED
  BY <1>1, <1>2, NextOwn, PTL DEF Spec
-----------------------------------------------------------------------------
(* The trackers follow the lifecycle of SeedLifecycle *)

\* A step of the seed loop at one node.
LEMMA PassFollows ==
    ASSUME NEW n \in Node, tracker'[n] \in [SeedsOf[n] -> TrackerStates],
           \A s \in SeedsOf[n] :
              \/ tracker'[n][s] = tracker[n][s]
              \/ tracker[n][s] = "Disconnected" /\ tracker'[n][s] = "Connecting"
              \/ tracker[n][s] = "Connecting" /\ tracker'[n][s] = "Failed"
              \/ tracker[n][s] = "Failed" /\ tracker'[n][s] = "Connecting"
    PROVE  Lifecycle(n)!Pass
BY DEF Lifecycle!Pass, Lifecycle!OwnMoves, Lifecycle!LifecycleStates, TrackerStates

\* A packet moves at most the tracker of its sender.
LEMMA MoveFollows ==
    ASSUME TypeOK, NEW a, NEW c \in Node, NEW state \in {"Connecting", "Connected", "Reset"},
           MoveTracker(c, a, state), NEW n \in Node
    PROVE  Lifecycle(n)!LifecycleNext \/ UNCHANGED tracker[n]
<1>1. tracker[n] \in [SeedsOf[n] -> TrackerStates] /\ n \in DOMAIN tracker
  BY DEF TypeOK
<1>2. CASE n # c
  BY <1>1, <1>2 DEF MoveTracker
<1>3. CASE n = c
  <2>1. tracker'[n] = [s \in SeedsOf[n] |->
                         IF s = a /\ tracker[n][s] # "Absent" THEN state ELSE tracker[n][s]]
    BY <1>1, <1>3 DEF MoveTracker
  <2>2. CASE a \in SeedsOf[n] /\ tracker[n][a] # "Absent"
    <3>1. tracker'[n] = [tracker[n] EXCEPT ![a] = state]
      BY <1>1, <2>1, <2>2
    <3>2. Lifecycle(n)!Hear(a)
      BY <2>2, <3>1 DEF Lifecycle!Hear
    <3>3. QED
      BY <2>2, <3>2 DEF Lifecycle!LifecycleNext
  <2>3. CASE ~(a \in SeedsOf[n] /\ tracker[n][a] # "Absent")
    BY <1>1, <2>1, <2>3
  <2>4. QED
    BY <2>2, <2>3
<1>4. QED
  BY <1>2, <1>3
\* Without restarts, every step of the network is one of each lifecycle.
LEMMA NextFollows ==
    ASSUME MaxRestarts = 0, TrackersInv, TypeOK', [Next]_vars, NEW n \in Node
    PROVE  Lifecycle(n)!LifecycleNext \/ UNCHANGED tracker[n]
<1> DEFINE Follows == Lifecycle(n)!LifecycleNext \/ UNCHANGED tracker[n]
<1>0. /\ TypeOK /\ n \in DOMAIN tracker
      /\ tracker[n] \in [SeedsOf[n] -> TrackerStates]
      /\ tracker'[n] \in [SeedsOf[n] -> TrackerStates]
  BY DEF TrackersInv, GenuineInv, TypeOK
<1>1. ASSUME NEW c \in Node, CreateTrackers(c) PROVE Follows
  <2>1. CASE c = n
    <3>1. \A s \in SeedsOf[n] : tracker[n][s] = "Absent"
      BY <1>1, <2>1 DEF CreateTrackers, TrackersInv
    <3>2. tracker'[n] = [s \in SeedsOf[n] |-> "Disconnected"]
      BY <1>0, <1>1, <2>1 DEF CreateTrackers
    <3>3. QED
      BY <3>1, <3>2 DEF Lifecycle!LifecycleNext, Lifecycle!Create
  <2>2. CASE c # n
    BY <1>0, <1>1, <2>2 DEF CreateTrackers
  <2>3. QED
    BY <2>1, <2>2
<1>2. ASSUME NEW c \in Node, SendInitialRegistrations(c) PROVE Follows
  <2>1. CASE c = n
    <3>1. tracker'[n] = [s \in SeedsOf[n] |->
                           IF s \in Disconnected(n) THEN "Connecting" ELSE tracker[n][s]]
      BY <1>0, <1>2, <2>1 DEF SendInitialRegistrations
    <3>2. Lifecycle(n)!Pass
      BY <1>0, <3>1, PassFollows DEF Disconnected
    <3>3. QED
      BY <3>2 DEF Lifecycle!LifecycleNext
  <2>2. CASE c # n
    BY <1>0, <1>2, <2>2 DEF SendInitialRegistrations
  <2>3. QED
    BY <2>1, <2>2
<1>3. ASSUME NEW c \in Node, NEW again \in SUBSET SeedsOf[c], NEW gone \in SUBSET SeedsOf[c],
             RegistrationPass(c, again, gone)
      PROVE  Follows
  <2>1. CASE c = n
    <3>1. tracker'[n] = [s \in SeedsOf[n] |->
                           IF s \in again THEN "Connecting"
                           ELSE IF s \in gone THEN "Failed" ELSE tracker[n][s]]
      BY <1>0, <1>3, <2>1 DEF RegistrationPass
    <3>2. /\ \A s \in again : tracker[n][s] \in {"Disconnected", "Connecting", "Failed"}
          /\ \A s \in gone : tracker[n][s] = "Connecting"
      BY <1>3, <2>1 DEF RegistrationPass, Registrable
    <3>3. Lifecycle(n)!Pass
      BY <1>0, <3>1, <3>2, PassFollows
    <3>4. QED
      BY <3>3 DEF Lifecycle!LifecycleNext
  <2>2. CASE c # n
    BY <1>0, <1>3, <2>2 DEF RegistrationPass
  <2>3. QED
    BY <2>1, <2>2
<1>4. ASSUME NEW c \in Node, Restart(c) PROVE Follows
  BY <1>0, <1>4 DEF Restart, TypeOK
<1>5. ASSUME NEW m \in net, Receive(m) PROVE Follows
  <2>1. m.dst \in Node
    BY <1>0, PacketFields DEF TypeOK
  <2>2. CASE HandleRegister(m) \/ HandleRegisterResp(m) \/ HandleAccepted(m)
    BY <1>0, <2>1, <2>2, MoveFollows DEF HandleRegister, HandleRegisterResp, HandleAccepted
  <2>3. CASE HandlePeerList(m) \/ HandleFindNode(m) \/ HandleNodes(m)
    BY <2>3 DEF HandlePeerList, HandleFindNode, HandleNodes
  <2>4. QED
    BY <1>5, <2>2, <2>3 DEF Receive
<1>6. CASE Lose \/ UNCHANGED vars
  BY <1>6 DEF Lose, vars
<1>7. QED
  BY <1>1, <1>2, <1>3, <1>4, <1>5, <1>6 DEF Next

\* A node's trackers stay created together: nothing that follows the lifecycle
\* makes one absent, or the first of them present.
LEMMA NextTrackers ==
    ASSUME MaxRestarts = 0, TrackersInv, [Next]_vars
    PROVE  TrackersInv'
<1>1. GenuineInv'
  BY NextGenuine DEF TrackersInv
<1>2. ASSUME NEW n \in Node, NEW r \in SeedsOf[n], NEW s \in SeedsOf[n],
             tracker'[n][r] = "Absent"
      PROVE  tracker'[n][s] = "Absent"
  <2>1. /\ tracker[n] \in [SeedsOf[n] -> TrackerStates]
        /\ tracker[n][r] = "Absent" => tracker[n][s] = "Absent"
    BY DEF TrackersInv, GenuineInv, TypeOK
  <2>2. Lifecycle(n)!LifecycleNext \/ UNCHANGED tracker[n]
    BY <1>1, NextFollows DEF GenuineInv
  <2>3. CASE UNCHANGED tracker[n]
    BY <1>2, <2>1, <2>3
  <2>4. CASE Lifecycle(n)!Create
    BY <1>2, <2>4 DEF Lifecycle!Create
  <2>5. CASE Lifecycle(n)!Pass
    <3>1. tracker[n][r] = "Absent"
      BY <1>2, <2>5 DEF Lifecycle!Pass, Lifecycle!OwnMoves
    <3>2. tracker'[n][s] = tracker[n][s]
      BY <2>1, <2>5, <3>1 DEF Lifecycle!Pass, Lifecycle!OwnMoves
    <3>3. QED
      BY <2>1, <3>1, <3>2
  <2>6. ASSUME NEW i \in SeedsOf[n], Lifecycle(n)!Hear(i) PROVE FALSE
    <3>1. tracker[n][i] # "Absent"
      BY <2>6 DEF Lifecycle!Hear
    <3>2. tracker[n][r] # "Absent"
      BY <3>1 DEF TrackersInv
    <3>3. tracker'[n][r] # "Absent"
      BY <2>1, <2>6, <3>2 DEF Lifecycle!Hear
    <3>4. QED
      BY <1>2, <3>3
  <2>7. QED
    BY <2>2, <2>3, <2>4, <2>5, <2>6 DEF Lifecycle!LifecycleNext
<1>3. QED
  BY <1>1, <1>2 DEF TrackersInv

\* TrackersFollowLifecycle for every number of nodes that do not restart: what
\* the threads of a node and the packets of others do to its trackers is what
\* SeedLifecycle allows, each time.
THEOREM TrackersFollow == ASSUME MaxRestarts = 0 PROVE Spec => TrackersFollowLifecycle
<1>1. Init => TrackersInv
  BY InitGenuine DEF Init, TrackersInv
<1>2. TrackersInv /\ [Next]_vars => TrackersInv'
  BY NextTrackers
<1>3. TrackersInv /\ TrackersInv' /\ [Next]_vars
        => [\A n \in Node : Lifecycle(n)!LifecycleNext \/ UNCHANGED tracker[n]]_vars
  BY NextFollows DEF TrackersInv, GenuineInv
<1>4. QED
  BY <1>1, <1>2, <1>3, PTL DEF Spec, TrackersFollowLifecycle
=============================================================================
