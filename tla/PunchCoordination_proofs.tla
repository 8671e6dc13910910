------------------------ MODULE PunchCoordination_proofs ------------------------
(***************************************************************************)
(* Proofs about the coordination of punches: whom a super node tells to    *)
(* punch several ports, for any nodes, reports and calls.                  *)
(***************************************************************************)
EXTENDS PunchCoordination, Selection_proofs

\* i and j are the places of the first two reports of phase 0.
FirstTwo(reports, i, j) ==
    /\ i \in DOMAIN reports /\ j \in DOMAIN reports /\ i < j
    /\ reports[i].phase = SinglePort /\ reports[j].phase = SinglePort
    /\ \A k \in DOMAIN reports : k < j /\ reports[k].phase = SinglePort => k = i

\* The two peers that have sent these reports are known, and the ones that are
\* told to punch several ports.
ArePair(c, i, j, n, p) ==
    LET reports == m_failureReports[c]
    IN  /\ reports[i].peer_id # reports[j].peer_id
        /\ {reports[i].peer_id, reports[j].peer_id} \subseteq registered[c]
        /\ \/ n = reports[i].peer_id /\ p = reports[j].peer_id
           \/ n = reports[j].peer_id /\ p = reports[i].peer_id

\* Whoever is told to punch several ports is one of the first two.
PairsAreFirst ==
    \A m \in coordNet : m.type = "multi_start" =>
        \E i, j \in DOMAIN m_failureReports[m.src] :
            FirstTwo(m_failureReports[m.src], i, j) /\ ArePair(m.src, i, j, m.dst, m.peer)

CoordinationInv == CoordTypeOK /\ PairsAreFirst

-----------------------------------------------------------------------------
(* Lemmas about reports *)

\* The first two reports of a phase are what GetSinglePortFailedPeers begins with.
LEMMA FirstTwoFailed ==
    ASSUME NEW reports \in Seq(Reports), BothFailed(reports, SinglePort)
    PROVE  \E i, j \in DOMAIN reports :
              /\ FirstTwo(reports, i, j)
              /\ GetSinglePortFailedPeers(reports)[1] = reports[i]
              /\ GetSinglePortFailedPeers(reports)[2] = reports[j]
  <1> DEFINE P == {i \in DOMAIN reports : reports[i].phase = SinglePort}
             failed == Selected(reports, P)
             place == Ordered(P)
  <1>1. P \in SUBSET DOMAIN reports /\ GetSinglePortFailedPeers(reports) = failed
    BY DEF GetSinglePortFailedPeers
  <1>2. \A i \in P : reports[i].phase = SinglePort
    OBVIOUS
  <1>3. PICK a \in P, b \in P : a # b
    BY DEF BothFailed
  <1>4. \A k \in DOMAIN reports : reports[k].phase = SinglePort => k \in P
    OBVIOUS
  <1>5. DOMAIN reports \subseteq Int
    OBVIOUS
  <1> HIDE DEF P
  <1>6. /\ Cardinality(P) \in Nat
        /\ DOMAIN failed = 1..Cardinality(P)
        /\ place \in [DOMAIN failed -> P]
        /\ \A k \in DOMAIN failed : failed[k] = reports[place[k]]
        /\ \A k, l \in DOMAIN failed : k < l => place[k] < place[l]
        /\ \A i \in P : \E k \in DOMAIN failed : place[k] = i
    BY <1>1, SelectedProperties
  <1> HIDE DEF failed, place
  <1>7. 1 \in DOMAIN failed /\ 2 \in DOMAIN failed
    <2>1. PICK k \in DOMAIN failed, l \in DOMAIN failed : place[k] = a /\ place[l] = b
      BY <1>3, <1>6
    <2>2. k # l /\ k \in 1..Cardinality(P) /\ l \in 1..Cardinality(P)
      BY <1>3, <1>6, <2>1
    <2>3. Cardinality(P) >= 2
      BY <1>6, <2>2
    <2> QED BY <1>6, <2>3
  <1>8. place[1] \in P /\ place[2] \in P /\ place[1] < place[2]
    BY <1>6, <1>7
  <1>9. ASSUME NEW k \in P, k < place[2] PROVE k = place[1]
    <2>1. PICK l \in DOMAIN failed : place[l] = k
      BY <1>6
    <2>2. k \in Int /\ place[2] \in Int
      BY <1>1, <1>5, <1>8
    <2>3. ~(place[2] < place[l]) /\ place[2] # place[l]
      BY <1>9, <2>1, <2>2
    <2>4. ~(2 < l) /\ l # 2
      BY <1>6, <1>7, <2>3
    <2>5. l \in 1..Cardinality(P)
      BY <1>6
    <2>6. l = 1
      BY <1>6, <2>4, <2>5
    <2> QED BY <2>1, <2>6
  <1>10. FirstTwo(reports, place[1], place[2])
    BY <1>1, <1>2, <1>4, <1>8, <1>9 DEF FirstTwo
  <1>11. failed[1] = reports[place[1]] /\ failed[2] = reports[place[2]]
    BY <1>6, <1>7
  <1> QED BY <1>1, <1>8, <1>10, <1>11

\* They stay the same when more is reported.
LEMMA FirstTwoStays ==
    ASSUME NEW reports \in Seq(Reports), NEW r \in Reports, NEW i, NEW j, FirstTwo(reports, i, j)
    PROVE  /\ FirstTwo(Append(reports, r), i, j)
           /\ Append(reports, r)[i] = reports[i] /\ Append(reports, r)[j] = reports[j]
  <1> DEFINE more == Append(reports, r)
  <1>1. /\ DOMAIN reports \subseteq DOMAIN more
        /\ \A k \in DOMAIN reports : more[k] = reports[k]
        /\ \A k \in DOMAIN more : k \in DOMAIN reports \/ (k = Len(reports) + 1 /\ k > j)
    BY DEF FirstTwo
  <1>2. DOMAIN more \subseteq Int /\ j \in Int
    BY DEF FirstTwo
  <1> HIDE DEF more
  <1>3. \A k \in DOMAIN more : k < j => k \in DOMAIN reports
    BY <1>1, <1>2
  <1>4. FirstTwo(more, i, j) /\ more[i] = reports[i] /\ more[j] = reports[j]
    BY <1>1, <1>3 DEF FirstTwo
  <1> QED BY <1>4 DEF more

-----------------------------------------------------------------------------
(* The invariant *)

\* The invariant holds before the first report.
LEMMA CoordinationInit == CoordInit => CoordinationInv
  <1> SUFFICES ASSUME CoordInit PROVE CoordinationInv
    OBVIOUS
  <1>1. CoordTypeOK
    BY CoordinationAssumption DEF CoordInit, CoordTypeOK
  <1> QED BY <1>1 DEF CoordInit, CoordinationInv, PairsAreFirst

\* Packets are well formed by their types.
LEMMA PacketFields ==
    ASSUME NEW m \in CoordPackets
    PROVE  /\ m.src \in Party /\ m.dst \in Party
           /\ m.type = "failed" => m.report \in Reports
           /\ m.type # "failed" => m.peer \in Party
  BY DEF CoordPackets

\* What a coordination sends tells each peer of the other one.
LEMMA PacketsMade ==
    ASSUME NEW n \in Party, NEW d \in Party
    PROVE  /\ \A p \in Party,
                 type \in {"intro_request", "intro_response", "request", "info", "multi_start"} :
                 Packet(type, n, d, p) \in CoordPackets
           /\ \A report \in Reports : Failed(n, d, report) \in CoordPackets
           /\ \A p : Packet("multi_start", n, d, p).type = "multi_start"
           /\ \A p, type : /\ Packet(type, n, d, p).src = n /\ Packet(type, n, d, p).dst = d
                           /\ Packet(type, n, d, p).peer = p /\ Packet(type, n, d, p).type = type
           /\ \A report : Failed(n, d, report).type = "failed"
  BY DEF Packet, Failed, CoordPackets

\* Nothing disturbs PairsAreFirst that adds no multi_start and takes no report
\* or peer away.
LEMMA PairsStay ==
    ASSUME CoordinationInv, m_failureReports' = m_failureReports,
           \A n \in Party : registered[n] \subseteq registered'[n],
           \A m \in coordNet' : m.type = "multi_start" => m \in coordNet
    PROVE  PairsAreFirst'
  <1> SUFFICES ASSUME NEW m \in coordNet', m.type = "multi_start"
               PROVE  \E i, j \in DOMAIN m_failureReports'[m.src] :
                         /\ FirstTwo(m_failureReports'[m.src], i, j)
                         /\ ArePair(m.src, i, j, m.dst, m.peer)'
    BY DEF PairsAreFirst
  <1>1. m \in coordNet /\ m.src \in Party
    BY PacketFields DEF CoordinationInv, CoordTypeOK
  <1>2. PICK i \in DOMAIN m_failureReports[m.src], j \in DOMAIN m_failureReports[m.src] :
           FirstTwo(m_failureReports[m.src], i, j) /\ ArePair(m.src, i, j, m.dst, m.peer)
    BY <1>1 DEF CoordinationInv, PairsAreFirst
  <1>3. ArePair(m.src, i, j, m.dst, m.peer)'
    BY <1>1, <1>2 DEF ArePair
  <1> QED BY <1>2, <1>3

\* A report keeps the invariant, whichever pairs it forms.
LEMMA ReportStep ==
    ASSUME CoordinationInv, NEW m \in coordNet, HandlePunchFailureReport(m)
    PROVE  CoordinationInv'
  <1> DEFINE c == m.dst
             reports == m_failureReports[c]
             more == Append(reports, m.report)
  <1>1. /\ c \in Party /\ c \in SuperNode /\ m.report \in Reports
        /\ reports \in Seq(Reports) /\ more \in Seq(Reports)
    BY PacketFields DEF CoordinationInv, CoordTypeOK, HandlePunchFailureReport
  <1>2. /\ m_failureReports' = [m_failureReports EXCEPT ![c] = more]
        /\ m_failureReports'[c] = more
        /\ \A n \in Party \ {c} : m_failureReports'[n] = m_failureReports[n]
        /\ UNCHANGED <<registered, punched, multiPort, asked>>
    BY <1>1 DEF HandlePunchFailureReport, CoordinationInv, CoordTypeOK
  <1>3. PICK pairs \in SUBSET PairToCoordinate(c, more) :
           /\ pairs # {} => BothFailed(more, SinglePort)
           /\ coordNet' = coordNet \cup UNION {{Packet("multi_start", c, pair[1], pair[2]),
                                      Packet("multi_start", c, pair[2], pair[1])} : pair \in pairs}
    <2> DEFINE pairs == IF m.report.phase = SinglePort /\ BothFailed(more, SinglePort)
                        THEN PairToCoordinate(c, more)
                        ELSE {}
    <2>1. coordNet' = coordNet \cup UNION {{Packet("multi_start", c, pair[1], pair[2]),
                                  Packet("multi_start", c, pair[2], pair[1])} : pair \in pairs}
      BY <1>2 DEF HandlePunchFailureReport, Send
    <2>2. pairs \in SUBSET PairToCoordinate(c, more) /\ (pairs # {} => BothFailed(more, SinglePort))
      OBVIOUS
    <2> HIDE DEF pairs
    <2> QED BY <2>1, <2>2
  <1> HIDE DEF more, reports
  <1>4. ASSUME NEW pair \in pairs
        PROVE  \E i, j \in DOMAIN more :
                  /\ FirstTwo(more, i, j) /\ more[i].peer_id # more[j].peer_id
                  /\ {more[i].peer_id, more[j].peer_id} \subseteq registered[c]
                  /\ pair[1] = more[i].peer_id /\ pair[2] = more[j].peer_id
    <2>1. PICK i \in DOMAIN more, j \in DOMAIN more :
             /\ FirstTwo(more, i, j)
             /\ GetSinglePortFailedPeers(more)[1] = more[i]
             /\ GetSinglePortFailedPeers(more)[2] = more[j]
      BY <1>1, <1>3, FirstTwoFailed
    <2>2. /\ more[i].peer_id # more[j].peer_id
          /\ {more[i].peer_id, more[j].peer_id} \subseteq registered[c]
          /\ pair = <<more[i].peer_id, more[j].peer_id>>
      BY <1>3, <2>1 DEF PairToCoordinate
    <2> QED BY <2>1, <2>2
  <1>5. ASSUME NEW l \in coordNet', l \notin coordNet
        PROVE  /\ l.src = c /\ l \in CoordPackets
               /\ \E i, j \in DOMAIN more : FirstTwo(more, i, j) /\ ArePair(c, i, j, l.dst, l.peer)'
    <2>1. PICK pair \in pairs : l \in {Packet("multi_start", c, pair[1], pair[2]),
                                       Packet("multi_start", c, pair[2], pair[1])}
      BY <1>3, <1>5
    <2>2. PICK i \in DOMAIN more, j \in DOMAIN more :
             /\ FirstTwo(more, i, j) /\ more[i].peer_id # more[j].peer_id
             /\ {more[i].peer_id, more[j].peer_id} \subseteq registered[c]
             /\ pair[1] = more[i].peer_id /\ pair[2] = more[j].peer_id
      BY <1>4
    <2>3. pair[1] \in Party /\ pair[2] \in Party
      <3>1. more[i] \in Reports /\ more[j] \in Reports
        BY <1>1, <2>2
      <3>2. \A r \in Reports : r.peer_id \in Party
        BY DEF Reports
      <3> QED BY <2>2, <3>1, <3>2
    <2>4. /\ l.src = c /\ l \in CoordPackets
          /\ (l.dst = pair[1] /\ l.peer = pair[2]) \/ (l.dst = pair[2] /\ l.peer = pair[1])
      BY <1>1, <2>1, <2>3, PacketsMade, SMTT(30)
    <2>5. ArePair(c, i, j, l.dst, l.peer)'
      BY <1>2, <2>2, <2>4 DEF ArePair
    <2> QED BY <2>2, <2>4, <2>5
  <1>6. ASSUME NEW l \in coordNet, l.type = "multi_start"
        PROVE  \E i, j \in DOMAIN m_failureReports'[l.src] :
                  FirstTwo(m_failureReports'[l.src], i, j) /\ ArePair(l.src, i, j, l.dst, l.peer)'
    <2>1. PICK i \in DOMAIN m_failureReports[l.src], j \in DOMAIN m_failureReports[l.src] :
             FirstTwo(m_failureReports[l.src], i, j) /\ ArePair(l.src, i, j, l.dst, l.peer)
      BY <1>6 DEF CoordinationInv, PairsAreFirst
    <2>2. l.src \in Party
      BY PacketFields DEF CoordinationInv, CoordTypeOK
    <2>3. CASE l.src # c
      BY <1>2, <2>1, <2>2, <2>3 DEF ArePair
    <2>4. CASE l.src = c
      <3>1. /\ FirstTwo(more, i, j)
            /\ more[i] = reports[i] /\ more[j] = reports[j]
        BY <1>1, <2>1, <2>4, FirstTwoStays DEF more, reports
      <3>2. ArePair(l.src, i, j, l.dst, l.peer)'
        BY <1>2, <2>1, <2>4, <3>1 DEF ArePair, reports
      <3>3. i \in DOMAIN more /\ j \in DOMAIN more
        BY <3>1 DEF FirstTwo
      <3> QED BY <1>2, <2>4, <3>1, <3>2, <3>3
    <2> QED BY <2>3, <2>4
  <1>7. PairsAreFirst'
    BY <1>2, <1>5, <1>6 DEF PairsAreFirst
  <1>8. m_failureReports' \in [Party -> Seq(Reports)]
    BY <1>1, <1>2 DEF CoordinationInv, CoordTypeOK
  <1>9. coordNet' \subseteq CoordPackets
    BY <1>5 DEF CoordinationInv, CoordTypeOK
  <1>10. CoordTypeOK'
    BY <1>1, <1>2, <1>8, <1>9 DEF CoordinationInv, CoordTypeOK
  <1> QED BY <1>7, <1>8, <1>10 DEF CoordinationInv

\* The calls of the nodes keep the invariant.
LEMMA CallStep ==
    ASSUME CoordinationInv, NEW packet \in CoordPackets, packet.type # "multi_start", Ask(packet)
    PROVE  CoordinationInv'
  <1>1. asked' \in 0..MaxAsked
    BY CoordinationAssumption DEF Ask, CoordinationInv, CoordTypeOK
  <1>2. CoordTypeOK'
    BY <1>1 DEF Ask, CoordinationInv, CoordTypeOK
  <1>3. PairsAreFirst'
    BY PairsStay DEF Ask
  <1> QED BY <1>2, <1>3 DEF CoordinationInv

\* Every step keeps the invariant.
LEMMA CoordinationStep == CoordinationInv /\ [CoordNext]_coordVars => CoordinationInv'
  <1> SUFFICES ASSUME CoordinationInv, [CoordNext]_coordVars PROVE CoordinationInv'
    OBVIOUS
  <1>1. ASSUME NEW n \in Party, NEW c \in Coordinator, NEW p \in Party,
               RequestIntroduction(n, c, p) \/ RequestHolePunch(n, c, p)
        PROVE  CoordinationInv'
    <2>1. c \in Party
      BY CoordinationAssumption
    <2>2. CASE RequestIntroduction(n, c, p)
      BY <2>1, <2>2, CallStep, PacketsMade DEF RequestIntroduction
    <2>3. CASE RequestHolePunch(n, c, p)
      BY <2>1, <2>3, CallStep, PacketsMade DEF RequestHolePunch
    <2> QED BY <1>1, <2>2, <2>3
  <1>2. ASSUME NEW n \in Party, NEW c \in Coordinator, NEW phase \in {SinglePort, MultiPort},
               SendPunchFailureReport(n, c, phase)
        PROVE  CoordinationInv'
    <2>1. c \in Party /\ [peer_id |-> n, phase |-> phase] \in Reports
      BY CoordinationAssumption DEF Reports
    <2> QED BY <1>2, <2>1, CallStep, PacketsMade DEF SendPunchFailureReport
  <1>3. ASSUME NEW m \in coordNet
        PROVE  /\ m \in CoordPackets /\ m.src \in Party /\ m.dst \in Party
               /\ m.type # "failed" => m.peer \in Party
    BY PacketFields DEF CoordinationInv, CoordTypeOK
  <1>4. ASSUME NEW m \in coordNet, HandleIntroRequest(m) PROVE CoordinationInv'
    <2> DEFINE answer == Packet("intro_response", m.dst, m.src, m.peer)
    <2>1. answer \in CoordPackets /\ answer.type # "multi_start"
      BY <1>3, <1>4, PacketsMade DEF HandleIntroRequest
    <2> HIDE DEF answer
    <2>2. /\ coordNet' = coordNet \cup {answer}
          /\ UNCHANGED <<registered, m_failureReports, punched, multiPort, asked>>
      BY <1>4 DEF HandleIntroRequest, Send, answer
    <2> QED BY <2>1, <2>2, PairsStay DEF CoordinationInv, CoordTypeOK
  <1>5. ASSUME NEW m \in coordNet, HandleIntroResponse(m) PROVE CoordinationInv'
    <2>1. /\ CoordTypeOK' /\ m_failureReports' = m_failureReports /\ coordNet' = coordNet
          /\ \A n \in Party : registered[n] \subseteq registered'[n]
      BY <1>3, <1>5 DEF HandleIntroResponse, StartPunch, CoordinationInv, CoordTypeOK
    <2> QED BY <2>1, PairsStay DEF CoordinationInv
  <1>6. ASSUME NEW m \in coordNet, HandleRequest(m) PROVE CoordinationInv'
    <2>1. PICK packets \in SUBSET CoordPackets :
             /\ coordNet' = coordNet \cup packets /\ \A l \in packets : l.type # "multi_start"
             /\ UNCHANGED <<registered, m_failureReports, punched, multiPort, asked>>
      <3>1. CASE m.peer \in registered[m.dst]
        <4> DEFINE packets == {Packet("info", m.dst, m.src, m.peer),
                               Packet("info", m.dst, m.peer, m.src)}
        <4>1. packets \in SUBSET CoordPackets /\ \A l \in packets : l.type # "multi_start"
          <5>1. m.dst \in Party /\ m.src \in Party /\ m.peer \in Party
            BY <1>3, <1>6 DEF HandleRequest
          <5>2. /\ Packet("info", m.dst, m.src, m.peer) \in CoordPackets
                /\ Packet("info", m.dst, m.peer, m.src) \in CoordPackets
            BY <5>1, PacketsMade
          <5>3. /\ Packet("info", m.dst, m.src, m.peer).type = "info"
                /\ Packet("info", m.dst, m.peer, m.src).type = "info"
            BY DEF Packet
          <5> QED BY <5>2, <5>3
        <4>2. /\ coordNet' = coordNet \cup packets
              /\ UNCHANGED <<registered, m_failureReports, punched, multiPort, asked>>
          BY <1>6, <3>1 DEF HandleRequest, Send
        <4> QED BY <4>1, <4>2
      <3>2. CASE m.peer \notin registered[m.dst]
        <4> DEFINE packets == {Failed(m.dst, m.src, [peer_id |-> m.src, phase |-> SinglePort])}
        <4>1. [peer_id |-> m.src, phase |-> SinglePort] \in Reports
          BY <1>3 DEF Reports
        <4>2. packets \in SUBSET CoordPackets /\ \A l \in packets : l.type # "multi_start"
          BY <1>3, <4>1, PacketsMade
        <4>3. /\ coordNet' = coordNet \cup packets
              /\ UNCHANGED <<registered, m_failureReports, punched, multiPort, asked>>
          BY <1>6, <3>2 DEF HandleRequest, Send
        <4> QED BY <4>2, <4>3
      <3> QED BY <3>1, <3>2
    <2> QED BY <2>1, PairsStay DEF CoordinationInv, CoordTypeOK
  <1>7. ASSUME NEW m \in coordNet, HandleHolePunchInfo(m) PROVE CoordinationInv'
    <2>1. CoordTypeOK' /\ UNCHANGED <<m_failureReports, coordNet, registered>>
      BY <1>3, <1>7 DEF HandleHolePunchInfo, StartPunch, CoordinationInv, CoordTypeOK
    <2> QED BY <2>1, PairsStay DEF CoordinationInv
  <1>8. ASSUME NEW m \in coordNet, HandleMultiStart(m) PROVE CoordinationInv'
    <2>1. CoordTypeOK' /\ UNCHANGED <<m_failureReports, coordNet, registered>>
      BY <1>3, <1>8 DEF HandleMultiStart, CoordinationInv, CoordTypeOK
    <2> QED BY <2>1, PairsStay DEF CoordinationInv
  <1>9. CASE UNCHANGED coordVars
    BY <1>9, PairsStay DEF coordVars, CoordinationInv, CoordTypeOK
  <1> QED BY <1>1, <1>2, <1>4, <1>5, <1>6, <1>7, <1>8, <1>9, ReportStep DEF CoordNext, CoordReceive

-----------------------------------------------------------------------------
(* Theorems *)

\* The packets, tables and reports stay well formed, and the peers told to
\* punch several ports are the first two that reported a failure, for ever.
THEOREM FirstTwoArePaired == CoordSpec => []CoordinationInv
  <1> QED BY CoordinationInit, CoordinationStep, PTL DEF CoordSpec

\* RecordFailureReport and CoordinateMultiPortPunch change a peer over to
\* several ports only when it and its partner have failed with one.
THEOREM MultiPortOnlyWhenDue == CoordSpec => []MultiPortIsDue
  <1>1. CoordinationInv => MultiPortIsDue
    <2> SUFFICES ASSUME CoordinationInv, NEW m \in coordNet, m.type = "multi_start"
                 PROVE  /\ m.dst # m.peer
                        /\ HasFailed(m.src, m.dst) /\ HasFailed(m.src, m.peer)
                        /\ {m.dst, m.peer} \subseteq registered[m.src]
      BY DEF MultiPortIsDue
    <2> DEFINE reports == m_failureReports[m.src]
    <2>1. PICK i \in DOMAIN reports, j \in DOMAIN reports :
             FirstTwo(reports, i, j) /\ ArePair(m.src, i, j, m.dst, m.peer)
      BY DEF CoordinationInv, PairsAreFirst
    <2>2. reports \in Seq(Reports)
      BY PacketFields DEF CoordinationInv, CoordTypeOK
    <2>3. ASSUME NEW k \in DOMAIN reports, reports[k].phase = SinglePort
          PROVE  HasFailed(m.src, reports[k].peer_id)
      <3>1. reports[k] \in Reports
        BY <2>2
      <3>2. reports[k] = [peer_id |-> reports[k].peer_id, phase |-> SinglePort]
        BY <2>3, <3>1 DEF Reports
      <3> QED BY <3>2 DEF HasFailed
    <2> QED BY <2>1, <2>3 DEF FirstTwo, ArePair
  <1> QED BY <1>1, FirstTwoArePaired, PTL
=============================================================================
