--------------------------- MODULE PunchCoordination ---------------------------
(***************************************************************************)
(* How a super node brings two of its peers to punch each other            *)
(* (src/network/PeerManager.cpp and the failure reports of                 *)
(* src/network/HolePunchManager.cpp): introductions, coordinated punches,  *)
(* reports of failure, and the change to several ports that is to follow   *)
(* when both peers have failed.                                            *)
(*                                                                         *)
(* The calls that begin it, RequestIntroduction, the request for a punch   *)
(* and SendPunchFailureReport, are made by no code of the program: they    *)
(* are the application's here.  (HolePunchManager::RequestHolePunch sends  *)
(* its request without a packet header; the request is modelled as the     *)
(* handler expects it.)                                                    *)
(*                                                                         *)
(* What is abstracted: sessions are HolePunch's subject, here a node has   *)
(* begun to punch a peer or not; a peer is its id and its address; the     *)
(* start signal (PT_COORD_HOLE_PUNCH_START) only sets fields nobody reads. *)
(***************************************************************************)
EXTENDS Selection

CONSTANTS
    Party,
    SuperNode,    \* nodes that were able to bind their port
    Coordinator,  \* super nodes the applications turn to
    Known,        \* Known[n]: the peers n has from its registrations
    MaxReports,   \* bound on the length of m_failureReports
    MaxAsked      \* bound on the application's calls, of all nodes

ASSUME CoordinationAssumption ==
    /\ SuperNode \subseteq Party /\ Coordinator \subseteq SuperNode
    /\ Known \in [Party -> SUBSET Party]
    /\ MaxReports \in Nat /\ MaxAsked \in Nat

VARIABLES
    registered,        \* registered[n]: m_peers of n, the peers it knows
    m_failureReports,  \* m_failureReports[n]: the failures reported to n, oldest first
    punched,           \* punched[n]: the peers n has had a single-port session with
    multiPort,         \* multiPort[n]: the peers n has had a multi-port session with
    coordNet,          \* packets sent; each may be received at any time, again, or never
    asked              \* the application's calls so far

coordVars == <<registered, m_failureReports, punched, multiPort, coordNet, asked>>

\* Phases of a failure report.
SinglePort == 0
MultiPort == 1

Reports == [peer_id: Party, phase: {SinglePort, MultiPort}]

\* "failed" is both a peer's report of its failure and the coordinator's answer
\* to a request it cannot serve: SendCoordHolePunchFailed puts the requester
\* where a report has its peer_id, and zeros where it has its phase.
CoordPackets ==
    [type: {"intro_request", "intro_response", "request", "info", "multi_start"},
     src: Party, dst: Party, peer: Party]
      \cup [type: {"failed"}, src: Party, dst: Party, report: Reports]

Packet(type, n, d, p) == [type |-> type, src |-> n, dst |-> d, peer |-> p]
Failed(n, d, report) == [type |-> "failed", src |-> n, dst |-> d, report |-> report]

CoordTypeOK ==
    /\ registered \in [Party -> SUBSET Party]
    /\ m_failureReports \in [Party -> Seq(Reports)]
    /\ \A n \in Party \ SuperNode : m_failureReports[n] = <<>>
    /\ punched \in [Party -> SUBSET Party]
    /\ multiPort \in [Party -> SUBSET Party]
    /\ coordNet \subseteq CoordPackets
    /\ asked \in 0..MaxAsked

CoordInit ==
    /\ registered = Known
    /\ m_failureReports = [n \in Party |-> <<>>]
    /\ punched = [n \in Party |-> {}]
    /\ multiPort = [n \in Party |-> {}]
    /\ coordNet = {}
    /\ asked = 0

-----------------------------------------------------------------------------
(* What the application asks for *)

Ask(packet) ==
    /\ asked < MaxAsked
    /\ asked' = asked + 1
    /\ coordNet' = coordNet \cup {packet}
    /\ UNCHANGED <<registered, m_failureReports, punched, multiPort>>

RequestIntroduction(n, c, p) == Ask(Packet("intro_request", n, c, p))
RequestHolePunch(n, c, p) == Ask(Packet("request", n, c, p))

\* A node reports the failure of its punches.
SendPunchFailureReport(n, c, phase) == Ask(Failed(n, c, [peer_id |-> n, phase |-> phase]))

-----------------------------------------------------------------------------
(* Introductions and coordinated punches *)

Send(packets) == coordNet' = coordNet \cup packets

\* PT_INTRO_REQUEST: only the one who asks hears of the other.
HandleIntroRequest(m) ==
    /\ m.type = "intro_request"
    /\ m.dst \in SuperNode
    /\ m.peer \in registered[m.dst]
    /\ Send({Packet("intro_response", m.dst, m.src, m.peer)})
    /\ UNCHANGED <<registered, m_failureReports, punched, multiPort, asked>>

StartPunch(n, p) == punched' = [punched EXCEPT ![n] = @ \cup {p}]

HandleIntroResponse(m) ==
    /\ m.type = "intro_response"
    /\ StartPunch(m.dst, m.peer)
    /\ registered' = [registered EXCEPT ![m.dst] = @ \cup {m.peer}]
    /\ UNCHANGED <<m_failureReports, multiPort, coordNet, asked>>

\* PT_COORD_HOLE_PUNCH_REQUEST: each is given the other's address; or the one
\* who asks is told that it has failed.
HandleRequest(m) ==
    /\ m.type = "request"
    /\ m.dst \in SuperNode
    /\ IF m.peer \in registered[m.dst]
       THEN Send({Packet("info", m.dst, m.src, m.peer), Packet("info", m.dst, m.peer, m.src)})
       ELSE Send({Failed(m.dst, m.src, [peer_id |-> m.src, phase |-> SinglePort])})
    /\ UNCHANGED <<registered, m_failureReports, punched, multiPort, asked>>

HandleHolePunchInfo(m) ==
    /\ m.type = "info"
    /\ StartPunch(m.dst, m.peer)
    /\ UNCHANGED <<registered, m_failureReports, multiPort, coordNet, asked>>

-----------------------------------------------------------------------------
(* Failure reports *)

\* RecordFailureReport: two peers have reported this phase, whoever they were punching.
BothFailed(reports, phase) ==
    \E i, j \in DOMAIN reports :
        /\ reports[i].phase = phase /\ reports[j].phase = phase
        /\ reports[i].peer_id # reports[j].peer_id

\* Mutant: the reports of all phases are taken.
AllFailedPeers(reports) == reports

\* The reports of phase 0, a peer as often as it has reported.
GetSinglePortFailedPeers(reports) ==
    Selected(reports, {i \in DOMAIN reports : reports[i].phase = SinglePort})

\* The pair told to punch several ports: the first two of the list, if both are
\* known and different (the search for the second passes over the first).
PairToCoordinate(c, reports) ==
    LET failed == GetSinglePortFailedPeers(reports)
        p == failed[1].peer_id
        q == failed[2].peer_id
    IN  IF {p, q} \subseteq registered[c] /\ p # q THEN {<<p, q>>} ELSE {}

\* PT_COORD_HOLE_PUNCH_FAILED
HandlePunchFailureReport(m) ==
    /\ m.type = "failed"
    /\ m.dst \in SuperNode
    /\ Len(m_failureReports[m.dst]) < MaxReports
    /\ m_failureReports' = [m_failureReports EXCEPT ![m.dst] = Append(@, m.report)]
    /\ LET reports == m_failureReports'[m.dst]
           pairs == IF m.report.phase = SinglePort /\ BothFailed(reports, SinglePort)
                    THEN PairToCoordinate(m.dst, reports)
                    ELSE {}
       IN  Send(UNION {{Packet("multi_start", m.dst, pair[1], pair[2]),
                        Packet("multi_start", m.dst, pair[2], pair[1])} : pair \in pairs})
    /\ UNCHANGED <<registered, punched, multiPort, asked>>

HandleMultiStart(m) ==
    /\ m.type = "multi_start"
    /\ multiPort' = [multiPort EXCEPT ![m.dst] = @ \cup {m.peer}]
    /\ UNCHANGED <<registered, m_failureReports, punched, coordNet, asked>>

-----------------------------------------------------------------------------

CoordReceive(m) ==
    \/ HandleIntroRequest(m)
    \/ HandleIntroResponse(m)
    \/ HandleRequest(m)
    \/ HandleHolePunchInfo(m)
    \/ HandlePunchFailureReport(m)
    \/ HandleMultiStart(m)

CoordNext ==
    \/ \E n \in Party : \E c \in Coordinator \ {n} :
          \/ \E p \in Party \ {n} : RequestIntroduction(n, c, p) \/ RequestHolePunch(n, c, p)
          \/ \E phase \in {SinglePort, MultiPort} : SendPunchFailureReport(n, c, phase)
    \/ \E m \in coordNet : CoordReceive(m)

CoordSpec == CoordInit /\ [][CoordNext]_coordVars

-----------------------------------------------------------------------------
(* Properties *)

\* n has told c, or been told by c, that it has failed with a single port.
HasFailed(c, n) ==
    \E i \in DOMAIN m_failureReports[c] :
        m_failureReports[c][i] = [peer_id |-> n, phase |-> SinglePort]

\* A peer is told to punch several ports only with another peer that has failed
\* with a single one, as it has itself, both of them known to the super node,
\* in whatever order reports of both phases arrive, and however often.
MultiPortIsDue ==
    \A m \in coordNet : m.type = "multi_start" =>
        /\ m.dst # m.peer
        /\ HasFailed(m.src, m.dst) /\ HasFailed(m.src, m.peer)
        /\ {m.dst, m.peer} \subseteq registered[m.src]

-----------------------------------------------------------------------------
(* What a comment says, and the code does not do *)

\* "For each pair of failed peers, initiate multi-port punch"
\* (PeerManager.cpp:1155): two peers of a super node that have both reported
\* the failure of their punches are told to punch several ports.
EveryPairIsCoordinated ==
    \A c \in SuperNode : \A n, p \in Party :
        n # p /\ {n, p} \subseteq registered[c] /\ HasFailed(c, n) /\ HasFailed(c, p)
            => Packet("multi_start", c, n, p) \in coordNet
=============================================================================
