------------------------------ MODULE HolePunch ------------------------------
(***************************************************************************)
(* Hole punching between nodes: the sessions of HolePunchManager           *)
(* (src/network/HolePunchManager.cpp), the punch thread and the listener   *)
(* of PeerManager that share them, and the PUNCH and PUNCH_ACK packets.    *)
(*                                                                         *)
(* What is abstracted:                                                     *)
(*   - time is counted in punch intervals, and sessions start on a whole   *)
(*     interval; the punch thread sleeps one interval or more;             *)
(*   - a node is its peer_id and its address;                              *)
(*   - PUNCH and PUNCH_ACK go out with a plain header, which the receiver  *)
(*     only takes when the low half of the time stamp is zero              *)
(*     (PacketSecurity::ProcessIncoming): a packet is in net or, mostly,   *)
(*     nowhere.  The check that the time stamp is at most 60 s off is left *)
(*     open in the same way;                                               *)
(*   - the ports of a multi-port session: nothing reports a port as        *)
(*     punched, and the packets that SendMultiPortPunch sends have no      *)
(*     header, so no node takes them;                                      *)
(*   - trackers of strategy: StartPunchAuto, the only function to create   *)
(*     one, is not called, so ShouldSwitchToMultiPort is FALSE.            *)
(***************************************************************************)
EXTENDS Selection, SequencesExt

CONSTANTS
    Node,
    Known,        \* Known[n]: the peers n knows from its registrations
    MultiPort,    \* the nodes that a coordinator tells to punch several ports
    MaxAttempts,  \* MAX_PUNCH_ATTEMPTS, and PUNCH_TIMEOUT_MS in intervals; 30 in the code
    LastStart,    \* bound: n is asked for no session after LastStart[n]
    MaxSessions,  \* bound on the sessions of a node
    Horizon       \* bound on time, by which every session has timed out; the
                  \* thread goes on when it is reached

ASSUME HolePunchAssumption ==
    /\ Known \in [Node -> SUBSET Node]
    /\ MultiPort \subseteq Node
    /\ MaxAttempts \in Nat \ {0}
    /\ LastStart \in [Node -> Nat]
    /\ MaxSessions \in Nat
    /\ Horizon \in Nat
    /\ \A n \in Node : Horizon >= LastStart[n] + MaxAttempts

VARIABLES
    now,                  \* the time
    m_sessions,           \* m_sessions[n]: the single-port sessions, oldest first
    m_multiPortSessions,  \* m_multiPortSessions[n]: the multi-port sessions
    m_peers,              \* m_peers[n]: the known peers
    pc,                   \* pc[n]: where the punch thread is
    work,                 \* work[n]: the peers left in the snapshot it goes through
    wake,                 \* wake[n]: when it wakes up
    net,                  \* the PUNCH and PUNCH_ACK packets that can be received
    begun                 \* history: <<n, p>> if n has started a session to p

vars == <<now, m_sessions, m_multiPortSessions, m_peers, pc, work, wake, net, begun>>

Times == 0..Horizon

Session == [target_id : Node, start : Times, attempt_count : Nat, success : BOOLEAN]

Packet == [type : {"punch", "punch_ack"}, src : Node, dst : Node]

TypeOK ==
    /\ now \in Times
    /\ m_sessions \in [Node -> Seq(Session)]
    /\ m_multiPortSessions \in [Node -> SUBSET [target_id : Node, start : Times]]
    /\ m_peers \in [Node -> SUBSET Node]
    /\ pc \in [Node -> {"cleanup", "single", "check", "send", "record"}]
    /\ work \in [Node -> Seq(Node)]
    /\ wake \in [Node -> 0..(Horizon + 1)]
    /\ net \subseteq Packet
    /\ begun \subseteq Node \X Node

Init ==
    /\ now = 0
    /\ m_sessions = [n \in Node |-> <<>>]
    /\ m_multiPortSessions = [n \in Node |-> {}]
    /\ m_peers = Known
    /\ pc = [n \in Node |-> "cleanup"]
    /\ work = [n \in Node |-> <<>>]
    /\ wake = [n \in Node |-> 0]
    /\ net = {}
    /\ begun = {}

-----------------------------------------------------------------------------
(* HolePunchManager, each operation under its mutex *)

Elapsed(s) == now - s.start

IsLive(s) == ~s.success

\* In time and not successful: a session that punches are sent for.
IsActive(s) == IsLive(s) /\ Elapsed(s) < MaxAttempts

SingleSessions(n) == {m_sessions[n][i] : i \in DOMAIN m_sessions[n]}

IsPunchActive(n, p) == \E s \in SingleSessions(n) : s.target_id = p /\ IsActive(s)

\* Mutant: a session that has timed out does not count.
StartPunchIfInactive(n, p) ==
    /\ m_sessions' =
         IF IsPunchActive(n, p)
         THEN m_sessions
         ELSE [m_sessions EXCEPT ![n] =
                 Append(@, [target_id |-> p, start |-> now, attempt_count |-> 0,
                            success |-> FALSE])]
    /\ begun' = begun \cup {<<n, p>>}

\* Nothing happens if the peer has a session that has not succeeded, be it
\* one that has timed out and is not yet cleaned up.
StartPunch(n, p) ==
    /\ m_sessions' =
         IF \E s \in SingleSessions(n) : s.target_id = p /\ IsLive(s)
         THEN m_sessions
         ELSE [m_sessions EXCEPT ![n] =
                 Append(@, [target_id |-> p, start |-> now, attempt_count |-> 0,
                            success |-> FALSE])]
    /\ begun' = begun \cup {<<n, p>>}

StartMultiPortPunch(n, p) ==
    m_multiPortSessions' =
        IF \E s \in m_multiPortSessions[n] : s.target_id = p
        THEN m_multiPortSessions
        ELSE [m_multiPortSessions EXCEPT ![n] = @ \cup {[target_id |-> p, start |-> now]}]

\* The first session of p, which may have succeeded before.
FirstOf(n, p) == SelectInSeq(m_sessions[n], LAMBDA s : s.target_id = p)

MarkSuccess(n, p) ==
    m_sessions' = IF FirstOf(n, p) = 0
                  THEN m_sessions
                  ELSE [m_sessions EXCEPT ![n][FirstOf(n, p)].success = TRUE]

RecordAttempt(n, p) ==
    m_sessions' = IF FirstOf(n, p) = 0
                  THEN m_sessions
                  ELSE [m_sessions EXCEPT ![n][FirstOf(n, p)].attempt_count = @ + 1]

\* Mutant: only successful sessions are cleaned up.
KeepUntilSuccess(n) ==
    Selected(m_sessions[n], {i \in DOMAIN m_sessions[n] : IsLive(m_sessions[n][i])})

\* What Cleanup leaves, and what GetActiveSessions returns.
Kept(n) == Selected(m_sessions[n], {i \in DOMAIN m_sessions[n] : IsActive(m_sessions[n][i])})

\* The attempt that is due in a session that has made that many.
Due(s, attempts) == Elapsed(s) + 1 > attempts /\ Elapsed(s) + 1 =< MaxAttempts

\* Attempts of multi-port sessions are not counted.
ShouldSendPunchAuto(n, p) ==
    \/ \E s \in SingleSessions(n) : s.target_id = p /\ IsLive(s) /\ Due(s, s.attempt_count)
    \/ \E s \in m_multiPortSessions[n] : s.target_id = p /\ Due(s, 0)

-----------------------------------------------------------------------------
(* PeerManager::PunchLoop *)

Goto(n, label) == pc' = [pc EXCEPT ![n] = label]

Cleanup(n) ==
    /\ pc[n] = "cleanup"
    /\ now >= wake[n] \/ now = Horizon
    /\ m_sessions' = [m_sessions EXCEPT ![n] = Kept(n)]
    /\ Goto(n, "single")
    /\ UNCHANGED <<now, m_multiPortSessions, m_peers, work, wake, net, begun>>

\* The next peer of the snapshot; if none is left, the multi-port sessions are
\* gone through, with packets that no node takes and nothing to record, and
\* the thread sleeps for an interval.
NextPeer(n, rest) ==
    /\ work' = [work EXCEPT ![n] = rest]
    /\ IF rest # <<>>
       THEN Goto(n, "check") /\ UNCHANGED wake
       ELSE Goto(n, "cleanup") /\ wake' = [wake EXCEPT ![n] = now + 1]

\* GetActiveSessions: the snapshot that the thread goes on with.
GetActiveSessions(n) ==
    /\ pc[n] = "single"
    /\ NextPeer(n, [i \in DOMAIN Kept(n) |-> Kept(n)[i].target_id])
    /\ UNCHANGED <<now, m_sessions, m_multiPortSessions, m_peers, net, begun>>

CheckSingle(n) ==
    /\ pc[n] = "check"
    /\ IF ShouldSendPunchAuto(n, Head(work[n]))
       THEN Goto(n, "send") /\ UNCHANGED <<work, wake>>
       ELSE NextPeer(n, Tail(work[n]))
    /\ UNCHANGED <<now, m_sessions, m_multiPortSessions, m_peers, net, begun>>

\* A packet that the receiver may take, or nothing that it would.
Send(type, n, p) == net' \in {net, net \cup {[type |-> type, src |-> n, dst |-> p]}}

SendPunchPacket(n) ==
    /\ pc[n] = "send"
    /\ Send("punch", n, Head(work[n]))
    /\ Goto(n, "record")
    /\ UNCHANGED <<now, m_sessions, m_multiPortSessions, m_peers, work, wake, begun>>

\* The attempt is recorded.  Mutant: the thread stays with the peer.
RecordAndPunchAgain(n) ==
    /\ pc[n] = "record"
    /\ RecordAttempt(n, Head(work[n]))
    /\ Goto(n, "send")
    /\ UNCHANGED <<now, m_multiPortSessions, m_peers, work, wake, net, begun>>

\* The attempt is recorded; there is no tracker that could ask for a switch.
RecordPunch(n) ==
    /\ pc[n] = "record"
    /\ RecordAttempt(n, Head(work[n]))
    /\ NextPeer(n, Tail(work[n]))
    /\ UNCHANGED <<now, m_multiPortSessions, m_peers, net, begun>>

PunchLoop(n) ==
    \/ Cleanup(n)
    \/ GetActiveSessions(n)
    \/ CheckSingle(n)
    \/ SendPunchPacket(n)
    \/ RecordPunch(n)

-----------------------------------------------------------------------------
(* The listener: HandleBootstrapPacket *)

MayStart(n) == now =< LastStart[n] /\ Len(m_sessions[n]) < MaxSessions

\* PT_INTRO_RESPONSE: n is introduced to p, which it knows from then on.
ReceiveIntroduction(n, p) ==
    /\ MayStart(n)
    /\ StartPunch(n, p)
    /\ m_peers' = [m_peers EXCEPT ![n] = @ \cup {p}]
    /\ UNCHANGED <<now, m_multiPortSessions, pc, work, wake, net>>

\* PT_COORD_HOLE_PUNCH_INFO: a coordinator names p, which n need not know.
\* The start time it names is not waited for.
HandleHolePunchInfo(n, p) ==
    /\ MayStart(n)
    /\ StartPunch(n, p)
    /\ UNCHANGED <<now, m_multiPortSessions, m_peers, pc, work, wake, net>>

\* PT_COORD_HOLE_PUNCH_MULTI_START
ReceiveMultiStart(n, p) ==
    /\ n \in MultiPort
    /\ now =< LastStart[n]
    /\ StartMultiPortPunch(n, p)
    /\ UNCHANGED <<now, m_sessions, m_peers, pc, work, wake, net, begun>>

\* Mutant: any known peer is answered.
AnswerKnownPeer(m) ==
    /\ m.type = "punch"
    /\ m.src \in m_peers[m.dst]
    /\ Send("punch_ack", m.dst, m.src)
    /\ UNCHANGED <<now, m_sessions, m_multiPortSessions, m_peers, pc, work, wake, begun>>

\* PT_PUNCH: answered if the sender is known and is being punched.
HandlePunchPacket(m) ==
    /\ m.type = "punch"
    /\ m.src \in m_peers[m.dst]
    /\ IsPunchActive(m.dst, m.src)
    /\ Send("punch_ack", m.dst, m.src)
    /\ UNCHANGED <<now, m_sessions, m_multiPortSessions, m_peers, pc, work, wake, begun>>

\* PT_PUNCH_ACK
HandlePunchAck(m) ==
    /\ m.type = "punch_ack"
    /\ MarkSuccess(m.dst, m.src)
    /\ UNCHANGED <<now, m_multiPortSessions, m_peers, pc, work, wake, net, begun>>

Tick ==
    /\ now < Horizon
    /\ now' = now + 1
    /\ UNCHANGED <<m_sessions, m_multiPortSessions, m_peers, pc, work, wake, net, begun>>

Next ==
    \/ Tick
    \/ \E n \in Node :
          \/ PunchLoop(n)
          \/ \E p \in Node \ {n} :
                \/ ReceiveIntroduction(n, p)
                \/ HandleHolePunchInfo(n, p)
                \/ ReceiveMultiStart(n, p)
    \/ \E m \in net : HandlePunchPacket(m) \/ HandlePunchAck(m)

\* Time passes, and the punch thread runs.
Fairness == WF_vars(Tick) /\ \A n \in Node : WF_vars(PunchLoop(n))

Spec == Init /\ [][Next]_vars /\ Fairness

-----------------------------------------------------------------------------
(* Properties *)

\* RecordAttempt is there "for rate limiting": no session, not even one that
\* has succeeded while its peer is punched again, has more attempts than
\* intervals begun since its start, nor more than MaxAttempts, though a
\* multi-port session of the same peer asks for a punch on every pass and the
\* attempt is recorded after the mutex was given up twice.
AttemptsPaced ==
    \A n \in Node : \A s \in SingleSessions(n) :
        /\ s.attempt_count =< Elapsed(s) + 1
        /\ s.attempt_count =< MaxAttempts

\* A peer has one session at a time that punches can be sent for.
OneLiveSession ==
    \A n \in Node : \A i, j \in DOMAIN m_sessions[n] :
        /\ IsLive(m_sessions[n][i]) /\ IsLive(m_sessions[n][j])
        /\ m_sessions[n][i].target_id = m_sessions[n][j].target_id
        => i = j

\* A node takes a punch for successful only if the other node has been
\* punching too, whatever was delayed, lost or came twice on the way: the
\* path is open in both directions.
SuccessIsMutual ==
    \A n \in Node : \A s \in SingleSessions(n) : s.success => <<s.target_id, n>> \in begun

\* Every single-port session ends: sessions that have succeeded or timed out
\* do not stay, so that the peer can be punched again.
SessionsEnd == \A n \in Node : []<>(\A s \in SingleSessions(n) : IsActive(s))
=============================================================================
