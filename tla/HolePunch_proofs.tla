--------------------------- MODULE HolePunch_proofs ---------------------------
(***************************************************************************)
(* Proofs about hole punching: the punches of a session are paced, a peer  *)
(* has one live session, and a success is one of both nodes.               *)
(***************************************************************************)
EXTENDS HolePunch, Selection_proofs

\* Sessions are those of peers that were started, in time.
SessionsBegun ==
    \A n \in Node : \A i \in DOMAIN m_sessions[n] :
        /\ m_sessions[n][i].start =< now /\ m_sessions[n][i].start =< LastStart[n]
        /\ <<n, m_sessions[n][i].target_id>> \in begun

\* A node that acknowledges has begun a session to the node it answers.
AcksBegun == \A m \in net : m.type = "punch_ack" => <<m.src, m.dst>> \in begun

\* The snapshot that is gone through names a peer once.
WorkDistinct ==
    \A n \in Node :
        /\ pc[n] \in {"check", "send", "record"} => work[n] # <<>>
        /\ \A i, j \in DOMAIN work[n] : work[n][i] = work[n][j] => i = j

\* Sessions of which an attempt may still be recorded in this pass.
ToRecord(n, s) ==
    \/ pc[n] = "single"
    \/ pc[n] \in {"check", "send", "record"} /\ \E i \in DOMAIN work[n] : work[n][i] = s.target_id

\* One attempt a pass: between two passes no session has more attempts than
\* intervals until the thread wakes up, and a session that an attempt may still
\* be recorded for had no more than intervals until now.
Paced(n, s) ==
    /\ s.attempt_count =< Elapsed(s) + 1 /\ s.attempt_count =< MaxAttempts
    /\ pc[n] = "cleanup" => s.attempt_count = 0 \/ s.attempt_count =< wake[n] - s.start
    /\ ToRecord(n, s) => s.attempt_count =< Elapsed(s) /\ s.attempt_count < MaxAttempts

PassesPaced ==
    \A n \in Node :
        /\ wake[n] =< now + 1
        /\ \A k \in DOMAIN m_sessions[n] : Paced(n, m_sessions[n][k])

SessionInv == SessionsBegun /\ AcksBegun /\ SuccessIsMutual /\ OneLiveSession

PunchInv == TypeOK /\ SessionInv /\ WorkDistinct /\ PassesPaced

-----------------------------------------------------------------------------
(* Lemmas about the operators *)

\* MarkSuccess and RecordAttempt find the session of a peer, or none.
LEMMA FirstOfProperties ==
    ASSUME TypeOK, NEW n \in Node, NEW p
    PROVE  \/ FirstOf(n, p) = 0
           \/ /\ FirstOf(n, p) \in DOMAIN m_sessions[n] /\ FirstOf(n, p) # 0
              /\ m_sessions[n][FirstOf(n, p)].target_id = p
  <1> DEFINE at == {i \in 1..Len(m_sessions[n]) : m_sessions[n][i].target_id = p}
  <1>1. m_sessions[n] \in Seq(Session)
    BY DEF TypeOK
  <1>2. DOMAIN m_sessions[n] = 1..Len(m_sessions[n]) /\ Len(m_sessions[n]) \in Nat
    BY <1>1
  <1>3. FirstOf(n, p) = IF at # {} THEN CHOOSE x \in at : \A y \in at : x =< y ELSE 0
    BY DEF FirstOf, SelectInSeq, Min
  <1>4. CASE at = {}
    BY <1>3, <1>4
  <1>5. CASE at # {}
    <2>1. at \in SUBSET Nat
      BY <1>2
    <2>2. \E x \in at : \A y \in at : x =< y
      BY <1>5, <2>1, LeastNumber
    <2>3. FirstOf(n, p) \in at
      BY <1>3, <1>5, <2>2
    <2> QED BY <1>2, <2>3
  <1> QED BY <1>4, <1>5

\* What Cleanup leaves are sessions that were there, in their order.
LEMMA KeptProperties ==
    ASSUME TypeOK, NEW n \in Node
    PROVE  /\ Kept(n) \in Seq(Session)
           /\ \A k \in DOMAIN Kept(n) : \E i \in DOMAIN m_sessions[n] :
                 Kept(n)[k] = m_sessions[n][i] /\ IsActive(m_sessions[n][i])
           /\ OneLiveSession => \A k, l \in DOMAIN Kept(n) :
                 Kept(n)[k].target_id = Kept(n)[l].target_id => k = l
  <1> DEFINE s == m_sessions[n]
             P == {i \in DOMAIN s : IsActive(s[i])}
  <1>1. s \in Seq(Session) /\ P \in SUBSET DOMAIN s
    BY DEF TypeOK
  <1>2. Kept(n) = Selected(s, P)
    BY DEF Kept
  <1>3. /\ Kept(n) \in Seq(Session)
        /\ Ordered(P) \in [DOMAIN Kept(n) -> P]
        /\ \A k \in DOMAIN Kept(n) : Kept(n)[k] = s[Ordered(P)[k]]
        /\ \A k, l \in DOMAIN Kept(n) : k < l => Ordered(P)[k] < Ordered(P)[l]
    <2> HIDE DEF s, P
    <2> QED BY <1>1, <1>2, SelectedProperties
  <1>4. \A k \in DOMAIN Kept(n) : Ordered(P)[k] \in P /\ Kept(n)[k] = s[Ordered(P)[k]]
    BY <1>3
  <1>5. ASSUME OneLiveSession, NEW k \in DOMAIN Kept(n), NEW l \in DOMAIN Kept(n),
               Kept(n)[k].target_id = Kept(n)[l].target_id
        PROVE  k = l
    <2>1. \A i, j \in P : s[i].target_id = s[j].target_id => i = j
      BY <1>5 DEF OneLiveSession, IsActive
    <2> HIDE DEF P, s
    <2>2. Ordered(P)[k] = Ordered(P)[l]
      BY <1>4, <1>5, <2>1
    <2>3. Ordered(P)[k] \in Int
      BY <1>1, <1>4
    <2>4. ~(Ordered(P)[k] < Ordered(P)[l]) /\ ~(Ordered(P)[l] < Ordered(P)[k])
      BY <2>2, <2>3
    <2>5. ~(k < l) /\ ~(l < k)
      BY <1>3, <2>4
    <2>6. k \in Int /\ l \in Int
      BY <1>3
    <2> QED BY <2>5, <2>6
  <1> QED BY <1>3, <1>4, <1>5

\* NextPeer keeps the types.
LEMMA NextPeerTypes ==
    ASSUME TypeOK, NEW n \in Node, NEW rest \in Seq(Node), NextPeer(n, rest)
    PROVE  /\ work' \in [Node -> Seq(Node)]
           /\ pc' \in [Node -> {"cleanup", "single", "check", "send", "record"}]
           /\ wake' \in [Node -> 0..(Horizon + 1)]
  <1>1. now + 1 \in 0..(Horizon + 1)
    BY HolePunchAssumption DEF TypeOK, Times
  <1> QED BY <1>1 DEF NextPeer, Goto, TypeOK

\* The types of the fields of a session, and of what changes of it.
LEMMA SessionTypes ==
    ASSUME NEW s \in Session
    PROVE  /\ s.target_id \in Node /\ s.start \in Times /\ s.attempt_count \in Nat
           /\ s.success \in BOOLEAN
           /\ [s EXCEPT !.success = TRUE] \in Session
           /\ [s EXCEPT !.attempt_count = @ + 1] \in Session
  <1>1. /\ s.target_id \in Node /\ s.start \in Times /\ s.attempt_count \in Nat
        /\ s.success \in BOOLEAN
    BY DEF Session
  <1>2. [s EXCEPT !.success = TRUE] \in Session
    BY DEF Session
  <1>3. s.attempt_count + 1 \in Nat
    BY <1>1
  <1>4. [s EXCEPT !.attempt_count = @ + 1] \in Session
    BY <1>3 DEF Session
  <1> QED BY <1>1, <1>2, <1>4

\* A session that begins is a session.
LEMMA NewSessionType ==
    ASSUME TypeOK, NEW p \in Node
    PROVE  [target_id |-> p, start |-> now, attempt_count |-> 0, success |-> FALSE] \in Session
  BY DEF TypeOK, Session

-----------------------------------------------------------------------------
(* Type correctness *)

\* The state before the first packet is well typed.
LEMMA TypeInit == Init => TypeOK
  <1> SUFFICES ASSUME Init PROVE TypeOK
    OBVIOUS
  <1>1. 0 \in Times /\ 0 \in 0..(Horizon + 1)
    BY HolePunchAssumption DEF Times
  <1> QED BY <1>1, HolePunchAssumption DEF Init, TypeOK

\* Every step keeps the types.
LEMMA TypeStep ==
    ASSUME TypeOK, WorkDistinct, [Next]_vars
    PROVE  TypeOK'
  <1>1. CASE Tick
    BY <1>1, HolePunchAssumption, SMTT(30) DEF Tick, TypeOK, Times
  <1>2. ASSUME NEW n \in Node, Cleanup(n) PROVE TypeOK'
    <2>1. Kept(n) \in Seq(Session)
      BY KeptProperties
    <2> QED BY <1>2, <2>1 DEF Cleanup, Goto, TypeOK
  <1>3. ASSUME NEW n \in Node, GetActiveSessions(n) PROVE TypeOK'
    <2> DEFINE targets == [i \in DOMAIN Kept(n) |-> Kept(n)[i].target_id]
    <2>1. Kept(n) \in Seq(Session)
      BY KeptProperties
    <2>2. targets \in Seq(Node)
      <3>1. \A i \in DOMAIN Kept(n) : Kept(n)[i] \in Session
        BY <2>1
      <3>2. \A i \in DOMAIN Kept(n) : Kept(n)[i].target_id \in Node
        BY <3>1, SessionTypes
      <3> QED BY <2>1, <3>2
    <2>3. NextPeer(n, targets)
      BY <1>3 DEF GetActiveSessions
    <2> HIDE DEF targets
    <2> QED BY <1>3, <2>2, <2>3, NextPeerTypes DEF GetActiveSessions, TypeOK
  <1>4. ASSUME NEW n \in Node, CheckSingle(n) PROVE TypeOK'
    <2>1. work[n] \in Seq(Node) /\ work[n] # <<>>
      BY <1>4 DEF CheckSingle, WorkDistinct, TypeOK
    <2>2. Tail(work[n]) \in Seq(Node)
      BY <2>1
    <2>3. CASE NextPeer(n, Tail(work[n]))
      BY <1>4, <2>2, <2>3, NextPeerTypes DEF CheckSingle, TypeOK
    <2>4. CASE Goto(n, "send") /\ UNCHANGED <<work, wake>>
      BY <1>4, <2>4 DEF CheckSingle, Goto, TypeOK
    <2> QED BY <1>4, <2>3, <2>4 DEF CheckSingle
  <1>5. ASSUME NEW n \in Node, SendPunchPacket(n) PROVE TypeOK'
    <2>1. work[n] \in Seq(Node) /\ work[n] # <<>>
      BY <1>5 DEF SendPunchPacket, WorkDistinct, TypeOK
    <2>2. Head(work[n]) \in Node
      BY <2>1
    <2> QED BY <1>5, <2>2 DEF SendPunchPacket, Send, Goto, TypeOK, Packet
  <1>6. ASSUME NEW n \in Node, RecordPunch(n) PROVE TypeOK'
    <2>1. work[n] \in Seq(Node) /\ work[n] # <<>>
      BY <1>6 DEF RecordPunch, WorkDistinct, TypeOK
    <2>2. Tail(work[n]) \in Seq(Node)
      BY <2>1
    <2>3. m_sessions' \in [Node -> Seq(Session)]
      <3> DEFINE i == FirstOf(n, Head(work[n]))
      <3>1. CASE i = 0
        BY <1>6, <3>1 DEF RecordPunch, RecordAttempt, TypeOK
      <3>2. CASE i # 0
        <4>1. i \in DOMAIN m_sessions[n] /\ m_sessions[n] \in Seq(Session)
          BY <3>2, FirstOfProperties DEF TypeOK
        <4>2. m_sessions' = [m_sessions EXCEPT ![n][i].attempt_count = @ + 1]
          BY <1>6, <3>2 DEF RecordPunch, RecordAttempt
        <4> HIDE DEF i
        <4>3. m_sessions[n][i] \in Session
          BY <4>1
        <4>4. [m_sessions[n][i] EXCEPT !.attempt_count = @ + 1] \in Session
          BY <4>3, SessionTypes
        <4>5. [m_sessions[n] EXCEPT ![i].attempt_count = @ + 1] \in Seq(Session)
          BY <4>1, <4>4
        <4> QED BY <4>2, <4>5 DEF TypeOK
      <3> QED BY <3>1, <3>2
    <2> QED BY <1>6, <2>2, <2>3, NextPeerTypes DEF RecordPunch, TypeOK
  <1>7. ASSUME NEW n \in Node, NEW p \in Node, StartPunch(n, p)
        PROVE  m_sessions' \in [Node -> Seq(Session)] /\ begun' \subseteq Node \X Node
    <2> DEFINE new == [target_id |-> p, start |-> now, attempt_count |-> 0, success |-> FALSE]
    <2>1. new \in Session
      BY NewSessionType
    <2>2. begun' \subseteq Node \X Node
      BY <1>7 DEF StartPunch, TypeOK
    <2>3. m_sessions' \in {m_sessions, [m_sessions EXCEPT ![n] = Append(@, new)]}
      BY <1>7 DEF StartPunch
    <2> HIDE DEF new
    <2>4. Append(m_sessions[n], new) \in Seq(Session)
      BY <2>1 DEF TypeOK
    <2> QED BY <2>2, <2>3, <2>4 DEF TypeOK
  <1>8. ASSUME NEW n \in Node, NEW p \in Node, ReceiveIntroduction(n, p) PROVE TypeOK'
    BY <1>7, <1>8 DEF ReceiveIntroduction, TypeOK
  <1>9. ASSUME NEW n \in Node, NEW p \in Node, HandleHolePunchInfo(n, p) PROVE TypeOK'
    BY <1>7, <1>9 DEF HandleHolePunchInfo, TypeOK
  <1>10. ASSUME NEW n \in Node, NEW p \in Node, ReceiveMultiStart(n, p) PROVE TypeOK'
    BY <1>10, SMTT(30) DEF ReceiveMultiStart, StartMultiPortPunch, TypeOK
  <1>11. ASSUME NEW m \in net, HandlePunchPacket(m) PROVE TypeOK'
    BY <1>11, SMTT(30) DEF HandlePunchPacket, Send, TypeOK, Packet
  <1>12. ASSUME NEW m \in net, HandlePunchAck(m) PROVE TypeOK'
    <2>1. m.dst \in Node
      BY DEF TypeOK, Packet
    <2> DEFINE n == m.dst
               i == FirstOf(n, m.src)
    <2>2. m_sessions' \in [Node -> Seq(Session)]
      <3>1. CASE i = 0
        BY <1>12, <3>1 DEF HandlePunchAck, MarkSuccess, TypeOK
      <3>2. CASE i # 0
        <4>1. i \in DOMAIN m_sessions[n] /\ m_sessions[n] \in Seq(Session)
          BY <2>1, <3>2, FirstOfProperties DEF TypeOK
        <4>2. m_sessions' = [m_sessions EXCEPT ![n][i].success = TRUE]
          BY <1>12, <3>2 DEF HandlePunchAck, MarkSuccess
        <4> HIDE DEF i, n
        <4>3. m_sessions[n][i] \in Session
          BY <4>1
        <4>4. [m_sessions[n][i] EXCEPT !.success = TRUE] \in Session
          BY <4>3, SessionTypes
        <4>5. [m_sessions[n] EXCEPT ![i].success = TRUE] \in Seq(Session)
          BY <4>1, <4>4
        <4> QED BY <4>2, <4>5 DEF TypeOK
      <3> QED BY <3>1, <3>2
    <2> QED BY <1>12, <2>2 DEF HandlePunchAck, TypeOK
  <1>13. CASE UNCHANGED vars
    BY <1>13 DEF vars, TypeOK
  <1> QED BY <1>1, <1>2, <1>3, <1>4, <1>5, <1>6, <1>8, <1>9, <1>10, <1>11, <1>12, <1>13
        DEF Next, PunchLoop

-----------------------------------------------------------------------------
(* What the operations of HolePunchManager do to the sessions *)

\* Cleanup, at the end of most operations, leaves no session that it should remove.
LEMMA AfterCleanup ==
    ASSUME TypeOK, NEW n \in Node, Cleanup(n)
    PROVE  /\ \A q \in Node : \A k \in DOMAIN m_sessions'[q] : \E i \in DOMAIN m_sessions[q] :
                 /\ m_sessions'[q][k] = m_sessions[q][i]
                 /\ q = n => IsActive(m_sessions[q][i])
           /\ OneLiveSession => \A k, l \in DOMAIN m_sessions'[n] :
                 m_sessions'[n][k].target_id = m_sessions'[n][l].target_id => k = l
           /\ \A q \in Node \ {n} : m_sessions'[q] = m_sessions[q]
  <1>1. m_sessions' = [m_sessions EXCEPT ![n] = Kept(n)] /\ m_sessions \in [Node -> Seq(Session)]
    BY DEF Cleanup, TypeOK
  <1>2. /\ m_sessions'[n] = Kept(n)
        /\ \A q \in Node \ {n} : m_sessions'[q] = m_sessions[q]
    BY <1>1
  <1> QED BY <1>2, KeptProperties

\* A new session comes after all others, for a peer that had none under way.
LEMMA AfterStart ==
    ASSUME TypeOK, NEW n \in Node, NEW p \in Node, StartPunch(n, p)
    PROVE  /\ begun \subseteq begun' /\ <<n, p>> \in begun'
           /\ \A q \in Node : \A k \in DOMAIN m_sessions'[q] :
                 \/ k \in DOMAIN m_sessions[q] /\ m_sessions'[q][k] = m_sessions[q][k]
                 \/ /\ q = n /\ k = Len(m_sessions[n]) + 1
                    /\ m_sessions'[q][k] =
                          [target_id |-> p, start |-> now, attempt_count |-> 0, success |-> FALSE]
                    /\ \A i \in DOMAIN m_sessions[n] :
                          IsLive(m_sessions[n][i]) => m_sessions[n][i].target_id # p
  <1> DEFINE new == [target_id |-> p, start |-> now, attempt_count |-> 0, success |-> FALSE]
  <1>1. m_sessions \in [Node -> Seq(Session)]
    BY DEF TypeOK
  <1>2. begun \subseteq begun' /\ <<n, p>> \in begun'
    BY DEF StartPunch
  <1>3. CASE m_sessions' = m_sessions
    BY <1>2, <1>3
  <1>4. CASE /\ m_sessions' = [m_sessions EXCEPT ![n] = Append(@, new)]
             /\ ~\E s \in SingleSessions(n) : s.target_id = p /\ IsLive(s)
    <2>1. \A i \in DOMAIN m_sessions[n] :
             IsLive(m_sessions[n][i]) => m_sessions[n][i].target_id # p
      BY <1>4 DEF SingleSessions
    <2> HIDE DEF new
    <2>2. /\ m_sessions'[n] = Append(m_sessions[n], new)
          /\ \A q \in Node \ {n} : m_sessions'[q] = m_sessions[q]
      BY <1>1, <1>4
    <2>3. ASSUME NEW k \in DOMAIN m_sessions'[n]
          PROVE  \/ k \in DOMAIN m_sessions[n] /\ m_sessions'[n][k] = m_sessions[n][k]
                 \/ k = Len(m_sessions[n]) + 1 /\ m_sessions'[n][k] = new
      BY <1>1, <2>2
    <2> QED BY <1>2, <2>1, <2>2, <2>3 DEF new
  <1> QED BY <1>3, <1>4 DEF StartPunch

\* Of two sessions for a peer one has succeeded, and the other is no longer under way.
LEMMA AfterSuccess ==
    ASSUME TypeOK, NEW n \in Node, NEW p, MarkSuccess(n, p)
    PROVE  \A q \in Node : DOMAIN m_sessions'[q] = DOMAIN m_sessions[q]
              /\ \A k \in DOMAIN m_sessions[q] :
                    /\ m_sessions'[q][k].target_id = m_sessions[q][k].target_id
                    /\ m_sessions'[q][k].start = m_sessions[q][k].start
                    /\ m_sessions'[q][k].attempt_count = m_sessions[q][k].attempt_count
                    /\ m_sessions[q][k].success => m_sessions'[q][k].success
                    /\ m_sessions'[q][k].success =>
                          m_sessions[q][k].success \/ (q = n /\ m_sessions[q][k].target_id = p)
  <1> DEFINE i == FirstOf(n, p)
  <1>1. m_sessions \in [Node -> Seq(Session)]
    BY DEF TypeOK
  <1>2. CASE m_sessions' = m_sessions
    BY <1>2
  <1>3. CASE i # 0 /\ m_sessions' = [m_sessions EXCEPT ![n][i].success = TRUE]
    <2>1. i \in DOMAIN m_sessions[n] /\ m_sessions[n][i].target_id = p
      BY <1>3, FirstOfProperties
    <2> HIDE DEF i
    <2>2. m_sessions[n][i] \in Session
      BY <1>1, <2>1
    <2> DEFINE s == m_sessions[n][i]
               t == [s EXCEPT !.success = TRUE]
    <2>3. /\ t.target_id = s.target_id /\ t.start = s.start
          /\ t.attempt_count = s.attempt_count /\ t.success
      BY <2>2 DEF Session
    <2>4. m_sessions' = [m_sessions EXCEPT ![n] = [@ EXCEPT ![i] = t]]
      BY <1>3
    <2> HIDE DEF t
    <2>5. /\ \A q \in Node \ {n} : m_sessions'[q] = m_sessions[q]
          /\ DOMAIN m_sessions'[n] = DOMAIN m_sessions[n]
          /\ m_sessions'[n][i] = t
          /\ \A k \in DOMAIN m_sessions[n] \ {i} : m_sessions'[n][k] = m_sessions[n][k]
      BY <1>1, <2>1, <2>4
    <2> QED BY <2>1, <2>3, <2>5
  <1> QED BY <1>2, <1>3 DEF MarkSuccess

\* A session that fails or ends changes nothing else.
LEMMA AfterRecord ==
    ASSUME TypeOK, NEW n \in Node, NEW p, RecordAttempt(n, p)
    PROVE  \A q \in Node : DOMAIN m_sessions'[q] = DOMAIN m_sessions[q]
              /\ \A k \in DOMAIN m_sessions[q] :
                    /\ m_sessions'[q][k].target_id = m_sessions[q][k].target_id
                    /\ m_sessions'[q][k].start = m_sessions[q][k].start
                    /\ m_sessions'[q][k].success = m_sessions[q][k].success
                    /\ \/ m_sessions'[q][k].attempt_count = m_sessions[q][k].attempt_count
                       \/ /\ q = n /\ m_sessions[q][k].target_id = p
                          /\ m_sessions'[q][k].attempt_count = m_sessions[q][k].attempt_count + 1
  <1> DEFINE i == FirstOf(n, p)
  <1>1. m_sessions \in [Node -> Seq(Session)]
    BY DEF TypeOK
  <1>2. CASE m_sessions' = m_sessions
    BY <1>2
  <1>3. CASE i # 0 /\ m_sessions' = [m_sessions EXCEPT ![n][i].attempt_count = @ + 1]
    <2>1. i \in DOMAIN m_sessions[n] /\ m_sessions[n][i].target_id = p
      BY <1>3, FirstOfProperties
    <2> HIDE DEF i
    <2>2. m_sessions[n][i] \in Session
      BY <1>1, <2>1
    <2> DEFINE s == m_sessions[n][i]
               t == [s EXCEPT !.attempt_count = @ + 1]
    <2>3. /\ t.target_id = s.target_id /\ t.start = s.start
          /\ t.attempt_count = s.attempt_count + 1 /\ t.success = s.success
      BY <2>2 DEF Session
    <2>4. m_sessions' = [m_sessions EXCEPT ![n] = [@ EXCEPT ![i] = t]]
      BY <1>3
    <2> HIDE DEF t
    <2>5. /\ \A q \in Node \ {n} : m_sessions'[q] = m_sessions[q]
          /\ DOMAIN m_sessions'[n] = DOMAIN m_sessions[n]
          /\ m_sessions'[n][i] = t
          /\ \A k \in DOMAIN m_sessions[n] \ {i} : m_sessions'[n][k] = m_sessions[n][k]
      BY <1>1, <2>1, <2>4
    <2> QED BY <2>1, <2>3, <2>5
  <1> QED BY <1>2, <1>3 DEF RecordAttempt

-----------------------------------------------------------------------------
(* Sessions and acknowledgements *)

\* A session starts at an integer.
LEMMA StartTypes ==
    ASSUME TypeOK
    PROVE  /\ now \in Int
           /\ \A n \in Node : LastStart[n] \in Int
           /\ \A n \in Node : \A k \in DOMAIN m_sessions[n] :
                 m_sessions[n][k] \in Session /\ m_sessions[n][k].start \in Int
                 /\ m_sessions[n][k].attempt_count \in Nat
  <1>1. now \in Int /\ \A n \in Node : LastStart[n] \in Int
    BY HolePunchAssumption DEF TypeOK, Times
  <1>2. ASSUME NEW n \in Node, NEW k \in DOMAIN m_sessions[n]
        PROVE  m_sessions[n][k] \in Session /\ m_sessions[n][k].start \in Int
               /\ m_sessions[n][k].attempt_count \in Nat
    <2>1. m_sessions[n][k] \in Session
      BY DEF TypeOK
    <2>2. m_sessions[n][k].start \in Times /\ m_sessions[n][k].attempt_count \in Nat
      BY <2>1, SessionTypes
    <2> QED BY <2>1, <2>2, HolePunchAssumption DEF Times
  <1> QED BY <1>1, <1>2

\* Whoever is punched has been begun.
LEMMA ActiveIsBegun ==
    ASSUME SessionsBegun, NEW n \in Node, NEW p, IsPunchActive(n, p)
    PROVE  <<n, p>> \in begun
  BY DEF SessionsBegun, IsPunchActive, SingleSessions

\* Every step keeps what is known of the sessions of a manager.
LEMMA SessionStep ==
    ASSUME TypeOK, TypeOK', SessionInv, [Next]_vars
    PROVE  SessionInv'
  <1> USE DEF SessionInv
  <1>1. CASE Tick
    <2>1. /\ m_sessions' = m_sessions /\ net' = net /\ begun' = begun
          /\ now \in Int /\ now' = now + 1
      BY <1>1, HolePunchAssumption DEF Tick, TypeOK, Times
    <2>2. \A n \in Node : \A i \in DOMAIN m_sessions[n] : m_sessions[n][i].start \in Int
      BY StartTypes
    <2>3. \A x \in Int : x =< now => x =< now'
      BY <2>1
    <2>4. SessionsBegun'
      BY <2>1, <2>2, <2>3 DEF SessionsBegun
    <2> QED BY <2>1, <2>4 DEF AcksBegun, SuccessIsMutual, SingleSessions, OneLiveSession, IsLive
  <1>2. ASSUME NEW n \in Node, Cleanup(n) PROVE SessionInv'
    <2>1. now' = now /\ net' = net /\ begun' = begun
      BY <1>2 DEF Cleanup
    <2>2. SessionsBegun'
      <3>1. ASSUME NEW q \in Node, NEW k \in DOMAIN m_sessions'[q]
            PROVE  \E i \in DOMAIN m_sessions[q] : m_sessions'[q][k] = m_sessions[q][i]
        BY <1>2, AfterCleanup
      <3> QED BY <2>1, <3>1 DEF SessionsBegun
    <2>3. SuccessIsMutual'
      BY <1>2, <2>1, AfterCleanup DEF SuccessIsMutual, SingleSessions
    <2>4. OneLiveSession'
      BY <1>2, <2>1, AfterCleanup DEF OneLiveSession, IsLive
    <2> QED BY <2>1, <2>2, <2>3, <2>4 DEF AcksBegun
  <1>3. ASSUME NEW n \in Node, GetActiveSessions(n) PROVE SessionInv'
    BY <1>3 DEF GetActiveSessions, SessionsBegun, AcksBegun, SuccessIsMutual, SingleSessions,
                OneLiveSession, IsLive
  <1>4. ASSUME NEW n \in Node, CheckSingle(n) PROVE SessionInv'
    BY <1>4 DEF CheckSingle, SessionsBegun, AcksBegun, SuccessIsMutual, SingleSessions,
                OneLiveSession, IsLive
  <1>5. ASSUME NEW n \in Node, SendPunchPacket(n) PROVE SessionInv'
    BY <1>5 DEF SendPunchPacket, Send, SessionsBegun, AcksBegun, SuccessIsMutual,
                SingleSessions, OneLiveSession, IsLive
  <1>6. ASSUME NEW n \in Node, RecordPunch(n) PROVE SessionInv'
    <2>1. now' = now /\ net' = net /\ begun' = begun /\ RecordAttempt(n, Head(work[n]))
      BY <1>6 DEF RecordPunch
    <2>2. SessionsBegun'
      <3>1. ASSUME NEW q \in Node, NEW k \in DOMAIN m_sessions'[q]
            PROVE  /\ k \in DOMAIN m_sessions[q]
                   /\ m_sessions'[q][k].target_id = m_sessions[q][k].target_id
                   /\ m_sessions'[q][k].start = m_sessions[q][k].start
        BY <2>1, AfterRecord
      <3> QED BY <2>1, <3>1 DEF SessionsBegun
    <2>3. SuccessIsMutual'
      BY <2>1, AfterRecord DEF SuccessIsMutual, SingleSessions
    <2>4. OneLiveSession'
      BY <2>1, AfterRecord DEF OneLiveSession, IsLive
    <2> QED BY <2>1, <2>2, <2>3, <2>4 DEF AcksBegun
  <1>7. ASSUME NEW n \in Node, NEW p \in Node, MayStart(n), StartPunch(n, p),
               now' = now, net' = net
        PROVE  SessionInv'
    <2> DEFINE new == [target_id |-> p, start |-> now, attempt_count |-> 0, success |-> FALSE]
    <2>1. /\ begun \subseteq begun' /\ <<n, p>> \in begun'
          /\ now =< now /\ now =< LastStart[n]
      <3>1. now =< now /\ now =< LastStart[n]
        BY <1>7, StartTypes DEF MayStart
      <3> QED BY <1>7, <3>1, AfterStart
    <2> HIDE DEF new
    <2>2. ASSUME NEW q \in Node, NEW k \in DOMAIN m_sessions'[q]
          PROVE  \/ k \in DOMAIN m_sessions[q] /\ m_sessions'[q][k] = m_sessions[q][k]
                 \/ /\ q = n /\ k = Len(m_sessions[n]) + 1 /\ m_sessions'[q][k] = new
                    /\ \A i \in DOMAIN m_sessions[n] :
                          ~m_sessions[n][i].success => m_sessions[n][i].target_id # p
      BY <1>7, AfterStart, ZenonT(30) DEF new, IsLive
    <2>3. new.target_id = p /\ new.start = now /\ ~new.success
      BY DEF new
    <2>4. SessionsBegun'
      <3>1. ASSUME NEW q \in Node, NEW k \in DOMAIN m_sessions'[q]
            PROVE  /\ m_sessions'[q][k].start =< now /\ m_sessions'[q][k].start =< LastStart[q]
                   /\ <<q, m_sessions'[q][k].target_id>> \in begun'
        <4>1. CASE k \in DOMAIN m_sessions[q] /\ m_sessions'[q][k] = m_sessions[q][k]
          BY <2>1, <4>1 DEF SessionsBegun
        <4>2. CASE q = n /\ m_sessions'[q][k] = new
          BY <2>1, <2>3, <4>2
        <4> QED BY <2>2, <4>1, <4>2
      <3> QED BY <1>7, <3>1 DEF SessionsBegun
    <2>5. SuccessIsMutual'
      <3>1. ASSUME NEW q \in Node, NEW k \in DOMAIN m_sessions'[q], m_sessions'[q][k].success
            PROVE  <<m_sessions'[q][k].target_id, q>> \in begun'
        BY <2>1, <2>2, <2>3, <3>1 DEF SuccessIsMutual, SingleSessions
      <3> QED BY <3>1 DEF SuccessIsMutual, SingleSessions
    <2>6. OneLiveSession'
      <3>1. ASSUME NEW q \in Node, NEW i \in DOMAIN m_sessions'[q], NEW j \in DOMAIN m_sessions'[q],
                   ~m_sessions'[q][i].success, ~m_sessions'[q][j].success,
                   m_sessions'[q][i].target_id = m_sessions'[q][j].target_id
            PROVE  i = j
        <4>1. CASE /\ i \in DOMAIN m_sessions[q] /\ m_sessions'[q][i] = m_sessions[q][i]
                   /\ j \in DOMAIN m_sessions[q] /\ m_sessions'[q][j] = m_sessions[q][j]
          BY <3>1, <4>1 DEF OneLiveSession, IsLive
        <4>2. CASE /\ q = n /\ i = Len(m_sessions[n]) + 1 /\ m_sessions'[q][i] = new
                   /\ \A l \in DOMAIN m_sessions[n] :
                         ~m_sessions[n][l].success => m_sessions[n][l].target_id # p
          BY <2>2, <2>3, <3>1, <4>2
        <4>3. CASE /\ q = n /\ j = Len(m_sessions[n]) + 1 /\ m_sessions'[q][j] = new
                   /\ \A l \in DOMAIN m_sessions[n] :
                         ~m_sessions[n][l].success => m_sessions[n][l].target_id # p
          BY <2>2, <2>3, <3>1, <4>3
        <4> QED BY <2>2, <4>1, <4>2, <4>3
      <3> QED BY <3>1 DEF OneLiveSession, IsLive
    <2>7. AcksBegun'
      BY <1>7, <2>1 DEF AcksBegun
    <2> QED BY <2>4, <2>5, <2>6, <2>7
  <1>8. ASSUME NEW n \in Node, NEW p \in Node, ReceiveIntroduction(n, p) PROVE SessionInv'
    BY <1>7, <1>8 DEF ReceiveIntroduction
  <1>9. ASSUME NEW n \in Node, NEW p \in Node, HandleHolePunchInfo(n, p) PROVE SessionInv'
    BY <1>7, <1>9 DEF HandleHolePunchInfo
  <1>10. ASSUME NEW n \in Node, NEW p \in Node, ReceiveMultiStart(n, p) PROVE SessionInv'
    BY <1>10 DEF ReceiveMultiStart, SessionsBegun, AcksBegun, SuccessIsMutual, SingleSessions,
                 OneLiveSession, IsLive
  <1>11. ASSUME NEW m \in net, HandlePunchPacket(m) PROVE SessionInv'
    <2>1. m.dst \in Node
      BY DEF TypeOK, Packet
    <2>2. <<m.dst, m.src>> \in begun
      BY <1>11, <2>1, ActiveIsBegun DEF HandlePunchPacket
    <2>3. AcksBegun'
      BY <1>11, <2>2 DEF HandlePunchPacket, Send, AcksBegun
    <2> QED BY <1>11, <2>3 DEF HandlePunchPacket, SessionsBegun, SuccessIsMutual,
                               SingleSessions, OneLiveSession, IsLive
  <1>12. ASSUME NEW m \in net, HandlePunchAck(m) PROVE SessionInv'
    <2>1. m.dst \in Node /\ <<m.src, m.dst>> \in begun
      BY <1>12 DEF HandlePunchAck, AcksBegun, TypeOK, Packet
    <2>2. now' = now /\ net' = net /\ begun' = begun /\ MarkSuccess(m.dst, m.src)
      BY <1>12 DEF HandlePunchAck
    <2>3. SessionsBegun'
      <3>1. ASSUME NEW q \in Node, NEW k \in DOMAIN m_sessions'[q]
            PROVE  /\ k \in DOMAIN m_sessions[q]
                   /\ m_sessions'[q][k].target_id = m_sessions[q][k].target_id
                   /\ m_sessions'[q][k].start = m_sessions[q][k].start
        BY <2>1, <2>2, AfterSuccess
      <3> QED BY <2>2, <3>1 DEF SessionsBegun
    <2>4. SuccessIsMutual'
      BY <2>1, <2>2, AfterSuccess DEF SuccessIsMutual, SingleSessions
    <2>5. OneLiveSession'
      BY <2>1, <2>2, AfterSuccess DEF OneLiveSession, IsLive
    <2> QED BY <2>2, <2>3, <2>4, <2>5 DEF AcksBegun
  <1>13. CASE UNCHANGED vars
    BY <1>13 DEF vars, SessionsBegun, AcksBegun, SuccessIsMutual, SingleSessions,
                 OneLiveSession, IsLive
  <1> QED BY <1>1, <1>2, <1>3, <1>4, <1>5, <1>6, <1>8, <1>9, <1>10, <1>11, <1>12, <1>13
        DEF Next, PunchLoop

-----------------------------------------------------------------------------
(* The pace of the attempts *)

\* What a pass has left to do.
LEMMA AfterNextPeer ==
    ASSUME TypeOK, NEW n \in Node, NEW rest \in Seq(Node), NextPeer(n, rest)
    PROVE  /\ \A q \in Node \ {n} : pc'[q] = pc[q] /\ work'[q] = work[q] /\ wake'[q] = wake[q]
           /\ work'[n] = rest
           /\ \/ rest # <<>> /\ pc'[n] = "check" /\ wake'[n] = wake[n]
              \/ rest = <<>> /\ pc'[n] = "cleanup" /\ wake'[n] = now + 1
  BY DEF NextPeer, Goto, TypeOK

\* A pass goes on, or ends and the thread sleeps.
LEMMA PacedNext ==
    ASSUME TypeOK, NEW n \in Node, NEW rest \in Seq(Node), NextPeer(n, rest), now' = now,
           NEW s, s.start \in Int, s.attempt_count \in Nat,
           s.attempt_count =< now - s.start + 1, s.attempt_count =< MaxAttempts,
           (\E i \in DOMAIN rest : rest[i] = s.target_id)
              => s.attempt_count =< now - s.start /\ s.attempt_count < MaxAttempts
    PROVE  Paced(n, s)'
  <1>1. now \in Int
    BY StartTypes
  <1>2. CASE rest # <<>> /\ pc'[n] = "check" /\ wake'[n] = wake[n] /\ work'[n] = rest
    BY <1>2 DEF Paced, ToRecord, Elapsed
  <1>3. CASE rest = <<>> /\ pc'[n] = "cleanup" /\ wake'[n] = now + 1
    <2>1. s.attempt_count =< (now + 1) - s.start
      BY <1>1
    <2> QED BY <1>3, <2>1 DEF Paced, ToRecord, Elapsed
  <1> QED BY <1>2, <1>3, AfterNextPeer

\* The peers of a snapshot or of what is left of it stay distinct.
LEMMA DistinctNext ==
    ASSUME TypeOK, WorkDistinct, NEW n \in Node, NEW rest \in Seq(Node), NextPeer(n, rest),
           \A i, j \in DOMAIN rest : rest[i] = rest[j] => i = j
    PROVE  WorkDistinct'
  <1> SUFFICES ASSUME NEW q \in Node
               PROVE  /\ pc'[q] \in {"check", "send", "record"} => work'[q] # <<>>
                      /\ \A i, j \in DOMAIN work'[q] : work'[q][i] = work'[q][j] => i = j
    BY DEF WorkDistinct
  <1>1. CASE q = n
    BY <1>1, AfterNextPeer
  <1>2. CASE q # n
    BY <1>2, AfterNextPeer DEF WorkDistinct
  <1> QED BY <1>1, <1>2

\* Nothing happens to the pace of a node that takes no step.
LEMMA PacedStays ==
    ASSUME NEW q \in Node, NEW s, NEW t, Paced(q, s), now' = now,
           pc'[q] = pc[q], work'[q] = work[q], wake'[q] = wake[q],
           t.target_id = s.target_id, t.start = s.start, t.attempt_count = s.attempt_count
    PROVE  Paced(q, t)'
  BY DEF Paced, ToRecord, Elapsed

\* Every step keeps the attempts apart.
LEMMA PaceStep ==
    ASSUME PunchInv, TypeOK', [Next]_vars
    PROVE  (WorkDistinct /\ PassesPaced)'
  <1> USE DEF PunchInv
  <1>1. CASE Tick
    <2>1. /\ UNCHANGED <<m_sessions, pc, work, wake>> /\ now' = now + 1 /\ now \in Int
      BY <1>1, StartTypes DEF Tick
    <2>2. WorkDistinct'
      BY <2>1 DEF WorkDistinct
    <2>3. ASSUME NEW n \in Node PROVE wake'[n] =< now' + 1
      BY <2>1, HolePunchAssumption DEF PassesPaced, TypeOK, Times
    <2>4. ASSUME NEW n \in Node, NEW k \in DOMAIN m_sessions'[n] PROVE Paced(n, m_sessions[n][k])'
      <3> DEFINE s == m_sessions[n][k]
      <3>1. /\ Paced(n, s) /\ s.start \in Int /\ s.attempt_count \in Nat
            /\ m_sessions' = m_sessions
        BY <2>1, <2>4, StartTypes DEF PassesPaced
      <3> HIDE DEF s
      <3>2. Paced(n, s) => /\ s.attempt_count =< now - s.start + 1
                           /\ ToRecord(n, s) => s.attempt_count =< now - s.start
        BY DEF Paced, Elapsed
      <3>3. Paced(n, s) => /\ s.attempt_count =< now' - s.start + 1
                           /\ ToRecord(n, s) => s.attempt_count =< now' - s.start
        BY <2>1, <3>1, <3>2
      <3>4. s.attempt_count =< MaxAttempts
            /\ (pc[n] = "cleanup" => s.attempt_count = 0 \/ s.attempt_count =< wake[n] - s.start)
            /\ (ToRecord(n, s) => s.attempt_count < MaxAttempts)
        BY <3>1 DEF Paced
      <3> QED BY <2>1, <3>1, <3>3, <3>4 DEF Paced, ToRecord, Elapsed, s
    <2> QED BY <2>2, <2>3, <2>4 DEF PassesPaced
  <1>2. ASSUME NEW n \in Node, Cleanup(n) PROVE (WorkDistinct /\ PassesPaced)'
    <2>1. /\ UNCHANGED <<now, work, wake>> /\ pc[n] = "cleanup" /\ pc'[n] = "single"
          /\ \A q \in Node \ {n} : pc'[q] = pc[q] /\ m_sessions'[q] = m_sessions[q]
          /\ now >= wake[n] \/ now = Horizon
      BY <1>2, AfterCleanup DEF Cleanup, Goto, TypeOK
    <2>2. WorkDistinct'
      BY <2>1 DEF WorkDistinct
    <2>3. ASSUME NEW k \in DOMAIN m_sessions'[n] PROVE Paced(n, m_sessions[n][k])'
      <3>1. PICK i \in DOMAIN m_sessions[n] :
               m_sessions'[n][k] = m_sessions[n][i] /\ IsActive(m_sessions[n][i])
        BY <1>2, AfterCleanup
      <3> DEFINE s == m_sessions[n][i]
      <3>2. /\ Paced(n, s) /\ IsActive(s) /\ s.start =< now /\ s.start =< LastStart[n]
            /\ s.start \in Int /\ s.attempt_count \in Nat /\ now \in Int /\ LastStart[n] \in Int
            /\ wake[n] \in Int
        <4>1. wake[n] \in Int
          BY HolePunchAssumption DEF TypeOK
        <4>2. Paced(n, s) /\ s.start =< now /\ s.start =< LastStart[n]
          BY <3>1 DEF PassesPaced, SessionInv, SessionsBegun
        <4> QED BY <3>1, <4>1, <4>2, StartTypes
      <3> HIDE DEF s
      <3>3. now - s.start < MaxAttempts
        BY <3>2 DEF IsActive, Elapsed
      <3>4. now >= wake[n]
        <4>1. now # Horizon
          BY <3>2, <3>3, HolePunchAssumption
        <4> QED BY <2>1, <4>1
      <3>5. s.attempt_count = 0 \/ s.attempt_count =< wake[n] - s.start
        BY <2>1, <3>2 DEF Paced
      <3>6. s.attempt_count =< now - s.start /\ s.attempt_count < MaxAttempts
        BY <3>2, <3>3, <3>4, <3>5, HolePunchAssumption
      <3>7. s.attempt_count =< now - s.start + 1 /\ s.attempt_count =< MaxAttempts
        BY <3>2, <3>6, HolePunchAssumption
      <3>8. m_sessions'[n][k] = s
        BY <3>1 DEF s
      <3> QED BY <2>1, <3>6, <3>7, <3>8 DEF Paced, Elapsed
    <2>4. ASSUME NEW q \in Node \ {n}, NEW k \in DOMAIN m_sessions'[q] PROVE Paced(q, m_sessions[q][k])'
      BY <2>1, <2>4 DEF PassesPaced, Paced, ToRecord, Elapsed
    <2>5. \A q \in Node : wake'[q] =< now' + 1
      BY <2>1 DEF PassesPaced
    <2> QED BY <2>2, <2>3, <2>4, <2>5 DEF PassesPaced
  <1>3. ASSUME NEW n \in Node, NEW rest \in Seq(Node), NextPeer(n, rest), now' = now,
               \A i, j \in DOMAIN rest : rest[i] = rest[j] => i = j,
               \A q \in Node \ {n} : m_sessions'[q] = m_sessions[q],
               \A k \in DOMAIN m_sessions'[n] :
                  LET s == m_sessions'[n][k]
                  IN  /\ s.attempt_count =< now - s.start + 1 /\ s.attempt_count =< MaxAttempts
                      /\ (\E i \in DOMAIN rest : rest[i] = s.target_id)
                            => s.attempt_count =< now - s.start /\ s.attempt_count < MaxAttempts
        PROVE  (WorkDistinct /\ PassesPaced)'
    <2>1. WorkDistinct'
      BY <1>3, DistinctNext
    <2>2. ASSUME NEW k \in DOMAIN m_sessions'[n] PROVE Paced(n, m_sessions[n][k])'
      <3> DEFINE s == m_sessions'[n][k]
      <3>1. s.start \in Int /\ s.attempt_count \in Nat
        <4>1. s \in Session
          BY DEF TypeOK
        <4>2. s.start \in Times /\ s.attempt_count \in Nat
          BY <4>1, SessionTypes
        <4> QED BY <4>2, HolePunchAssumption DEF Times
      <3>2. /\ s.attempt_count =< now - s.start + 1 /\ s.attempt_count =< MaxAttempts
            /\ (\E i \in DOMAIN rest : rest[i] = s.target_id)
                  => s.attempt_count =< now - s.start /\ s.attempt_count < MaxAttempts
        BY <1>3
      <3> HIDE DEF s
      <3>3. /\ s.attempt_count =< now' - s.start + 1 /\ s.attempt_count =< MaxAttempts
            /\ pc'[n] = "cleanup" => s.attempt_count = 0 \/ s.attempt_count =< wake'[n] - s.start
            /\ \/ pc'[n] = "single"
               \/ /\ pc'[n] \in {"check", "send", "record"}
                  /\ \E i \in DOMAIN work'[n] : work'[n][i] = s.target_id
               => s.attempt_count =< now' - s.start /\ s.attempt_count < MaxAttempts
        BY <1>3, <3>1, <3>2, PacedNext DEF Paced, ToRecord, Elapsed
      <3> QED BY <3>3 DEF Paced, ToRecord, Elapsed, s
    <2>3. ASSUME NEW q \in Node \ {n}, NEW k \in DOMAIN m_sessions'[q] PROVE Paced(q, m_sessions[q][k])'
      <3>1. m_sessions'[q] = m_sessions[q] /\ pc'[q] = pc[q] /\ work'[q] = work[q] /\ wake'[q] = wake[q]
        BY <1>3, AfterNextPeer
      <3> QED BY <1>3, <2>3, <3>1 DEF PassesPaced, Paced, ToRecord, Elapsed
    <2>4. ASSUME NEW q \in Node PROVE wake'[q] =< now' + 1
      <3>1. wake'[q] = wake[q] \/ wake'[q] = now + 1
        BY <1>3, AfterNextPeer
      <3>2. wake[q] =< now + 1 /\ now \in Int
        BY StartTypes DEF PassesPaced
      <3> QED BY <1>3, <3>1, <3>2
    <2> QED BY <2>1, <2>2, <2>3, <2>4 DEF PassesPaced
  <1>4. ASSUME NEW n \in Node, GetActiveSessions(n) PROVE (WorkDistinct /\ PassesPaced)'
    <2> DEFINE targets == [i \in DOMAIN Kept(n) |-> Kept(n)[i].target_id]
    <2>1. /\ pc[n] = "single" /\ NextPeer(n, targets) /\ now' = now /\ m_sessions' = m_sessions
      BY <1>4 DEF GetActiveSessions
    <2>2. /\ Kept(n) \in Seq(Session)
          /\ \A k, l \in DOMAIN Kept(n) : Kept(n)[k].target_id = Kept(n)[l].target_id => k = l
      BY KeptProperties DEF SessionInv
    <2>3. \A i \in DOMAIN Kept(n) : Kept(n)[i].target_id \in Node
      <3>1. \A i \in DOMAIN Kept(n) : Kept(n)[i] \in Session
        BY <2>2
      <3> QED BY <3>1, SessionTypes
    <2>4. targets \in Seq(Node) /\ \A i, j \in DOMAIN targets : targets[i] = targets[j] => i = j
      BY <2>2, <2>3
    <2> HIDE DEF targets
    <2>5. \A k \in DOMAIN m_sessions[n] : Paced(n, m_sessions[n][k])
      BY DEF PassesPaced
    <2> QED BY <1>3, <2>1, <2>4, <2>5 DEF Paced, ToRecord, Elapsed
  <1>5. ASSUME NEW n \in Node, work[n] # <<>>
        PROVE  /\ work[n] \in Seq(Node) /\ Tail(work[n]) \in Seq(Node)
               /\ \A i, j \in DOMAIN Tail(work[n]) : Tail(work[n])[i] = Tail(work[n])[j] => i = j
               /\ \A i \in DOMAIN Tail(work[n]) : /\ Tail(work[n])[i] # Head(work[n])
                                                  /\ \E j \in DOMAIN work[n] : work[n][j] = Tail(work[n])[i]
               /\ \E i \in DOMAIN work[n] : work[n][i] = Head(work[n])
    <2>1. work[n] \in Seq(Node) /\ Tail(work[n]) \in Seq(Node) /\ Len(work[n]) \in Nat /\ Len(work[n]) > 0
      BY <1>5, SMTT(30) DEF TypeOK
    <2>2. /\ DOMAIN Tail(work[n]) = 1..(Len(work[n]) - 1)
          /\ \A i \in DOMAIN Tail(work[n]) : i + 1 \in DOMAIN work[n] /\ Tail(work[n])[i] = work[n][i + 1]
          /\ Head(work[n]) = work[n][1] /\ 1 \in DOMAIN work[n]
      BY <2>1
    <2>3. \A i, j \in DOMAIN work[n] : work[n][i] = work[n][j] => i = j
      BY DEF WorkDistinct
    <2>4. ASSUME NEW i \in DOMAIN Tail(work[n]), NEW j \in DOMAIN Tail(work[n]),
                 Tail(work[n])[i] = Tail(work[n])[j]
          PROVE  i = j
      <3>1. i + 1 = j + 1 /\ i \in Int /\ j \in Int
        BY <2>1, <2>2, <2>3, <2>4
      <3> QED BY <3>1
    <2>5. ASSUME NEW i \in DOMAIN Tail(work[n])
          PROVE  Tail(work[n])[i] # Head(work[n])
      <3>1. i + 1 # 1
        BY <2>1, <2>2
      <3> QED BY <2>2, <2>3, <3>1
    <2> QED BY <2>1, <2>2, <2>4, <2>5
  <1>6. ASSUME NEW n \in Node, CheckSingle(n) PROVE (WorkDistinct /\ PassesPaced)'
    <2>1. /\ pc[n] = "check" /\ work[n] # <<>> /\ now' = now /\ m_sessions' = m_sessions
      BY <1>6 DEF CheckSingle, WorkDistinct
    <2>2. CASE NextPeer(n, Tail(work[n]))
      <3>1. \A k \in DOMAIN m_sessions[n] : Paced(n, m_sessions[n][k])
        BY DEF PassesPaced
      <3>2. ASSUME NEW k \in DOMAIN m_sessions[n],
                   \E i \in DOMAIN Tail(work[n]) : Tail(work[n])[i] = m_sessions[n][k].target_id
            PROVE  ToRecord(n, m_sessions[n][k])
        BY <1>5, <2>1, <3>2 DEF ToRecord
      <3>3. ASSUME NEW k \in DOMAIN m_sessions[n]
            PROVE  LET s == m_sessions[n][k]
                   IN  /\ s.attempt_count =< now - s.start + 1 /\ s.attempt_count =< MaxAttempts
                       /\ (\E i \in DOMAIN Tail(work[n]) : Tail(work[n])[i] = s.target_id)
                             => s.attempt_count =< now - s.start /\ s.attempt_count < MaxAttempts
        BY <3>1, <3>2 DEF Paced, Elapsed
      <3> QED BY <1>3, <1>5, <2>1, <2>2, <3>3, ZenonT(30)
    <2>3. CASE Goto(n, "send") /\ UNCHANGED <<work, wake>>
      <3>1. pc'[n] = "send" /\ \A q \in Node \ {n} : pc'[q] = pc[q]
        BY <2>3 DEF Goto, TypeOK
      <3> QED BY <2>1, <2>3, <3>1 DEF WorkDistinct, PassesPaced, Paced, ToRecord, Elapsed
    <2> QED BY <1>6, <2>2, <2>3 DEF CheckSingle
  <1>7. ASSUME NEW n \in Node, SendPunchPacket(n) PROVE (WorkDistinct /\ PassesPaced)'
    <2>1. /\ pc[n] = "send" /\ UNCHANGED <<now, m_sessions, work, wake>>
          /\ pc'[n] = "record" /\ \A q \in Node \ {n} : pc'[q] = pc[q]
      BY <1>7 DEF SendPunchPacket, Goto, TypeOK
    <2> QED BY <2>1 DEF WorkDistinct, PassesPaced, Paced, ToRecord, Elapsed
  <1>8. ASSUME NEW n \in Node, RecordPunch(n) PROVE (WorkDistinct /\ PassesPaced)'
    <2> DEFINE p == Head(work[n])
    <2>1. /\ pc[n] = "record" /\ work[n] # <<>> /\ now' = now
          /\ RecordAttempt(n, p) /\ NextPeer(n, Tail(work[n]))
      BY <1>8 DEF RecordPunch, WorkDistinct
    <2> HIDE DEF p
    <2>2. ASSUME NEW k \in DOMAIN m_sessions'[n]
          PROVE  LET s == m_sessions'[n][k]
                 IN  /\ s.attempt_count =< now - s.start + 1 /\ s.attempt_count =< MaxAttempts
                     /\ (\E i \in DOMAIN Tail(work[n]) : Tail(work[n])[i] = s.target_id)
                           => s.attempt_count =< now - s.start /\ s.attempt_count < MaxAttempts
      <3> DEFINE s == m_sessions[n][k]
                 t == m_sessions'[n][k]
      <3>1. /\ k \in DOMAIN m_sessions[n] /\ t.target_id = s.target_id /\ t.start = s.start
            /\ \/ t.attempt_count = s.attempt_count
               \/ s.target_id = p /\ t.attempt_count = s.attempt_count + 1
        BY <2>1, <2>2, AfterRecord
      <3>2. /\ Paced(n, s) /\ s.start \in Int /\ s.attempt_count \in Nat /\ now \in Int
        BY <3>1, StartTypes DEF PassesPaced
      <3> HIDE DEF s, t
      <3>3. /\ s.attempt_count =< now - s.start + 1 /\ s.attempt_count =< MaxAttempts
            /\ ToRecord(n, s) => s.attempt_count =< now - s.start /\ s.attempt_count < MaxAttempts
        BY <3>2 DEF Paced, Elapsed
      <3>4. s.target_id = p => ToRecord(n, s)
        BY <1>5, <2>1 DEF ToRecord, p
      <3>5. (\E i \in DOMAIN Tail(work[n]) : Tail(work[n])[i] = s.target_id)
               => ToRecord(n, s) /\ s.target_id # p
        BY <1>5, <2>1 DEF ToRecord, p
      <3>6. CASE t.attempt_count = s.attempt_count
        BY <3>1, <3>3, <3>5, <3>6 DEF t
      <3>7. CASE s.target_id = p /\ t.attempt_count = s.attempt_count + 1
        <4>1. t.attempt_count =< now - t.start + 1 /\ t.attempt_count =< MaxAttempts
          BY <3>1, <3>2, <3>3, <3>4, <3>7, HolePunchAssumption
        <4> QED BY <3>1, <3>5, <3>7, <4>1 DEF t
      <3> QED BY <3>1, <3>6, <3>7
    <2>3. \A q \in Node \ {n} : m_sessions'[q] = m_sessions[q]
      <3>1. m_sessions \in [Node -> Seq(Session)]
        BY DEF TypeOK
      <3> QED BY <2>1, <3>1 DEF RecordAttempt
    <2> QED BY <1>3, <1>5, <2>1, <2>2, <2>3
  <1>9. ASSUME NEW n \in Node, NEW p \in Node, StartPunch(n, p), UNCHANGED <<now, pc, work, wake>>
        PROVE  (WorkDistinct /\ PassesPaced)'
    <2>1. WorkDistinct'
      BY <1>9 DEF WorkDistinct
    <2>2. ASSUME NEW q \in Node, NEW k \in DOMAIN m_sessions'[q] PROVE Paced(q, m_sessions[q][k])'
      <3>1. CASE k \in DOMAIN m_sessions[q] /\ m_sessions'[q][k] = m_sessions[q][k]
        BY <1>9, <3>1 DEF PassesPaced, Paced, ToRecord, Elapsed
      <3>2. CASE m_sessions'[q][k] =
                    [target_id |-> p, start |-> now, attempt_count |-> 0, success |-> FALSE]
        <4>1. m_sessions'[q][k].start = now /\ m_sessions'[q][k].attempt_count = 0
          BY <3>2
        <4>2. now \in Int /\ 0 =< now - now + 1 /\ 0 =< now - now /\ 0 < MaxAttempts /\ 0 =< MaxAttempts
          BY StartTypes, HolePunchAssumption
        <4> QED BY <1>9, <4>1, <4>2 DEF Paced, Elapsed
      <3> QED BY <1>9, <2>2, <3>1, <3>2, AfterStart
    <2> QED BY <1>9, <2>1, <2>2 DEF PassesPaced
  <1>10. ASSUME NEW n \in Node, NEW p \in Node, ReceiveIntroduction(n, p)
         PROVE  (WorkDistinct /\ PassesPaced)'
    BY <1>9, <1>10 DEF ReceiveIntroduction
  <1>11. ASSUME NEW n \in Node, NEW p \in Node, HandleHolePunchInfo(n, p)
         PROVE  (WorkDistinct /\ PassesPaced)'
    BY <1>9, <1>11 DEF HandleHolePunchInfo
  <1>12. ASSUME UNCHANGED <<now, m_sessions, pc, work, wake>> PROVE (WorkDistinct /\ PassesPaced)'
    BY <1>12 DEF WorkDistinct, PassesPaced, Paced, ToRecord, Elapsed
  <1>13. ASSUME NEW n \in Node, NEW p \in Node, ReceiveMultiStart(n, p)
         PROVE  (WorkDistinct /\ PassesPaced)'
    BY <1>12, <1>13 DEF ReceiveMultiStart
  <1>14. ASSUME NEW m \in net, HandlePunchPacket(m) PROVE (WorkDistinct /\ PassesPaced)'
    BY <1>12, <1>14 DEF HandlePunchPacket
  <1>15. ASSUME NEW m \in net, HandlePunchAck(m) PROVE (WorkDistinct /\ PassesPaced)'
    <2>1. m.dst \in Node /\ MarkSuccess(m.dst, m.src) /\ UNCHANGED <<now, pc, work, wake>>
      BY <1>15 DEF HandlePunchAck, TypeOK, Packet
    <2>2. WorkDistinct'
      BY <2>1 DEF WorkDistinct
    <2>3. ASSUME NEW q \in Node, NEW k \in DOMAIN m_sessions'[q] PROVE Paced(q, m_sessions[q][k])'
      <3>1. /\ k \in DOMAIN m_sessions[q]
            /\ m_sessions'[q][k].target_id = m_sessions[q][k].target_id
            /\ m_sessions'[q][k].start = m_sessions[q][k].start
            /\ m_sessions'[q][k].attempt_count = m_sessions[q][k].attempt_count
        BY <2>1, <2>3, AfterSuccess
      <3> QED BY <2>1, <3>1 DEF PassesPaced, Paced, ToRecord, Elapsed
    <2> QED BY <2>1, <2>2, <2>3 DEF PassesPaced
  <1>16. CASE UNCHANGED vars
    BY <1>12, <1>16 DEF vars
  <1> QED BY <1>1, <1>2, <1>4, <1>6, <1>7, <1>8, <1>10, <1>11, <1>13, <1>14, <1>15, <1>16
        DEF Next, PunchLoop

-----------------------------------------------------------------------------
(* Theorems *)

\* The invariant holds before the first session.
LEMMA PunchInit == Init => PunchInv
  <1> SUFFICES ASSUME Init PROVE PunchInv
    OBVIOUS
  <1>1. TypeOK
    BY TypeInit
  <1>2. /\ now = 0 /\ net = {}
        /\ \A n \in Node : m_sessions[n] = <<>> /\ work[n] = <<>> /\ wake[n] = 0 /\ pc[n] = "cleanup"
    BY DEF Init
  <1>3. SessionInv
    BY <1>2 DEF SessionInv, SessionsBegun, AcksBegun, SuccessIsMutual, SingleSessions, OneLiveSession
  <1>4. WorkDistinct /\ PassesPaced
    BY <1>2 DEF WorkDistinct, PassesPaced
  <1> QED BY <1>1, <1>3, <1>4 DEF PunchInv

\* Every step of the peers, of the network and of time keeps the invariant.
LEMMA PunchStep == PunchInv /\ [Next]_vars => PunchInv'
  <1> SUFFICES ASSUME PunchInv, [Next]_vars PROVE PunchInv'
    OBVIOUS
  <1>1. TypeOK'
    BY TypeStep DEF PunchInv
  <1>2. SessionInv'
    BY <1>1, SessionStep DEF PunchInv
  <1>3. (WorkDistinct /\ PassesPaced)'
    BY <1>1, PaceStep
  <1> QED BY <1>1, <1>2, <1>3 DEF PunchInv

\* Sessions, snapshots and passes keep PunchInv, for any nodes, any number of
\* sessions and attempts, whatever the network loses or repeats.
THEOREM SessionsWellKept == Spec => []PunchInv
  <1> QED BY PunchInit, PunchStep, PTL DEF Spec

\* RecordAttempt limits the rate: no session has more attempts than intervals
\* begun since its start, nor more than MAX_PUNCH_ATTEMPTS.
THEOREM RateIsLimited == Spec => []AttemptsPaced
  <1>1. PunchInv => AttemptsPaced
    BY DEF PunchInv, PassesPaced, Paced, AttemptsPaced, SingleSessions
  <1> QED BY <1>1, SessionsWellKept, PTL

\* StartPunch and the clean-up leave a peer one session that is not successful.
THEOREM OneSessionAPeer == Spec => []OneLiveSession
  <1>1. PunchInv => OneLiveSession
    BY DEF PunchInv, SessionInv
  <1> QED BY <1>1, SessionsWellKept, PTL

\* A punch is only successful when both nodes have begun it.
THEOREM PunchesAreMutual == Spec => []SuccessIsMutual
  <1>1. PunchInv => SuccessIsMutual
    BY DEF PunchInv, SessionInv
  <1> QED BY <1>1, SessionsWellKept, PTL
=============================================================================
