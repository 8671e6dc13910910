---------------------------- MODULE PunchStrategy ----------------------------
(***************************************************************************)
(* The automatic strategy of HolePunchManager: a peer is punched at one    *)
(* port first, and at several when that has failed often enough            *)
(* (src/network/HolePunchManager.cpp, "Automatic Strategy Selection", and  *)
(* the ports of its multi-port sessions).                                  *)
(*                                                                         *)
(* PeerManager::PunchLoop asks for the switch; StartPunchAuto,             *)
(* RecordPunchSuccess and UpdateTrackerAfterAttempt have no caller in the  *)
(* program.  Here they are called as their comments say: a thread starts   *)
(* punches and reports what became of an attempt, the listener reports     *)
(* successes, and the punch thread goes on beside both.                    *)
(*                                                                         *)
(* What is abstracted: addresses; the time, as the choice of the moment at *)
(* which a session expires; a single-port session is there or not          *)
(* (HolePunch has its attempts).                                           *)
(***************************************************************************)
EXTENDS Integers

CONSTANTS
    Peer,
    NoPeer,
    MAX_SINGLE_PORT_ATTEMPTS,  \* 5 in the code
    MAX_MULTI_PORT_ATTEMPTS,   \* 5 in the code
    MAX_PORT_RANGE,            \* 5 in the code
    DEFAULT_MULTI_PORT_RANGE   \* 5 in the code

ASSUME PunchStrategyAssumption ==
    /\ NoPeer \notin Peer
    /\ MAX_SINGLE_PORT_ATTEMPTS \in Nat \ {0}
    /\ MAX_MULTI_PORT_ATTEMPTS \in Nat \ {0}
    /\ MAX_PORT_RANGE \in Nat \ {0}
    /\ DEFAULT_MULTI_PORT_RANGE \in 1..MAX_PORT_RANGE

VARIABLES
    m_punchTrackers,   \* m_punchTrackers[p], NoTracker if p has none
    singlePort,        \* the peers with a single-port session to punch
    m_multiPortSessions,         \* m_multiPortSessions[p]: the multi-port session of p that has not
                       \* succeeded, NoSession if there is none
    stuck,             \* a thread waits for m_mutex, which it holds
    punching,          \* the peer that the punch thread has asked about, and the answer
    recording          \* the peer whose success the listener records, and how far

strategyVars == <<m_punchTrackers, singlePort, m_multiPortSessions, stuck, punching, recording>>

Phases == {"SinglePort", "SwitchingToMulti", "MultiPort", "Failed", "Success"}

Tracker == [current_phase : Phases,
            single_port_attempts : Nat, multi_port_attempts : Nat,
            single_port_failed : BOOLEAN, multi_port_failed : BOOLEAN]

NoTracker == [current_phase |-> "none"]

NoSession == [ports |-> -1]

Ports == 0..(MAX_PORT_RANGE - 1)

Sessions == [ports : 0..MAX_PORT_RANGE, punched : SUBSET Ports, expired : BOOLEAN]

StrategyTypeOK ==
    /\ m_punchTrackers \in [Peer -> Tracker \cup {NoTracker}]
    /\ singlePort \subseteq Peer
    /\ m_multiPortSessions \in [Peer -> Sessions \cup {NoSession}]
    /\ stuck \in BOOLEAN
    /\ punching \in [peer : Peer \cup {NoPeer}, switch : BOOLEAN]
    /\ recording \in [peer : Peer \cup {NoPeer}, step : {"mark", "track"}]

Idle == [peer |-> NoPeer, switch |-> FALSE]
NotRecording == [peer |-> NoPeer, step |-> "mark"]

StrategyInit ==
    /\ m_punchTrackers = [p \in Peer |-> NoTracker]
    /\ singlePort = {}
    /\ m_multiPortSessions = [p \in Peer |-> NoSession]
    /\ stuck = FALSE
    /\ punching = Idle
    /\ recording = NotRecording

-----------------------------------------------------------------------------
(* The trackers, under m_trackerMutex *)

NewTracker ==
    [current_phase |-> "SinglePort", single_port_attempts |-> 0, multi_port_attempts |-> 0,
     single_port_failed |-> FALSE, multi_port_failed |-> FALSE]

FindOrCreateTracker(p) ==
    IF m_punchTrackers[p] = NoTracker THEN NewTracker ELSE m_punchTrackers[p]

FindTracker(p) == m_punchTrackers[p] # NoTracker

SetTracker(p, t) == m_punchTrackers' = [m_punchTrackers EXCEPT ![p] = t]

\* Mutant: the attempts are counted, and the switch is left to the punch thread.
CountOnly(p, success) ==
    LET t == FindOrCreateTracker(p)
    IN  SetTracker(p, IF success THEN [t EXCEPT !.current_phase = "Success"]
                      ELSE IF t.current_phase = "SinglePort"
                      THEN [t EXCEPT !.single_port_attempts =
                              IF @ < MAX_SINGLE_PORT_ATTEMPTS THEN @ + 1 ELSE @]
                      ELSE t)

\* An attempt has failed: it counts in the phase it was made in, and the last
\* one that is allowed ends the phase.
AfterFailure(t) ==
    CASE t.current_phase = "SinglePort" ->
           IF t.single_port_attempts + 1 >= MAX_SINGLE_PORT_ATTEMPTS
           THEN [t EXCEPT !.single_port_attempts = @ + 1, !.single_port_failed = TRUE,
                          !.current_phase = "SwitchingToMulti"]
           ELSE [t EXCEPT !.single_port_attempts = @ + 1]
      [] t.current_phase = "MultiPort" ->
           IF t.multi_port_attempts + 1 >= MAX_MULTI_PORT_ATTEMPTS
           THEN [t EXCEPT !.multi_port_attempts = @ + 1, !.multi_port_failed = TRUE,
                          !.current_phase = "Failed"]
           ELSE [t EXCEPT !.multi_port_attempts = @ + 1]
      [] OTHER -> t

UpdateTrackerAfterAttempt(p, success) ==
    LET t == FindOrCreateTracker(p)
    IN  SetTracker(p, IF success THEN [t EXCEPT !.current_phase = "Success"] ELSE AfterFailure(t))

ShouldSwitchToMultiPort(p) ==
    /\ FindTracker(p)
    /\ m_punchTrackers[p].single_port_attempts >= MAX_SINGLE_PORT_ATTEMPTS
    /\ m_punchTrackers[p].current_phase = "SinglePort"

\* The phase is not looked at again.
SwitchToMultiPortPunch(p) ==
    IF FindTracker(p)
    THEN SetTracker(p, [m_punchTrackers[p] EXCEPT !.single_port_failed = TRUE,
                                                  !.current_phase = "SwitchingToMulti"])
    ELSE UNCHANGED m_punchTrackers

\* What callers see of a tracker.
ShouldUseMultiPortPunch(p) ==
    /\ FindTracker(p)
    /\ m_punchTrackers[p].single_port_failed
    /\ ~m_punchTrackers[p].multi_port_failed

GetPunchStrategy(p) ==
    IF m_punchTrackers[p].current_phase \in {"SwitchingToMulti", "MultiPort"}
    THEN "MultiPort" ELSE "SinglePort"

GetFailedTrackers ==
    {p \in Peer : /\ FindTracker(p)
                  /\ m_punchTrackers[p].single_port_failed
                  /\ m_punchTrackers[p].multi_port_failed}

-----------------------------------------------------------------------------
(* The multi-port sessions, under m_mutex *)

NewSession(range) ==
    [ports |-> IF range > MAX_PORT_RANGE THEN MAX_PORT_RANGE ELSE range,
     punched |-> {}, expired |-> FALSE]

\* A session that has not succeeded keeps the peer from another, be it expired.
StartMultiPortPunch(p, range) ==
    m_multiPortSessions' = IF m_multiPortSessions[p] = NoSession
                 THEN [m_multiPortSessions EXCEPT ![p] = NewSession(range)]
                 ELSE m_multiPortSessions

IsMultiPortSessionComplete(s) == 0..(s.ports - 1) \subseteq s.punched

IsMultiPortPunchActive(p) == m_multiPortSessions[p] # NoSession /\ ~m_multiPortSessions[p].expired

\* A port outside of the range is not looked at, so that a session whose range
\* is empty is never complete.  A complete session is done with.
MarkMultiPortSuccess(p, port) ==
    LET session == m_multiPortSessions[p]
        marked == [session EXCEPT !.punched = @ \cup {port}]
    IN  m_multiPortSessions' =
            IF session = NoSession \/ port >= session.ports
            THEN m_multiPortSessions
            ELSE [m_multiPortSessions EXCEPT ![p] =
                     IF IsMultiPortSessionComplete(marked) THEN NoSession ELSE marked]

-----------------------------------------------------------------------------
(* The callers *)

\* An attempt is begun; the sessions are reached with the trackers locked.
StartPunchAuto(p, range) ==
    LET t == FindOrCreateTracker(p)
        suggested == IF range > 0 THEN range ELSE DEFAULT_MULTI_PORT_RANGE
    IN  /\ ~stuck
        /\ SetTracker(p, IF t.current_phase = "SwitchingToMulti"
                         THEN [t EXCEPT !.current_phase = "MultiPort"] ELSE t)
        /\ singlePort' = singlePort \cup (IF t.current_phase = "SinglePort" THEN {p} ELSE {})
        /\ IF t.current_phase \in {"SwitchingToMulti", "MultiPort"}
           THEN StartMultiPortPunch(p, suggested) ELSE UNCHANGED m_multiPortSessions
        /\ UNCHANGED <<stuck, punching, recording>>

\* What became of an attempt.
AttemptMade(p, success) ==
    /\ UpdateTrackerAfterAttempt(p, success)
    /\ UNCHANGED <<singlePort, m_multiPortSessions, stuck, punching, recording>>

\* A coordinator asks for several ports, none possibly; the message is not
\* dispatched by PeerManager, which has the branch of PunchCoordination.
HandleMultiPortHolePunchInfo(p, range) ==
    /\ ~stuck
    /\ StartMultiPortPunch(p, range)
    /\ UNCHANGED <<m_punchTrackers, singlePort, stuck, punching, recording>>

\* The punch thread has punched p and asks about it.
CheckSwitch(p) ==
    /\ punching = Idle /\ ~stuck
    /\ p \in singlePort
    /\ punching' = [peer |-> p, switch |-> ShouldSwitchToMultiPort(p)]
    /\ UNCHANGED <<m_punchTrackers, singlePort, m_multiPortSessions, stuck, recording>>

\* It acts on the answer it has got, which others may have outdated.
ActOnSwitch ==
    /\ punching.peer # NoPeer
    /\ IF punching.switch THEN SwitchToMultiPortPunch(punching.peer)
       ELSE UNCHANGED m_punchTrackers
    /\ punching' = Idle
    /\ UNCHANGED <<singlePort, m_multiPortSessions, stuck, recording>>

\* RecordPunchSuccess: with a multi-port session it calls MarkMultiPortSuccess
\* while it holds the mutex that this locks.  Locking it again is undefined:
\* the thread waits for itself (or an exception ends the program), or goes on.
RecordPunchSuccess(p, port) ==
    /\ recording = NotRecording /\ ~stuck
    /\ IF m_multiPortSessions[p] = NoSession
       THEN recording' = [peer |-> p, step |-> "mark"] /\ UNCHANGED <<m_multiPortSessions, stuck>>
       ELSE /\ UNCHANGED recording
            /\ \/ stuck' = TRUE /\ UNCHANGED m_multiPortSessions
               \/ MarkMultiPortSuccess(p, port) /\ UNCHANGED stuck
    /\ UNCHANGED <<m_punchTrackers, singlePort, punching>>

\* MarkSuccess, for which the mutex is taken anew.
MarkSinglePortSuccess ==
    /\ recording.peer # NoPeer /\ recording.step = "mark" /\ ~stuck
    /\ singlePort' = singlePort \ {recording.peer}
    /\ recording' = [recording EXCEPT !.step = "track"]
    /\ UNCHANGED <<m_punchTrackers, m_multiPortSessions, stuck, punching>>

\* And the tracker, under the other mutex.
TrackSuccess ==
    /\ recording.peer # NoPeer /\ recording.step = "track"
    /\ IF FindTracker(recording.peer)
       THEN SetTracker(recording.peer,
                       [m_punchTrackers[recording.peer] EXCEPT !.current_phase = "Success"])
       ELSE UNCHANGED m_punchTrackers
    /\ recording' = NotRecording
    /\ UNCHANGED <<singlePort, m_multiPortSessions, stuck, punching>>

\* A session has lasted for PUNCH_TIMEOUT_MS; Cleanup removes a single-port one.
Expire(p) ==
    /\ \/ /\ p \in singlePort /\ ~stuck
          /\ singlePort' = singlePort \ {p} /\ UNCHANGED m_multiPortSessions
       \/ /\ IsMultiPortPunchActive(p)
          /\ m_multiPortSessions' = [m_multiPortSessions EXCEPT ![p].expired = TRUE] /\ UNCHANGED singlePort
    /\ UNCHANGED <<m_punchTrackers, stuck, punching, recording>>

\* Sessions that have succeeded are not kept in the model.
CleanupMultiPortSessions ==
    /\ ~stuck
    /\ \E p \in Peer : m_multiPortSessions[p] # NoSession /\ m_multiPortSessions[p].expired
    /\ m_multiPortSessions' = [p \in Peer |-> IF IsMultiPortPunchActive(p) THEN m_multiPortSessions[p] ELSE NoSession]
    /\ UNCHANGED <<m_punchTrackers, singlePort, stuck, punching, recording>>

StrategyNext ==
    \/ \E p \in Peer :
          \/ \E range \in 0..(MAX_PORT_RANGE + 1) :
                StartPunchAuto(p, range) \/ HandleMultiPortHolePunchInfo(p, range)
          \/ \E success \in BOOLEAN : AttemptMade(p, success)
          \/ \E port \in 0..MAX_PORT_RANGE : RecordPunchSuccess(p, port)
          \/ CheckSwitch(p)
          \/ Expire(p)
    \/ ActOnSwitch
    \/ MarkSinglePortSuccess
    \/ TrackSuccess
    \/ CleanupMultiPortSessions

StrategySpec == StrategyInit /\ [][StrategyNext]_strategyVars

-----------------------------------------------------------------------------
(* Properties *)

Phase(p) == m_punchTrackers[p].current_phase

\* How the phases follow each other.
Later(before, after) ==
    \/ before = after
    \/ after = "Success"
    \/ <<before, after>> \in {<<"none", "SinglePort">>, <<"none", "SwitchingToMulti">>,
                              <<"SinglePort", "SwitchingToMulti">>,
                              <<"SwitchingToMulti", "MultiPort">>, <<"MultiPort", "Failed">>}

\* "Connection succeeded, stop tracking" (HolePunchManager.cpp:936): a success is
\* not undone, though the punch thread switches without a look at the phase, on
\* an answer it got before it gave up the mutex; and a peer is given up only
\* when every attempt at one port and at several has been made.
PhasesAdvance ==
    [][\A p \in Peer :
          /\ Later(Phase(p), Phase(p)')
          /\ Phase(p)' = "Failed" =>
                /\ m_punchTrackers'[p].single_port_attempts = MAX_SINGLE_PORT_ATTEMPTS
                /\ m_punchTrackers'[p].multi_port_attempts = MAX_MULTI_PORT_ATTEMPTS]_m_punchTrackers

\* The strategy that callers are told by the phase is the one they are told by
\* the flags, which are kept apart, until the peer is reached: after a success
\* the flags still say what had failed before.
ViewsAgree ==
    \A p \in Peer : Phase(p) # "Success" =>
        /\ ShouldUseMultiPortPunch(p) <=> GetPunchStrategy(p) = "MultiPort"
        /\ p \in GetFailedTrackers <=> Phase(p) = "Failed"
=============================================================================
