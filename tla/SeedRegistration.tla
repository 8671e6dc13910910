--------------------------- MODULE SeedRegistration ---------------------------
(***************************************************************************)
(* How one node keeps itself registered with its seed nodes                *)
(* (src/network/PeerManager.cpp).                                          *)
(*                                                                         *)
(* Three threads share m_seedTrackers under m_networkMutex:                *)
(*   - the detached ConnectToSeeds thread: creates the trackers in one     *)
(*     critical section, then sends the first REGISTERs in another;        *)
(*   - the seed thread (SeedRegistrationLoop): once per second it reads    *)
(*     std::time, then takes the mutex for the whole pass over the         *)
(*     trackers;                                                           *)
(*   - the listener thread: each received registration step updates the    *)
(*     tracker of the sender's address in one critical section, except     *)
(*     REGISTER_RESP, which uses two with a send between them.             *)
(* Each critical section is one action.  The network is open: a seed may   *)
(* send any registration step at any time, or none.  m_identity is valid   *)
(* in every state that has these threads (Start returns before it creates  *)
(* them otherwise), so the guards on it are always passed.                 *)
(*                                                                         *)
(* m_peers and m_peerPublicKeys are kept as sets of addresses: an address  *)
(* is one identity here.  Registration.tla tells identities apart.         *)
(***************************************************************************)
EXTENDS PeerConnectionTracker

CONSTANTS
    Addresses,   \* the addresses packets come from
    SeedNodes,   \* sequence of the seed addresses of the configuration
    Nobody,      \* not an address
    MaxCount     \* bound: no step is received from a seed whose tracker counts more

ASSUME SeedAssumption ==
    /\ SeedNodes \in Seq(Addresses)
    /\ Nobody \notin Addresses
    /\ MaxCount \in Nat

VARIABLES
    trackers,          \* m_seedTrackers: <<>> until ConnectToSeeds fills it
    connector,         \* where the ConnectToSeeds thread is
    seedLoop,          \* where the seed thread is; a pass is followed by a second's sleep
    lag,               \* how many seconds ago the waiting seed thread read curTs
    listener,          \* address whose REGISTER_RESP is half handled, or Nobody
    held,              \* how many seconds ago its first half ran
    dhtDiscoverySent,  \* the function-static flag of the seed loop
    m_peers,           \* addresses in the peer table
    m_peerPublicKeys,  \* addresses whose key is stored
    quiet,             \* history: seconds since the loop last recorded an attempt
    tries              \* history: REGISTERs the loop sent since the tracker last
                       \* was Connected or recovered

vars == <<trackers, connector, seedLoop, lag, listener, held, dhtDiscoverySent,
          m_peers, m_peerPublicKeys, quiet, tries>>

Seeds == DOMAIN SeedNodes

TypeOK ==
    /\ DOMAIN trackers \in {{}, Seeds}
    /\ trackers \in [DOMAIN trackers -> Tracker]
    /\ connector \in {"sleeping", "created", "done"}
    /\ seedLoop \in {"asleep", "awake", "waiting"}
    /\ lag \in 0..MaxLag
    /\ listener \in Addresses \cup {Nobody}
    /\ held \in 0..MaxLag
    /\ dhtDiscoverySent \in BOOLEAN
    /\ m_peers \subseteq Addresses
    /\ m_peerPublicKeys \subseteq Addresses
    /\ quiet \in [Seeds -> 0..Horizon]
    /\ tries \in [Seeds -> Nat]

Init ==
    /\ trackers = <<>>
    /\ connector = "sleeping"
    /\ seedLoop = "asleep"
    /\ lag = 0
    /\ listener = Nobody
    /\ held = 0
    /\ dhtDiscoverySent = FALSE
    /\ m_peers = {}
    /\ m_peerPublicKeys = {}
    /\ quiet = [i \in Seeds |-> Horizon]
    /\ tries = [i \in Seeds |-> 0]

-----------------------------------------------------------------------------
(* The ConnectToSeeds thread *)

\* Its first critical section: one tracker per configured seed.
CreateTrackers ==
    /\ connector = "sleeping"
    /\ trackers' = [i \in Seeds |-> NewTracker]
    /\ connector' = "created"
    /\ UNCHANGED <<seedLoop, lag, listener, held, dhtDiscoverySent,
                   m_peers, m_peerPublicKeys, quiet, tries>>

\* A first REGISTER goes to every seed nobody has dealt with yet.
SendInitialRegistrations ==
    /\ connector = "created"
    /\ trackers' = [i \in DOMAIN trackers |->
                      IF trackers[i].state = "Disconnected"
                      THEN SetLastSuccessTime(SetState(trackers[i], "Connecting"))
                      ELSE trackers[i]]
    /\ connector' = "done"
    /\ UNCHANGED <<seedLoop, lag, listener, held, dhtDiscoverySent,
                   m_peers, m_peerPublicKeys, quiet, tries>>

-----------------------------------------------------------------------------
(* The seed thread *)

\* curTs = std::time, read before the mutex is taken.
ReadClock ==
    /\ seedLoop = "awake"
    /\ seedLoop' = "waiting"
    /\ lag' = 0
    /\ UNCHANGED <<trackers, connector, listener, held, dhtDiscoverySent,
                   m_peers, m_peerPublicKeys, quiet, tries>>

\* The tracker when ShouldRetry is asked.
AfterRecovery(t) == IF CanRecover(t, lag) THEN Recovered(t) ELSE t

\* Whether the pass reaches RecordRetryAttempt, and what it then does.  The
\* branch of the switch for Failed is not reached: ShouldRetry holds of a
\* Failed tracker only where TryRecover would have recovered it.
Attempts(t) ==
    /\ ~IsConnected(t)
    /\ ShouldRetry(AfterRecovery(t), lag)
    /\ AfterRecovery(t).state \in {"Disconnected", "Reset", "Connecting"}

Attempted(t) == RecordRetryAttempt(AfterRecovery(t))

Registers(t) == Attempts(t) /\ WithinBudget(Attempted(t))

\* Mutant: the copy of the tracker is not refreshed after the recovery, and the
\* pass takes the branch for Failed.
VisitedWithStaleInfo(t) ==
    IF IsConnected(t) THEN t
    ELSE IF t.state = "Failed" \/ ~Attempts(t) THEN AfterRecovery(t)
    ELSE SetState(Attempted(t), IF WithinBudget(Attempted(t)) THEN "Connecting" ELSE "Failed")

\* One tracker's share of the pass.
Visited(t) ==
    IF IsConnected(t) THEN t
    ELSE IF ~Attempts(t) THEN AfterRecovery(t)
    ELSE SetState(Attempted(t), IF WithinBudget(Attempted(t)) THEN "Connecting" ELSE "Failed")

\* The pass over the trackers, and the single FIND_NODE round of the node's
\* life once every seed is connected.
RegistrationPass ==
    /\ seedLoop = "waiting"
    /\ trackers' = [i \in DOMAIN trackers |-> Visited(trackers[i])]
    /\ dhtDiscoverySent' = (dhtDiscoverySent \/ AllConnected(trackers'))
    /\ quiet' = [i \in Seeds |->
                   IF i \in DOMAIN trackers /\ Attempts(trackers[i]) THEN 0 ELSE quiet[i]]
    /\ tries' = [i \in Seeds |->
                   IF i \notin DOMAIN trackers \/ ~Registers(trackers[i]) THEN tries[i]
                   ELSE IF CanRecover(trackers[i], lag) THEN 1 ELSE tries[i] + 1]
    /\ seedLoop' = "asleep"
    /\ lag' = 0
    /\ UNCHANGED <<connector, listener, held, m_peers, m_peerPublicKeys>>

-----------------------------------------------------------------------------
(* The listener thread: it handles one packet at a time *)

\* The handlers stop at the first tracker with the sender's address.
IsTrackerOf(i, a) ==
    /\ i \in DOMAIN trackers
    /\ SeedNodes[i] = a
    /\ \A j \in 1..(i - 1) : SeedNodes[j] # a

\* A packet from a can be taken from the socket.
CanReceive(a) ==
    /\ listener = Nobody
    /\ \A i \in Seeds : IsTrackerOf(i, a) => trackers[i].retry_count =< MaxCount

MarkConnecting(a) ==
    trackers' = [i \in DOMAIN trackers |->
                   IF IsTrackerOf(i, a)
                   THEN SetLastSuccessTime(SetState(trackers[i], "Connecting"))
                   ELSE trackers[i]]

\* ers_register: the sender's key replaces the stored one, the sender becomes
\* a known peer, and REGISTER_RESP is sent.
HandleRegister(a) ==
    /\ CanReceive(a)
    /\ MarkConnecting(a)
    /\ m_peerPublicKeys' = m_peerPublicKeys \cup {a}
    /\ m_peers' = m_peers \cup {a}
    /\ UNCHANGED <<connector, seedLoop, lag, listener, held, dhtDiscoverySent, quiet, tries>>

\* ers_register_resp, up to the sending of REGISTER_ACCEPTED.
HandleRegisterResp(a) ==
    /\ CanReceive(a)
    /\ MarkConnecting(a)
    /\ m_peerPublicKeys' = m_peerPublicKeys \cup {a}
    /\ m_peers' = m_peers \cup {a}
    /\ listener' = a
    /\ held' = 0
    /\ UNCHANGED <<connector, seedLoop, lag, dhtDiscoverySent, quiet, tries>>

ForgetTries(a) == tries' = [i \in Seeds |-> IF IsTrackerOf(i, a) THEN 0 ELSE tries[i]]

\* The rest of it: REGISTER_ACCEPTED is out, the seed is connected.
FinishRegisterResp ==
    /\ listener # Nobody
    /\ trackers' = [i \in DOMAIN trackers |->
                      IF IsTrackerOf(i, listener)
                      THEN SetState(trackers[i], "Connected")
                      ELSE trackers[i]]
    /\ ForgetTries(listener)
    /\ listener' = Nobody
    /\ held' = 0
    /\ UNCHANGED <<connector, seedLoop, lag, dhtDiscoverySent,
                   m_peers, m_peerPublicKeys, quiet>>

\* ers_accepted: the other side finished the handshake.
HandleAccepted(a) ==
    /\ CanReceive(a)
    /\ trackers' = [i \in DOMAIN trackers |->
                      IF IsTrackerOf(i, a)
                      THEN SetLastSuccessTime(SetState(trackers[i], "Connected"))
                      ELSE trackers[i]]
    /\ ForgetTries(a)
    /\ UNCHANGED <<connector, seedLoop, lag, listener, held, dhtDiscoverySent,
                   m_peers, m_peerPublicKeys, quiet>>

\* ers_failed: the sender's key is dropped; m_peers keeps the sender.
HandleFailed(a) ==
    /\ CanReceive(a)
    /\ trackers' = [i \in DOMAIN trackers |->
                      IF IsTrackerOf(i, a) THEN SetState(trackers[i], "Reset") ELSE trackers[i]]
    /\ m_peerPublicKeys' = m_peerPublicKeys \ {a}
    /\ UNCHANGED <<connector, seedLoop, lag, listener, held, dhtDiscoverySent,
                   m_peers, quiet, tries>>

-----------------------------------------------------------------------------
(* Time: a thread between two critical sections is delayed at most MaxLag  *)
(* seconds.                                                                *)

Tick ==
    /\ seedLoop = "waiting" => lag < MaxLag
    /\ listener # Nobody => held < MaxLag
    /\ trackers' = [i \in DOMAIN trackers |-> Aged(trackers[i])]
    /\ seedLoop' = IF seedLoop = "asleep" THEN "awake" ELSE seedLoop
    /\ lag' = IF seedLoop = "waiting" THEN lag + 1 ELSE 0
    /\ held' = IF listener # Nobody THEN held + 1 ELSE 0
    /\ quiet' = [i \in Seeds |-> Saturate(quiet[i] + 1)]
    /\ UNCHANGED <<connector, listener, dhtDiscoverySent,
                   m_peers, m_peerPublicKeys, tries>>

Receive ==
    \E a \in Addresses :
        \/ HandleRegister(a)
        \/ HandleRegisterResp(a)
        \/ HandleAccepted(a)
        \/ HandleFailed(a)

Next ==
    \/ CreateTrackers
    \/ SendInitialRegistrations
    \/ ReadClock
    \/ RegistrationPass
    \/ Receive
    \/ FinishRegisterResp
    \/ Tick

Spec == Init /\ [][Next]_vars

\* The threads run and time passes; nothing obliges a seed to send anything.
Fairness ==
    /\ WF_vars(CreateTrackers)
    /\ WF_vars(SendInitialRegistrations)
    /\ WF_vars(ReadClock)
    /\ WF_vars(RegistrationPass)
    /\ WF_vars(FinishRegisterResp)
    /\ WF_vars(Tick)

FairSpec == Spec /\ Fairness

-----------------------------------------------------------------------------
(* Properties *)

\* Once ConnectToSeeds is through, no seed is left without a REGISTER or an
\* answer: whichever of the two threads finds a fresh tracker first deals with
\* it, and a recovered tracker is registered again in the pass that recovers it.
NoSeedForgotten ==
    connector = "done" => \A i \in Seeds : trackers[i].state # "Disconnected"

\* Between two recoveries the loop sends a seed at most MAX_RETRY_COUNT
\* REGISTERs without being connected to it, and it never gives a seed up
\* before the counter is past the budget.
RetryBudget ==
    \A i \in DOMAIN trackers :
        /\ tries[i] =< MAX_RETRY_COUNT
        /\ tries[i] =< trackers[i].retry_count
        /\ trackers[i].state = "Failed" => trackers[i].retry_count > MAX_RETRY_COUNT

\* The backoff in force is the one of the attempts counted, whatever the order
\* of attempts, answers, failures and recoveries.
DelayMatchesCount ==
    \A i \in DOMAIN trackers :
        trackers[i].next_retry_delay_sec = Backoff(trackers[i].retry_count)

\* A seed that is neither connected nor reset is tried, or heard from, again
\* and again: no order of failures leaves it given up for good.
KeepsTrying ==
    \A i \in Seeds :
        []<>(/\ trackers # <<>>
             /\ \/ trackers[i].state \in {"Connected", "Reset"}
                \/ trackers[i].since = 0
                \/ quiet[i] = 0)

\* If all seeds are connected for good, the FIND_NODE round takes place.
DiscoveryHappens ==
    <>[](trackers # <<>> /\ \A i \in DOMAIN trackers : trackers[i].state = "Connected")
       => <>dhtDiscoverySent

\* A seed listed twice has a second tracker that no answer ever reaches, so
\* AllConnected stays false and discovery never starts.
DuplicateSeedBlocksDiscovery ==
    (\E i, j \in Seeds : i # j /\ SeedNodes[i] = SeedNodes[j]) => ~dhtDiscoverySent

\* Seen through the states of its trackers only, the node is the lifecycle of
\* SeedLifecycle.tla: the loop never leaves Connected or Reset, never shows a
\* recovered tracker as Disconnected, and gives up only from Connecting.
SeedStates ==
    [i \in Seeds |-> IF i \in DOMAIN trackers THEN trackers[i].state ELSE "Absent"]

Lifecycle == INSTANCE SeedLifecycle WITH seedState <- SeedStates

ImplementsLifecycle == Lifecycle!LifecycleSpec

-----------------------------------------------------------------------------
(* The inductive invariant *)

\* What is true of a single tracker whenever the mutex is free.
Sound(t) ==
    /\ t \in Tracker
    /\ t.next_retry_delay_sec = Backoff(t.retry_count)
    /\ t.state = "Failed" => t.retry_count > MAX_RETRY_COUNT
    /\ t.state = "Disconnected" => t.retry_count = 0

\* Before ConnectToSeeds there are no trackers and nothing has been sent.
Created ==
    /\ DOMAIN trackers = IF connector = "sleeping" THEN {} ELSE Seeds
    /\ connector = "sleeping" => \A i \in Seeds : tries[i] = 0

\* A tracker that an earlier one of the same address hides from all answers.
Shadowed(j) == \E i \in 1..(j - 1) : SeedNodes[i] = SeedNodes[j]

\* What holds of the tracker of seed i and of the history kept for it.
Kept(i) ==
    /\ Sound(trackers[i])
    /\ tries[i] =< MAX_RETRY_COUNT
    /\ tries[i] =< trackers[i].retry_count
    /\ connector = "done" => trackers[i].state # "Disconnected"
    /\ Shadowed(i) => trackers[i].state # "Connected"

\* The loop and the packets together keep every tracker sound and within its
\* budget, leave none Disconnected after ConnectToSeeds, and never connect a
\* shadowed one.  It implies the four invariants above.
SeedInv ==
    /\ TypeOK
    /\ Created
    /\ \A i \in DOMAIN trackers : Kept(i)
    /\ dhtDiscoverySent => \A i \in Seeds : ~Shadowed(i)

-----------------------------------------------------------------------------
(* What a comment says, and the code does not do                           *)

\* "Exponential backoff: 2, 4, 8, 16, 32, 60, 60, ..." (PeerConnectionTracker.cpp:69):
\* after an attempt, the loop leaves a Connecting seed alone for the backoff delay.
\* The attempt is stamped with steady_clock and compared with std::time, so the
\* delay has always passed.
BackoffRespected ==
    [][\A i \in DOMAIN trackers :
          trackers[i].state = "Connecting" /\ quiet'[i] < quiet[i]
             => quiet[i] >= trackers[i].next_retry_delay_sec]_vars
=============================================================================
