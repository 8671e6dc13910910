----------------------- MODULE SeedRegistration_proofs -----------------------
(***************************************************************************)
(* Proofs about SeedRegistration for every configuration of seeds and      *)
(* every value of the constants that its assumptions allow.                *)
(***************************************************************************)
EXTENDS SeedRegistration, TLAPS

-----------------------------------------------------------------------------
(* The operations of a tracker *)

\* The delay of any attempt lies between one second and the maximum.
LEMMA BackoffBounded ==
    ASSUME NEW n \in Nat
    PROVE  Backoff(n) \in 1..MAX_BACKOFF_DELAY_SEC
<1> DEFINE k == IF n < 6 THEN n ELSE 6
<1>1. CASE n = 0
  BY <1>1, TrackerAssumption DEF Backoff
<1>2. CASE n # 0
  <2>1. k \in 1..6
    BY <1>2
  <2>2. Doubled[k] \in Nat \ {0}
    BY <2>1 DEF Doubled
  <2>3. INITIAL_RETRY_DELAY_SEC * Doubled[k] \in Nat \ {0}
    BY <2>2, TrackerAssumption
  <2> HIDE DEF k
  <2>4. QED
    BY <1>2, <2>3, TrackerAssumption DEF Backoff, k
<1>3. QED
  BY <1>1, <1>2

\* Saturated times stay within the horizon.
LEMMA SaturateBounded ==
    ASSUME NEW s \in Nat
    PROVE  Saturate(s) \in 0..Horizon
BY TrackerAssumption DEF Saturate, Horizon

\* Every method of the class keeps the tracker well formed.
LEMMA TrackerOperations ==
    ASSUME NEW t \in Tracker
    PROVE  /\ NewTracker \in Tracker
           /\ \A s \in ConnectionStates : SetState(t, s) \in Tracker
           /\ SetLastSuccessTime(t) \in Tracker
           /\ RecordRetryAttempt(t) \in Tracker
           /\ Recovered(t) \in Tracker
           /\ Aged(t) \in Tracker
<1>1. NewTracker \in Tracker
  BY TrackerAssumption DEF NewTracker, Tracker, ConnectionStates, Horizon
<1>2. \A s \in ConnectionStates : SetState(t, s) \in Tracker
  BY DEF SetState, Tracker
<1>3. SetLastSuccessTime(t) \in Tracker
  BY TrackerAssumption DEF SetLastSuccessTime, Tracker, Horizon
<1>4. RecordRetryAttempt(t) \in Tracker
  <2>1. t.retry_count + 1 \in Nat
    BY DEF Tracker
  <2>2. Backoff(t.retry_count + 1) \in 1..MAX_BACKOFF_DELAY_SEC
    BY <2>1, BackoffBounded
  <2>3. Saturate(EpochOffset) \in 0..Horizon
    BY SaturateBounded, TrackerAssumption
  <2>4. QED
    BY <2>1, <2>2, <2>3 DEF RecordRetryAttempt, Tracker
<1>5. Recovered(t) \in Tracker
  <2>1. INITIAL_RETRY_DELAY_SEC \in 1..MAX_BACKOFF_DELAY_SEC
    BY TrackerAssumption
  <2>2. QED
    BY <2>1 DEF Recovered, Tracker, ConnectionStates
<1>6. Aged(t) \in Tracker
  <2>1. t.since + 1 \in Nat
    BY TrackerAssumption DEF Tracker, Horizon
  <2>2. QED
    BY <2>1, SaturateBounded DEF Aged, Tracker
<1>7. QED
  BY <1>1, <1>2, <1>3, <1>4, <1>5, <1>6

-----------------------------------------------------------------------------
(* One tracker's share of a pass *)

\* A tracker that recovers is registered again in the same pass.
LEMMA RecoveryRegisters ==
    ASSUME NEW t, Sound(t), lag \in 0..MaxLag, CanRecover(t, lag)
    PROVE  /\ Registers(t)
           /\ Attempted(t).retry_count = 1
<1>1. /\ Recovered(t).state = "Disconnected"
      /\ Recovered(t).retry_count = 0
      /\ Recovered(t).next_retry_delay_sec = INITIAL_RETRY_DELAY_SEC
      /\ Recovered(t).since = t.since
  BY DEF Recovered, Sound, Tracker
<1>2. AfterRecovery(t) = Recovered(t)
  BY DEF AfterRecovery
<1>3. t.since - lag >= RECOVERY_DELAY_SEC /\ t.state = "Failed"
  BY DEF CanRecover, Elapsed
<1>4. t.since - lag >= INITIAL_RETRY_DELAY_SEC
  <2>1. t.since \in Int /\ lag \in Int
    BY TrackerAssumption DEF Sound, Tracker, Horizon
  <2>2. QED
    BY <1>3, <2>1, TrackerAssumption
<1>5. ShouldRetry(Recovered(t), lag)
  BY <1>1, <1>4 DEF ShouldRetry, Elapsed
<1>6. Attempts(t)
  BY <1>1, <1>2, <1>3, <1>5 DEF Attempts, IsConnected
<1>7. Attempted(t).retry_count = 1
  <2>1. Recovered(t) \in Tracker
    BY TrackerOperations DEF Sound
  <2>2. QED
    BY <1>1, <1>2, <2>1 DEF Attempted, RecordRetryAttempt, Tracker
<1>8. QED
  BY <1>6, <1>7, TrackerAssumption DEF Registers, WithinBudget

\* The pass keeps a tracker sound, moves it along the lifecycle only, leaves
\* none Disconnected that it touches, and counts what it sends.
LEMMA VisitedSound ==
    ASSUME NEW t, Sound(t), lag \in 0..MaxLag
    PROVE  /\ Sound(Visited(t))
           /\ \/ Visited(t).state = t.state
              \/ <<t.state, Visited(t).state>> \in Lifecycle!OwnMoves
           /\ Registers(t) =>
                 /\ Visited(t).retry_count =< MAX_RETRY_COUNT
                 /\ Visited(t).retry_count = IF CanRecover(t, lag) THEN 1 ELSE t.retry_count + 1
           /\ ~Registers(t) => Visited(t).retry_count >= t.retry_count
<1> USE DEF Sound
<1>1. CASE IsConnected(t)
  BY <1>1 DEF Visited, Registers, Attempts, IsConnected, Tracker
<1>2. CASE ~IsConnected(t) /\ ~Attempts(t)
  <2>1. ~CanRecover(t, lag)
    BY <1>2, RecoveryRegisters DEF Registers
  <2>2. Visited(t) = t /\ ~Registers(t)
    BY <1>2, <2>1 DEF Visited, AfterRecovery, Registers
  <2>3. QED
    BY <2>2 DEF Tracker
<1>3. CASE ~IsConnected(t) /\ Attempts(t)
  <2> DEFINE r == AfterRecovery(t)
             w == Attempted(t)
  <2>1. /\ r \in Tracker
        /\ CanRecover(t, lag) => r.retry_count = 0 /\ t.state = "Failed"
        /\ ~CanRecover(t, lag) => r = t
    <3>1. Recovered(t) \in Tracker
      BY TrackerOperations
    <3>2. Recovered(t).retry_count = 0
      BY DEF Recovered, Tracker
    <3>3. QED
      BY <3>1, <3>2 DEF AfterRecovery, CanRecover
  <2>2. /\ w \in Tracker
        /\ w.retry_count = r.retry_count + 1
        /\ w.next_retry_delay_sec = Backoff(w.retry_count)
    <3>1. w \in Tracker
      BY <2>1, TrackerOperations DEF Attempted
    <3>2. /\ w.retry_count = r.retry_count + 1
          /\ w.next_retry_delay_sec = Backoff(r.retry_count + 1)
      BY <2>1 DEF Attempted, RecordRetryAttempt, Tracker
    <3>3. QED
      BY <3>1, <3>2
  <2>3. t.state \in {"Disconnected", "Connecting", "Failed"}
    \* A Reset tracker is not attempted: ShouldRetry is false of it.
    <3>1. CASE CanRecover(t, lag)
      BY <3>1 DEF CanRecover
    <3>2. CASE ~CanRecover(t, lag)
      BY <1>3, <2>1, <3>2 DEF Attempts, ShouldRetry
    <3>3. QED
      BY <3>1, <3>2
  <2>4. t.state = "Failed" => CanRecover(t, lag)
    BY <1>3, <2>1 DEF Attempts
  <2>5. CASE WithinBudget(w)
    <3>1. Visited(t) = SetState(w, "Connecting") /\ Registers(t)
      BY <1>3, <2>5 DEF Visited, Registers
    <3>2. /\ Visited(t) \in Tracker
          /\ Visited(t).state = "Connecting"
          /\ Visited(t).retry_count = w.retry_count
          /\ Visited(t).next_retry_delay_sec = w.next_retry_delay_sec
      BY <2>2, <3>1, TrackerOperations DEF SetState, Tracker, ConnectionStates
    <3>3. w.retry_count =< MAX_RETRY_COUNT
      BY <2>5 DEF WithinBudget
    <3>4. w.retry_count = IF CanRecover(t, lag) THEN 1 ELSE t.retry_count + 1
      BY <2>1, <2>2
    <3>5. Visited(t).state = t.state \/ <<t.state, Visited(t).state>> \in Lifecycle!OwnMoves
      BY <2>3, <3>2 DEF Lifecycle!OwnMoves
    <3>6. QED
      BY <2>2, <3>1, <3>2, <3>3, <3>4, <3>5
  <2>6. CASE ~WithinBudget(w)
    <3>1. Visited(t) = SetState(w, "Failed") /\ ~Registers(t)
      BY <1>3, <2>6 DEF Visited, Registers
    <3>2. /\ Visited(t) \in Tracker
          /\ Visited(t).state = "Failed"
          /\ Visited(t).retry_count = w.retry_count
          /\ Visited(t).next_retry_delay_sec = w.next_retry_delay_sec
      BY <2>2, <3>1, TrackerOperations DEF SetState, Tracker, ConnectionStates
    <3>3. w.retry_count > MAX_RETRY_COUNT
      BY <2>2, <2>6, TrackerAssumption DEF WithinBudget, Tracker
    <3>4. ~CanRecover(t, lag)
      BY <3>1, RecoveryRegisters
    <3>5. w.retry_count = t.retry_count + 1 /\ t.retry_count # 0
      BY <2>1, <2>2, <3>3, <3>4, TrackerAssumption DEF Tracker
    <3>6. t.state = "Connecting"
      BY <2>3, <2>4, <3>4, <3>5
    <3>7. <<t.state, Visited(t).state>> \in Lifecycle!OwnMoves
      BY <3>2, <3>6 DEF Lifecycle!OwnMoves
    <3>8. Visited(t).retry_count >= t.retry_count
      BY <2>1, <3>2, <3>4, <3>5 DEF Tracker
    <3>9. QED
      BY <2>2, <3>1, <3>2, <3>3, <3>7, <3>8
  <2>7. QED
    BY <2>5, <2>6
<1>4. QED
  BY <1>1, <1>2, <1>3

-----------------------------------------------------------------------------
(* The invariant *)

\* A packet leaves the counters of the tracker alone.
LEMMA HeardSound ==
    ASSUME NEW t, Sound(t), NEW s \in {"Connecting", "Connected", "Reset"}
    PROVE  /\ Sound(SetState(t, s))
           /\ Sound(SetLastSuccessTime(SetState(t, s)))
           /\ SetState(t, s).retry_count = t.retry_count
           /\ SetLastSuccessTime(SetState(t, s)).retry_count = t.retry_count
           /\ SetState(t, s).state = s
           /\ SetLastSuccessTime(SetState(t, s)).state = s
<1>1. /\ SetState(t, s) \in Tracker
      /\ SetState(t, s).retry_count = t.retry_count
      /\ SetState(t, s).next_retry_delay_sec = t.next_retry_delay_sec
      /\ SetState(t, s).state = s
  BY TrackerOperations DEF Sound, SetState, Tracker, ConnectionStates
<1> DEFINE u == SetState(t, s)
<1> HIDE DEF u
<1>2. /\ SetLastSuccessTime(u) \in Tracker
      /\ SetLastSuccessTime(u).retry_count = u.retry_count
      /\ SetLastSuccessTime(u).next_retry_delay_sec = u.next_retry_delay_sec
      /\ SetLastSuccessTime(u).state = u.state
  BY <1>1, TrackerOperations DEF u, SetLastSuccessTime, Tracker
<1>3. QED
  BY <1>1, <1>2 DEF u, Sound

\* The handlers never reach a shadowed tracker.
LEMMA ShadowedNotFound ==
    ASSUME NEW i, NEW a, IsTrackerOf(i, a)
    PROVE  ~Shadowed(i)
BY DEF IsTrackerOf, Shadowed

\* The seeds are numbered from 1.
LEMMA SeedsAreIndices == Seeds = 1..Len(SeedNodes) /\ Len(SeedNodes) \in Nat
BY SeedAssumption DEF Seeds

\* The invariant holds before any thread has run.
LEMMA InitSeedInv == Init => SeedInv
<1> SUFFICES ASSUME Init PROVE SeedInv
  OBVIOUS
<1>1. DOMAIN trackers = {}
  BY DEF Init
<1>2. trackers \in [DOMAIN trackers -> Tracker]
  BY DEF Init
<1>3. Horizon \in Nat /\ MaxLag \in Nat
  BY TrackerAssumption DEF Horizon
<1>4. quiet \in [Seeds -> 0..Horizon]
  BY <1>3 DEF Init
<1>5. tries \in [Seeds -> Nat]
  BY DEF Init
<1>6. lag \in 0..MaxLag /\ held \in 0..MaxLag
  BY <1>3 DEF Init
<1>7. TypeOK
  BY <1>1, <1>2, <1>4, <1>5, <1>6 DEF Init, TypeOK
<1>8. QED
  BY <1>1, <1>7 DEF Init, SeedInv, Created

\* What a packet may do to the tracker of seed i: nothing, or, unless the
\* tracker is shadowed, move it and stamp it.
Told(i) ==
    \/ trackers'[i] = trackers[i]
    \/ /\ ~Shadowed(i)
       /\ \E s \in {"Connecting", "Connected", "Reset"} :
             \/ trackers'[i] = SetState(trackers[i], s)
             \/ trackers'[i] = SetLastSuccessTime(SetState(trackers[i], s))

\* A packet keeps what is kept of a tracker.
LEMMA ToldKept ==
    ASSUME SeedInv, NEW i \in DOMAIN trackers, Told(i), connector' = connector,
           tries'[i] = tries[i] \/ tries'[i] = 0
    PROVE  Kept(i)'
<1>1. /\ Kept(i)
      /\ trackers[i] \in Tracker
      /\ trackers[i].retry_count \in Nat
  BY DEF SeedInv, Kept, Sound, Tracker
<1>2. /\ Sound(trackers'[i])
      /\ trackers'[i].retry_count = trackers[i].retry_count
      /\ \/ trackers'[i].state = trackers[i].state
         \/ ~Shadowed(i) /\ trackers'[i].state \in {"Connecting", "Connected", "Reset"}
  BY <1>1, HeardSound DEF Told, Kept
<1>3. tries'[i] =< MAX_RETRY_COUNT /\ tries'[i] =< trackers'[i].retry_count
  BY <1>1, <1>2, TrackerAssumption DEF Kept
<1>4. Sound(trackers[i])'
  BY <1>2 DEF Sound
<1>5. QED
  BY <1>1, <1>2, <1>3, <1>4 DEF Kept

\* The listener's actions change trackers in this way only.
LEMMA ListenerTells ==
    ASSUME SeedInv, Receive \/ FinishRegisterResp
    PROVE  /\ DOMAIN trackers' = DOMAIN trackers
           /\ \A i \in DOMAIN trackers : Told(i)
           /\ \A i \in Seeds : tries'[i] = tries[i] \/ tries'[i] = 0
           /\ tries' \in [Seeds -> Nat]
           /\ DOMAIN trackers \subseteq Seeds
           /\ UNCHANGED <<connector, seedLoop, lag, dhtDiscoverySent, quiet>>
<1>0. DOMAIN trackers \subseteq Seeds /\ tries \in [Seeds -> Nat]
  BY DEF SeedInv, TypeOK
<1>1. ASSUME NEW a PROVE ForgetTries(a) =>
         /\ tries' \in [Seeds -> Nat]
         /\ \A i \in Seeds : tries'[i] = tries[i] \/ tries'[i] = 0
  BY <1>0 DEF ForgetTries
<1>2. CASE \E a \in Addresses : HandleRegister(a)
  BY <1>0, <1>2, ShadowedNotFound DEF HandleRegister, MarkConnecting, Told
<1>3. CASE \E a \in Addresses : HandleRegisterResp(a)
  BY <1>0, <1>3, ShadowedNotFound DEF HandleRegisterResp, MarkConnecting, Told
<1>4. CASE \E a \in Addresses : HandleAccepted(a)
  BY <1>0, <1>1, <1>4, ShadowedNotFound DEF HandleAccepted, Told
<1>5. CASE \E a \in Addresses : HandleFailed(a)
  BY <1>0, <1>5, ShadowedNotFound DEF HandleFailed, Told
<1>6. CASE FinishRegisterResp
  BY <1>0, <1>1, <1>6, ShadowedNotFound DEF FinishRegisterResp, Told
<1>7. QED
  BY <1>2, <1>3, <1>4, <1>5, <1>6 DEF Receive

\* A packet leaves the invariant standing.
LEMMA ReceiveKeeps == SeedInv /\ (Receive \/ FinishRegisterResp) => SeedInv'
<1> SUFFICES ASSUME SeedInv, Receive \/ FinishRegisterResp PROVE SeedInv'
  OBVIOUS
<1>1. \A i \in DOMAIN trackers' : Kept(i)'
  BY ListenerTells, ToldKept
<1>2. trackers' \in [DOMAIN trackers -> Tracker]
  <2>1. \A i \in DOMAIN trackers : trackers'[i] \in Tracker
    BY <1>1, ListenerTells DEF Kept, Sound
  <2>2. trackers' = [i \in DOMAIN trackers |-> trackers'[i]]
    BY DEF Receive, HandleRegister, HandleRegisterResp, HandleAccepted, HandleFailed,
           FinishRegisterResp, MarkConnecting
  <2>3. QED
    BY <2>1, <2>2
<1>3. /\ listener' \in Addresses \cup {Nobody}
      /\ held' \in 0..MaxLag
      /\ m_peers' \subseteq Addresses
      /\ m_peerPublicKeys' \subseteq Addresses
  <2>0. /\ listener \in Addresses \cup {Nobody}
        /\ held \in 0..MaxLag
        /\ m_peers \subseteq Addresses
        /\ m_peerPublicKeys \subseteq Addresses
        /\ 0 \in 0..MaxLag
    BY TrackerAssumption DEF SeedInv, TypeOK
  <2>1. CASE FinishRegisterResp
    BY <2>0, <2>1 DEF FinishRegisterResp
  <2>2. ASSUME NEW a \in Addresses, HandleRegister(a) PROVE /\ listener' \in Addresses \cup {Nobody}
                                        /\ held' \in 0..MaxLag
                                        /\ m_peers' \subseteq Addresses
                                        /\ m_peerPublicKeys' \subseteq Addresses
    BY <2>0, <2>2 DEF HandleRegister
  <2>3. ASSUME NEW a \in Addresses, HandleRegisterResp(a) PROVE /\ listener' \in Addresses \cup {Nobody}
                                        /\ held' \in 0..MaxLag
                                        /\ m_peers' \subseteq Addresses
                                        /\ m_peerPublicKeys' \subseteq Addresses
    BY <2>0, <2>3 DEF HandleRegisterResp
  <2>4. ASSUME NEW a \in Addresses, HandleAccepted(a) \/ HandleFailed(a) PROVE /\ listener' \in Addresses \cup {Nobody}
                                        /\ held' \in 0..MaxLag
                                        /\ m_peers' \subseteq Addresses
                                        /\ m_peerPublicKeys' \subseteq Addresses
    BY <2>0, <2>4 DEF HandleAccepted, HandleFailed
  <2>5. QED
    BY <2>1, <2>2, <2>3, <2>4 DEF Receive
<1>4. TypeOK'
  BY <1>2, <1>3, ListenerTells DEF SeedInv, TypeOK
<1>5. Created' /\ (dhtDiscoverySent' => \A i \in Seeds : ~Shadowed(i))
  <2>1. tries \in [Seeds -> Nat]
    BY DEF SeedInv, TypeOK
  <2>2. QED
    BY <2>1, ListenerTells DEF SeedInv, Created
<1>6. QED
  BY <1>1, <1>4, <1>5 DEF SeedInv

\* The loop's pass keeps what is kept of a tracker.
LEMMA PassKept ==
    ASSUME SeedInv, RegistrationPass, NEW i \in DOMAIN trackers
    PROVE  Kept(i)'
<1>1. /\ Kept(i)
      /\ Sound(trackers[i])
      /\ trackers[i].retry_count \in Nat
      /\ tries[i] \in Nat
      /\ i \in Seeds
      /\ lag \in 0..MaxLag
  BY DEF SeedInv, TypeOK, Kept, Sound, Tracker
<1>2. trackers'[i] = Visited(trackers[i]) /\ connector' = connector
  BY DEF RegistrationPass
<1>3. /\ Sound(trackers'[i])
      /\ \/ trackers'[i].state = trackers[i].state
         \/ trackers'[i].state \in {"Connecting", "Failed"}
      /\ trackers'[i].retry_count \in Nat
  <2>1. Sound(trackers'[i])
    BY <1>1, <1>2, VisitedSound
  <2>2. \/ trackers'[i].state = trackers[i].state
        \/ trackers'[i].state \in {"Connecting", "Failed"}
    BY <1>1, <1>2, VisitedSound DEF Lifecycle!OwnMoves
  <2>3. QED
    BY <2>1, <2>2 DEF Sound, Tracker
<1>4. tries'[i] = IF ~Registers(trackers[i]) THEN tries[i]
                  ELSE IF CanRecover(trackers[i], lag) THEN 1 ELSE tries[i] + 1
  BY <1>1 DEF RegistrationPass
<1>5. tries'[i] =< MAX_RETRY_COUNT /\ tries'[i] =< trackers'[i].retry_count
  <2>1. CASE Registers(trackers[i])
    <3>1. /\ trackers'[i].retry_count =< MAX_RETRY_COUNT
          /\ trackers'[i].retry_count = IF CanRecover(trackers[i], lag) THEN 1
                                         ELSE trackers[i].retry_count + 1
      BY <1>1, <1>2, <2>1, VisitedSound
    <3>2. QED
      BY <1>1, <1>4, <2>1, <3>1, TrackerAssumption DEF Kept
  <2>2. CASE ~Registers(trackers[i])
    <3>1. trackers'[i].retry_count >= trackers[i].retry_count
      BY <1>1, <1>2, <2>2, VisitedSound
    <3>2. QED
      BY <1>1, <1>3, <1>4, <2>2, <3>1, TrackerAssumption DEF Kept
  <2>3. QED
    BY <2>1, <2>2
<1>6. Sound(trackers[i])'
  BY <1>3 DEF Sound
<1>7. QED
  BY <1>1, <1>2, <1>3, <1>5, <1>6 DEF Kept

\* If a pass leaves every seed connected, none is shadowed.
LEMMA ConnectedNotShadowed ==
    ASSUME DOMAIN trackers' \in {{}, Seeds}, AllConnected(trackers'),
           \A i \in DOMAIN trackers' : Kept(i)'
    PROVE  \A i \in Seeds : ~Shadowed(i)
BY DEF AllConnected, IsConnected, Kept

\* Every step of the node keeps the invariant.
LEMMA NextSeedInv == SeedInv /\ [Next]_vars => SeedInv'
<1> SUFFICES ASSUME SeedInv, [Next]_vars PROVE SeedInv'
  OBVIOUS
<1>0. MaxLag \in Nat /\ Horizon \in Nat /\ MAX_RETRY_COUNT \in Nat
  BY TrackerAssumption DEF Horizon
<1>1. CASE CreateTrackers
  <2>1. /\ trackers' = [i \in Seeds |-> NewTracker]
        /\ connector' = "created"
        /\ UNCHANGED <<seedLoop, lag, listener, held, dhtDiscoverySent,
                       m_peers, m_peerPublicKeys, quiet, tries>>
    BY <1>1 DEF CreateTrackers
  <2>2. /\ NewTracker \in Tracker
        /\ NewTracker.state = "Disconnected"
        /\ NewTracker.retry_count = 0
        /\ NewTracker.next_retry_delay_sec = Backoff(0)
    BY TrackerAssumption DEF NewTracker, Backoff, Tracker, ConnectionStates, Horizon
  <2>3. \A i \in Seeds : tries[i] = 0
    BY <1>1 DEF CreateTrackers, SeedInv, Created
  <2>4. TypeOK' /\ Created'
    BY <2>1, <2>2 DEF SeedInv, TypeOK, Created
  <2>5. \A i \in DOMAIN trackers' : Kept(i)'
    BY <1>0, <2>1, <2>2, <2>3 DEF Kept, Sound
  <2>6. QED
    BY <2>1, <2>4, <2>5 DEF SeedInv
<1>2. CASE SendInitialRegistrations
  <2> DEFINE Sent(t) == SetLastSuccessTime(SetState(t, "Connecting"))
  <2>1. /\ trackers' = [i \in DOMAIN trackers |->
                          IF trackers[i].state = "Disconnected" THEN Sent(trackers[i])
                          ELSE trackers[i]]
        /\ connector = "created" /\ connector' = "done"
        /\ UNCHANGED <<seedLoop, lag, listener, held, dhtDiscoverySent,
                       m_peers, m_peerPublicKeys, quiet, tries>>
    BY <1>2 DEF SendInitialRegistrations
  <2>2. ASSUME NEW i \in DOMAIN trackers
        PROVE  /\ Kept(i)
               /\ Sound(Sent(trackers[i]))
               /\ Sent(trackers[i]).retry_count = trackers[i].retry_count
               /\ Sent(trackers[i]).state = "Connecting"
    BY HeardSound DEF SeedInv, Kept
  <2> HIDE DEF Sent
  <2>3. \A i \in DOMAIN trackers' : Kept(i)'
    BY <2>1, <2>2 DEF Kept, Sound
  <2>4. trackers' \in [DOMAIN trackers -> Tracker]
    BY <2>1, <2>2 DEF Kept, Sound
  <2>5. TypeOK' /\ Created'
    BY <2>1, <2>4 DEF SeedInv, TypeOK, Created
  <2>6. QED
    BY <2>1, <2>3, <2>5 DEF SeedInv
<1>3. CASE ReadClock
  BY <1>0, <1>3 DEF ReadClock, SeedInv, TypeOK, Created, Kept, Sound
<1>4. CASE RegistrationPass
  <2>1. /\ trackers' = [i \in DOMAIN trackers |-> Visited(trackers[i])]
        /\ dhtDiscoverySent' = (dhtDiscoverySent \/ AllConnected(trackers'))
        /\ seedLoop' = "asleep"
        /\ lag' = 0
        /\ UNCHANGED <<connector, listener, held, m_peers, m_peerPublicKeys>>
    BY <1>4 DEF RegistrationPass
  <2>2. \A i \in DOMAIN trackers : Kept(i)'
    BY <1>4, PassKept
  <2>3. trackers' \in [DOMAIN trackers -> Tracker]
    BY <2>1, <2>2 DEF Kept, Sound
  <2>4. quiet' \in [Seeds -> 0..Horizon]
    BY <1>0, <1>4 DEF RegistrationPass, SeedInv, TypeOK
  <2>5. tries' \in [Seeds -> Nat]
    BY <1>4 DEF RegistrationPass, SeedInv, TypeOK
  <2>6. Created'
    BY <1>4, <2>1, <2>3 DEF RegistrationPass, SeedInv, Created
  <2>7. TypeOK'
    <3>1. lag' \in 0..MaxLag
      BY <1>0, <2>1
    <3>2. dhtDiscoverySent' \in BOOLEAN
      BY <2>1 DEF SeedInv, TypeOK, AllConnected
    <3>3. DOMAIN trackers' \in {{}, Seeds} /\ trackers' \in [DOMAIN trackers' -> Tracker]
      BY <2>3 DEF SeedInv, TypeOK
    <3>4. QED
      BY <2>1, <2>4, <2>5, <3>1, <3>2, <3>3 DEF SeedInv, TypeOK
  <2>8. dhtDiscoverySent' => \A i \in Seeds : ~Shadowed(i)
    BY <2>1, <2>2, <2>7, ConnectedNotShadowed DEF SeedInv, TypeOK
  <2>9. QED
    BY <2>1, <2>2, <2>6, <2>7, <2>8 DEF SeedInv
<1>5. CASE Receive \/ FinishRegisterResp
  BY <1>5, ReceiveKeeps
<1>6. CASE Tick
  <2>1. /\ trackers' = [i \in DOMAIN trackers |-> Aged(trackers[i])]
        /\ UNCHANGED <<connector, listener, dhtDiscoverySent,
                       m_peers, m_peerPublicKeys, tries>>
    BY <1>6 DEF Tick
  <2>2. ASSUME NEW i \in DOMAIN trackers
        PROVE  /\ Kept(i)
               /\ Sound(Aged(trackers[i]))
               /\ Aged(trackers[i]).retry_count = trackers[i].retry_count
               /\ Aged(trackers[i]).state = trackers[i].state
    <3>1. Kept(i) /\ trackers[i] \in Tracker
      BY DEF SeedInv, Kept, Sound
    <3>2. Aged(trackers[i]) \in Tracker
      BY <3>1, TrackerOperations
    <3>3. /\ Aged(trackers[i]).retry_count = trackers[i].retry_count
          /\ Aged(trackers[i]).state = trackers[i].state
          /\ Aged(trackers[i]).next_retry_delay_sec = trackers[i].next_retry_delay_sec
      BY <3>1 DEF Aged, Tracker
    <3>4. QED
      BY <3>1, <3>2, <3>3 DEF Kept, Sound
  <2>3. \A i \in DOMAIN trackers' : Kept(i)'
    BY <2>1, <2>2 DEF Kept, Sound
  <2>4. trackers' \in [DOMAIN trackers -> Tracker]
    BY <2>1, <2>2 DEF Sound
  <2>5. seedLoop' \in {"asleep", "awake", "waiting"}
    BY <1>6 DEF Tick, SeedInv, TypeOK
  <2>6. lag' \in 0..MaxLag /\ held' \in 0..MaxLag
    <3>1. lag \in 0..MaxLag /\ held \in 0..MaxLag
      BY DEF SeedInv, TypeOK
    <3>2. lag' \in 0..MaxLag
      BY <1>0, <1>6, <3>1 DEF Tick
    <3>3. held' \in 0..MaxLag
      BY <1>0, <1>6, <3>1 DEF Tick
    <3>4. QED
      BY <3>2, <3>3
  <2>7. quiet' \in [Seeds -> 0..Horizon]
    <3>1. \A i \in Seeds : quiet[i] + 1 \in Nat
      BY <1>0 DEF SeedInv, TypeOK
    <3>2. QED
      BY <1>6, <3>1, SaturateBounded DEF Tick
  <2>8. TypeOK' /\ Created'
    BY <2>1, <2>4, <2>5, <2>6, <2>7 DEF SeedInv, TypeOK, Created
  <2>9. QED
    BY <2>1, <2>3, <2>8 DEF SeedInv
<1>7. CASE UNCHANGED vars
  BY <1>7 DEF vars, SeedInv, TypeOK, Created, Kept, Sound
<1>8. QED
  BY <1>1, <1>2, <1>3, <1>4, <1>5, <1>6, <1>7 DEF Next

-----------------------------------------------------------------------------
(* What the invariant gives *)

\* The inductive invariant holds in every reachable state of any node: this
\* is what keeps the trackers consistent under the three threads.
THEOREM SeedInvariant == Spec => []SeedInv
<1>1. Init => SeedInv
  BY InitSeedInv
<1>2. SeedInv /\ [Next]_vars => SeedInv'
  BY NextSeedInv
<1>3. QED
  BY <1>1, <1>2, PTL DEF Spec

\* Every variable keeps its type; the counters of a tracker never leave Nat
\* and its delay never leaves 1..MAX_BACKOFF_DELAY_SEC.
THEOREM TypeCorrect == Spec => []TypeOK
<1>1. SeedInv => TypeOK
  BY DEF SeedInv
<1>2. QED
  BY <1>1, SeedInvariant, PTL

\* RetryBudget for every number of seeds, budget, delay and clock offset: at
\* most MAX_RETRY_COUNT REGISTERs of the loop between two recoveries, and no
\* seed given up before that.
THEOREM BudgetKept == Spec => []RetryBudget
<1>1. SeedInv => RetryBudget
  BY DEF SeedInv, Kept, Sound, RetryBudget
<1>2. QED
  BY <1>1, SeedInvariant, PTL

\* DelayMatchesCount for every value of the constants: the delay in force is
\* always the backoff of the attempts counted.
THEOREM DelayConsistent == Spec => []DelayMatchesCount
<1>1. SeedInv => DelayMatchesCount
  BY DEF SeedInv, Kept, Sound, DelayMatchesCount
<1>2. QED
  BY <1>1, SeedInvariant, PTL

\* NoSeedForgotten for every configuration: after ConnectToSeeds every seed has
\* been sent a REGISTER or has answered one.
THEOREM NoneForgotten == Spec => []NoSeedForgotten
<1>1. SeedInv => NoSeedForgotten
  BY DEF SeedInv, Created, Kept, NoSeedForgotten
<1>2. QED
  BY <1>1, SeedInvariant, PTL

\* For every configuration that lists a seed twice, the FIND_NODE round of
\* SeedRegistrationLoop never takes place.
THEOREM DuplicateBlocks == Spec => []DuplicateSeedBlocksDiscovery
<1>1. SeedInv => DuplicateSeedBlocksDiscovery
  <2> SUFFICES ASSUME SeedInv, NEW i \in Seeds, NEW j \in Seeds,
                      i # j, SeedNodes[i] = SeedNodes[j]
               PROVE  ~dhtDiscoverySent
    BY DEF DuplicateSeedBlocksDiscovery
  <2>1. i \in Nat /\ j \in Nat /\ 1 =< i /\ 1 =< j
    BY SeedsAreIndices
  <2>2. Shadowed(i) \/ Shadowed(j)
    <3>1. CASE i < j
      BY <2>1, <3>1 DEF Shadowed
    <3>2. CASE j < i
      BY <2>1, <3>2 DEF Shadowed
    <3>3. QED
      BY <2>1, <3>1, <3>2
  <2>3. QED
    BY <2>2 DEF SeedInv
<1>2. QED
  BY <1>1, SeedInvariant, PTL

-----------------------------------------------------------------------------
(* The node implements the lifecycle *)

\* At most one tracker hears from an address.
LEMMA OneTrackerHears ==
    ASSUME NEW a, NEW i, NEW j, DOMAIN trackers \subseteq Seeds,
           IsTrackerOf(i, a), IsTrackerOf(j, a)
    PROVE  i = j
<1>1. i \in Nat /\ j \in Nat /\ 1 =< i /\ 1 =< j
  BY SeedsAreIndices DEF IsTrackerOf
<1>2. SeedNodes[i] = a /\ SeedNodes[j] = a
  BY DEF IsTrackerOf
<1>3. ~(i < j)
  BY <1>1, <1>2 DEF IsTrackerOf
<1>4. ~(j < i)
  BY <1>1, <1>2 DEF IsTrackerOf
<1>5. QED
  BY <1>1, <1>3, <1>4

\* A pass over existing trackers is a Pass of the lifecycle.
LEMMA PassIsPass ==
    ASSUME SeedInv, SeedInv', DOMAIN trackers' = DOMAIN trackers,
           \A i \in DOMAIN trackers :
              \/ trackers'[i].state = trackers[i].state
              \/ <<trackers[i].state, trackers'[i].state>> \in Lifecycle!OwnMoves
    PROVE  Lifecycle!Pass
<1>1. \A i \in DOMAIN trackers : trackers'[i].state \in ConnectionStates
  BY DEF SeedInv, TypeOK, Tracker
<1>2. SeedStates' \in [Seeds -> Lifecycle!LifecycleStates]
  BY <1>1 DEF SeedStates, Lifecycle!LifecycleStates, ConnectionStates
<1>3. \A i \in Seeds : \/ SeedStates'[i] = SeedStates[i]
                       \/ <<SeedStates[i], SeedStates'[i]>> \in Lifecycle!OwnMoves
  BY DEF SeedStates
<1>4. QED
  BY <1>2, <1>3 DEF Lifecycle!Pass

\* A packet that moves the tracker found for its sender is heard by the
\* lifecycle; one that finds no tracker is not.
LEMMA PacketIsHeard ==
    ASSUME SeedInv, NEW a, NEW s \in {"Connecting", "Connected", "Reset"},
           DOMAIN trackers' = DOMAIN trackers,
           \A i \in DOMAIN trackers :
              trackers'[i].state = IF IsTrackerOf(i, a) THEN s ELSE trackers[i].state
    PROVE  [Lifecycle!LifecycleNext]_SeedStates
<1>1. DOMAIN trackers \subseteq Seeds
  BY DEF SeedInv, TypeOK
<1>2. CASE \E i \in DOMAIN trackers : IsTrackerOf(i, a)
  <2>1. PICK i \in DOMAIN trackers : IsTrackerOf(i, a)
    BY <1>2
  <2>2. \A j \in DOMAIN trackers : IsTrackerOf(j, a) => j = i
    BY <1>1, <2>1, OneTrackerHears
  <2>3. SeedStates' = [SeedStates EXCEPT ![i] = s]
    BY <1>1, <2>1, <2>2 DEF SeedStates
  <2>4. SeedStates[i] # "Absent"
    BY <1>1 DEF SeedInv, TypeOK, Tracker, ConnectionStates, SeedStates
  <2>5. Lifecycle!Hear(i)
    BY <2>3, <2>4 DEF Lifecycle!Hear
  <2>6. QED
    BY <1>1, <2>5 DEF Lifecycle!LifecycleNext
<1>3. CASE ~\E i \in DOMAIN trackers : IsTrackerOf(i, a)
  BY <1>1, <1>3 DEF SeedStates
<1>4. QED
  BY <1>2, <1>3

\* Every step of the node is a step of the lifecycle, or changes no state of
\* a tracker.
LEMMA StepImplements ==
    ASSUME SeedInv, SeedInv', [Next]_vars
    PROVE  [Lifecycle!LifecycleNext]_SeedStates
<1>0. DOMAIN trackers \subseteq Seeds /\ \A i \in DOMAIN trackers : trackers[i] \in Tracker
  BY DEF SeedInv, TypeOK
<1>1. CASE CreateTrackers
  <2>1. DOMAIN trackers = {} /\ trackers' = [i \in Seeds |-> NewTracker]
    BY <1>1 DEF CreateTrackers, SeedInv, Created
  <2>2. Lifecycle!Create
    BY <2>1 DEF Lifecycle!Create, SeedStates, NewTracker
  <2>3. QED
    BY <2>2 DEF Lifecycle!LifecycleNext
<1>2. CASE SendInitialRegistrations
  <2>1. \A i \in DOMAIN trackers :
           \/ trackers'[i] = trackers[i]
           \/ /\ trackers[i].state = "Disconnected"
              /\ trackers'[i].state = "Connecting"
    BY <1>0, <1>2 DEF SendInitialRegistrations, SetLastSuccessTime, SetState, Tracker
  <2>2. DOMAIN trackers' = DOMAIN trackers
    BY <1>2 DEF SendInitialRegistrations
  <2>3. QED
    BY <2>1, <2>2, PassIsPass DEF Lifecycle!LifecycleNext, Lifecycle!OwnMoves
<1>3. CASE RegistrationPass
  <2>1. /\ trackers' = [i \in DOMAIN trackers |-> Visited(trackers[i])]
        /\ lag \in 0..MaxLag
        /\ \A i \in DOMAIN trackers : Sound(trackers[i])
    BY <1>3 DEF RegistrationPass, SeedInv, TypeOK, Kept
  <2>2. \A i \in DOMAIN trackers :
           \/ trackers'[i].state = trackers[i].state
           \/ <<trackers[i].state, trackers'[i].state>> \in Lifecycle!OwnMoves
    BY <2>1, VisitedSound
  <2>3. QED
    BY <2>1, <2>2, PassIsPass DEF Lifecycle!LifecycleNext
<1>4. CASE Receive
  <2>1. PICK a \in Addresses : HandleRegister(a) \/ HandleRegisterResp(a)
                               \/ HandleAccepted(a) \/ HandleFailed(a)
    BY <1>4 DEF Receive
  <2>2. CASE HandleRegister(a) \/ HandleRegisterResp(a)
    <3>1. \A i \in DOMAIN trackers :
             trackers'[i].state = IF IsTrackerOf(i, a) THEN "Connecting" ELSE trackers[i].state
      BY <1>0, <2>2 DEF HandleRegister, HandleRegisterResp, MarkConnecting,
                        SetLastSuccessTime, SetState, Tracker
    <3>2. DOMAIN trackers' = DOMAIN trackers
      BY <2>2 DEF HandleRegister, HandleRegisterResp, MarkConnecting
    <3>3. QED
      BY <3>1, <3>2, PacketIsHeard
  <2>3. CASE HandleAccepted(a)
    <3>1. \A i \in DOMAIN trackers :
             trackers'[i].state = IF IsTrackerOf(i, a) THEN "Connected" ELSE trackers[i].state
      BY <1>0, <2>3 DEF HandleAccepted, SetLastSuccessTime, SetState, Tracker
    <3>2. DOMAIN trackers' = DOMAIN trackers
      BY <2>3 DEF HandleAccepted
    <3>3. QED
      BY <3>1, <3>2, PacketIsHeard
  <2>4. CASE HandleFailed(a)
    <3>1. \A i \in DOMAIN trackers :
             trackers'[i].state = IF IsTrackerOf(i, a) THEN "Reset" ELSE trackers[i].state
      BY <1>0, <2>4 DEF HandleFailed, SetState, Tracker
    <3>2. DOMAIN trackers' = DOMAIN trackers
      BY <2>4 DEF HandleFailed
    <3>3. QED
      BY <3>1, <3>2, PacketIsHeard
  <2>5. QED
    BY <2>1, <2>2, <2>3, <2>4
<1>5. CASE FinishRegisterResp
  <2>1. \A i \in DOMAIN trackers :
           trackers'[i].state = IF IsTrackerOf(i, listener) THEN "Connected" ELSE trackers[i].state
    BY <1>0, <1>5 DEF FinishRegisterResp, SetState, Tracker
  <2>2. DOMAIN trackers' = DOMAIN trackers
    BY <1>5 DEF FinishRegisterResp
  <2>3. QED
    BY <2>1, <2>2, PacketIsHeard
<1>6. CASE Tick
  <2>1. \A i \in DOMAIN trackers : trackers'[i].state = trackers[i].state
    BY <1>0, <1>6 DEF Tick, Aged, Tracker
  <2>2. DOMAIN trackers' = DOMAIN trackers
    BY <1>6 DEF Tick
  <2>3. QED
    BY <2>1, <2>2 DEF SeedStates
<1>7. CASE ReadClock \/ UNCHANGED vars
  BY <1>7 DEF ReadClock, vars, SeedStates
<1>8. QED
  BY <1>1, <1>2, <1>3, <1>4, <1>5, <1>6, <1>7 DEF Next

\* The three threads together implement the lifecycle of SeedLifecycle.tla,
\* whatever the clocks, the delays and the packets: the loop alone never
\* leaves Connected or Reset and never shows a recovered seed as Disconnected.
THEOREM NodeImplementsLifecycle == Spec => ImplementsLifecycle
<1>1. Init => Lifecycle!LifecycleInit
  BY DEF Init, Lifecycle!LifecycleInit, SeedStates
<1>2. SeedInv /\ SeedInv' /\ [Next]_vars => [Lifecycle!LifecycleNext]_SeedStates
  BY StepImplements
<1>3. QED
  BY <1>1, <1>2, SeedInvariant, PTL DEF Spec, ImplementsLifecycle, Lifecycle!LifecycleSpec

-----------------------------------------------------------------------------
(* The recovery delay, with the clocks a machine has *)

\* A tracker that is Failed was stamped with the steady clock.
Overdue == \A i \in DOMAIN trackers : trackers[i].state = "Failed" => trackers[i].since = Horizon

\* A pass registers every seed that an earlier one has given up.
NoRecoveryDelay ==
    [][RegistrationPass =>
         \A i \in DOMAIN trackers :
            trackers[i].state = "Failed" => Registers(trackers[i])]_vars

\* A pass gives up only trackers whose attempt it has just stamped, and leaves
\* no tracker Failed otherwise but those it finds so.
LEMMA GivenUpOverdue ==
    ASSUME NEW t \in Tracker, EpochOffset >= Horizon, Visited(t).state = "Failed",
           t.state = "Failed" => t.since = Horizon
    PROVE  Visited(t).since = Horizon
<1>1. CASE Attempts(t) /\ ~IsConnected(t)
  <2>1. AfterRecovery(t) \in Tracker
    BY TrackerOperations DEF AfterRecovery
  <2>2. Saturate(EpochOffset) = Horizon
    BY TrackerAssumption DEF Saturate, Horizon
  <2>3. Attempted(t).since = Horizon
    BY <2>1, <2>2 DEF Attempted, RecordRetryAttempt, Tracker
  <2>4. \A s : SetState(Attempted(t), s).since = Attempted(t).since
    BY <2>1 DEF SetState, Attempted, RecordRetryAttempt, Tracker
  <2>5. QED
    BY <1>1, <2>3, <2>4 DEF Visited
<1>2. CASE ~Attempts(t) \/ IsConnected(t)
  <2>1. CanRecover(t, lag) => Recovered(t).state = "Disconnected"
    BY DEF Recovered, Tracker
  <2>2. Visited(t) = t
    BY <1>2, <2>1 DEF Visited, AfterRecovery
  <2>3. QED
    BY <2>2
<1>3. QED
  BY <1>1, <1>2

\* No step leaves a tracker Failed with a stamp of the wall clock.
LEMMA OverdueStep ==
    ASSUME EpochOffset >= Horizon, SeedInv, Overdue, [Next]_vars
    PROVE  Overdue'
<1>0. \A i \in DOMAIN trackers : trackers[i] \in Tracker
  BY DEF SeedInv, TypeOK
<1>1. CASE CreateTrackers
  BY <1>1 DEF CreateTrackers, NewTracker, Overdue
<1>2. CASE SendInitialRegistrations
  <2>1. /\ DOMAIN trackers' = DOMAIN trackers
        /\ \A i \in DOMAIN trackers :
              trackers'[i] = trackers[i] \/ trackers'[i].state = "Connecting"
    BY <1>0, <1>2 DEF SendInitialRegistrations, SetLastSuccessTime, SetState, Tracker
  <2>2. QED
    BY <2>1 DEF Overdue
<1>3. CASE RegistrationPass
  BY <1>0, <1>3, GivenUpOverdue DEF RegistrationPass, Overdue
<1>4. CASE Receive \/ FinishRegisterResp
  <2>1. \A t \in Tracker, s \in {"Connecting", "Connected", "Reset"} :
           SetState(t, s).state # "Failed" /\ SetLastSuccessTime(SetState(t, s)).state # "Failed"
    BY DEF SetState, SetLastSuccessTime, Tracker
  <2>2. DOMAIN trackers' = DOMAIN trackers /\ \A i \in DOMAIN trackers : Told(i)
    BY <1>4, ListenerTells
  <2>3. QED
    BY <1>0, <2>1, <2>2 DEF Told, Overdue
<1>5. CASE Tick
  <2>1. /\ DOMAIN trackers' = DOMAIN trackers
        /\ \A i \in DOMAIN trackers : /\ trackers'[i].state = trackers[i].state
                                      /\ trackers'[i].since = Saturate(trackers[i].since + 1)
    BY <1>0, <1>5 DEF Tick, Aged, Tracker
  <2>2. Saturate(Horizon + 1) = Horizon
    BY TrackerAssumption DEF Saturate, Horizon
  <2>3. QED
    BY <2>1, <2>2 DEF Overdue
<1>6. CASE ReadClock \/ UNCHANGED vars
  BY <1>6 DEF ReadClock, vars, Overdue
<1>7. QED
  BY <1>1, <1>2, <1>3, <1>4, <1>5, <1>6 DEF Next

\* On a machine that was booted after 1970, TryRecover never waits: what the steady
\* clock stamped (PeerConnectionTracker.cpp:61) has been out of RECOVERY_DELAY_SEC
\* by std::time from the start (PeerConnectionTracker.cpp:89), so that a seed given
\* up in one pass is sent REGISTER in the next, whatever the delays, the packets
\* and the lateness of the time the pass has read.
THEOREM GivenUpForOnePass == EpochOffset >= Horizon => (Spec => NoRecoveryDelay)
<1> SUFFICES ASSUME EpochOffset >= Horizon PROVE Spec => NoRecoveryDelay
  OBVIOUS
<1> DEFINE AtOnce == RegistrationPass =>
               \A i \in DOMAIN trackers :
                  trackers[i].state = "Failed" => Registers(trackers[i])
<1>1. Init => Overdue
  BY DEF Init, Overdue
<1>2. SeedInv /\ Overdue /\ [Next]_vars => Overdue'
  BY OverdueStep
<1>3. SeedInv /\ Overdue => AtOnce
  <2> SUFFICES ASSUME SeedInv, Overdue, NEW i \in DOMAIN trackers,
                      trackers[i].state = "Failed"
               PROVE  Registers(trackers[i])
    OBVIOUS
  <2>1. lag \in 0..MaxLag /\ Sound(trackers[i]) /\ trackers[i].since = Horizon
    BY DEF SeedInv, TypeOK, Kept, Overdue
  <2>2. CanRecover(trackers[i], lag)
    BY <2>1, TrackerAssumption DEF CanRecover, Elapsed, Horizon
  <2>3. QED
    BY <2>1, <2>2, RecoveryRegisters
<1>4. SeedInv /\ Overdue /\ [Next]_vars => [AtOnce]_vars
  BY <1>3
<1> HIDE DEF AtOnce
<1>5. Spec => [][AtOnce]_vars
  BY <1>1, <1>2, <1>4, SeedInvariant, PTL DEF Spec
<1>6. QED
  BY <1>5 DEF NoRecoveryDelay, AtOnce
=============================================================================
