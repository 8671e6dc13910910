------------------------ MODULE PeerConnectionTracker ------------------------
(***************************************************************************)
(* The per-seed connection tracker of src/network/PeerConnectionTracker.   *)
(*                                                                         *)
(* A tracker is a record.  Every method of the class takes the tracker's   *)
(* own mutex for its whole body, so a method is one operator from a record *)
(* to a value or to the next record.                                       *)
(*                                                                         *)
(* Time.  All comparisons of the class are of the form                     *)
(*      current_time >= last_attempt_ts + delay                            *)
(* with current_time read from std::time (seconds since 1970).  The model  *)
(* keeps the difference "since" = std::time now - last_attempt_ts instead  *)
(* of the two timestamps, saturated at Horizon, beyond which no comparison *)
(* can tell values apart.  SetLastSuccessTime stamps with std::time, so it *)
(* sets since to 0.  RecordRetryAttempt stamps with steady_clock (seconds  *)
(* since boot), so it sets since to EpochOffset, the amount by which the   *)
(* wall clock is ahead of the steady clock: the time of the last boot,     *)
(* some 1.7e9, which is above any Horizon.  A caller may compare with a    *)
(* current_time it read "lag" seconds ago.                                 *)
(*                                                                         *)
(* first_attempt_ts and last_success_ts are written and never read by the  *)
(* program; ip, port and seed_address never change after Initialize and    *)
(* are the caller's SeedNodes[i].                                          *)
(***************************************************************************)
EXTENDS Integers, Sequences

CONSTANTS
    MAX_RETRY_COUNT,          \* 10 in the code
    MAX_BACKOFF_DELAY_SEC,    \* 60
    RECOVERY_DELAY_SEC,       \* 300
    INITIAL_RETRY_DELAY_SEC,  \* 2
    EpochOffset,              \* wall clock minus steady clock, in seconds
    MaxLag                    \* bound: how old a current_time may be when used

ASSUME TrackerAssumption ==
    /\ MAX_RETRY_COUNT \in Nat \ {0}
    /\ INITIAL_RETRY_DELAY_SEC \in Nat \ {0}
    /\ MAX_BACKOFF_DELAY_SEC \in Nat
    /\ RECOVERY_DELAY_SEC \in Nat
    /\ INITIAL_RETRY_DELAY_SEC =< MAX_BACKOFF_DELAY_SEC
    /\ MAX_BACKOFF_DELAY_SEC =< RECOVERY_DELAY_SEC
    /\ MAX_BACKOFF_DELAY_SEC =< 32 * INITIAL_RETRY_DELAY_SEC
    /\ EpochOffset \in Nat
    /\ MaxLag \in Nat

ConnectionStates == {"Disconnected", "Connecting", "Connected", "Failed", "Reset"}

\* Differences of timestamps above Horizon behave like Horizon.
Horizon == RECOVERY_DELAY_SEC + MaxLag

Saturate(seconds) == IF seconds < Horizon THEN seconds ELSE Horizon

\* The delay stored by the n-th recorded attempt, INITIAL * (1 << (n - 1)) cut
\* at the maximum; before the first it is the initial delay.  The shift is exact
\* for counts below 31, and from the sixth attempt on the maximum applies.
Doubled == <<1, 2, 4, 8, 16, 32>>

Backoff(n) ==
    IF n = 0 THEN INITIAL_RETRY_DELAY_SEC
    ELSE LET delay == INITIAL_RETRY_DELAY_SEC * Doubled[IF n < 6 THEN n ELSE 6]
         IN  IF delay < MAX_BACKOFF_DELAY_SEC THEN delay ELSE MAX_BACKOFF_DELAY_SEC

Tracker == [state: ConnectionStates,
            retry_count: Nat,
            next_retry_delay_sec: 1..MAX_BACKOFF_DELAY_SEC,
            since: 0..Horizon]

-----------------------------------------------------------------------------

\* Initialize: last_attempt_ts = 0, which std::time passed long ago.
NewTracker == [state |-> "Disconnected",
               retry_count |-> 0,
               next_retry_delay_sec |-> INITIAL_RETRY_DELAY_SEC,
               since |-> Horizon]

SetState(t, s) == [t EXCEPT !.state = s]

SetLastSuccessTime(t) == [t EXCEPT !.since = 0]

\* current_time >= last_attempt_ts + delay, for a current_time lag seconds old.
Elapsed(t, delay, lag) == t.since - lag >= delay

ShouldRetry(t, lag) ==
    \/ /\ t.state \in {"Disconnected", "Connecting"}
       /\ Elapsed(t, t.next_retry_delay_sec, lag)
    \/ /\ t.state = "Failed"
       /\ Elapsed(t, RECOVERY_DELAY_SEC, lag)

\* The tracker after RecordRetryAttempt; the call returns WithinBudget of it.
RecordRetryAttempt(t) ==
    [t EXCEPT !.retry_count = @ + 1,
              !.next_retry_delay_sec = Backoff(t.retry_count + 1),
              !.since = Saturate(EpochOffset)]

\* Mutant: the budget is off by one.
WithinBudgetAndOne(t) == t.retry_count - 1 =< MAX_RETRY_COUNT

WithinBudget(t) == t.retry_count =< MAX_RETRY_COUNT

IsConnected(t) == t.state = "Connected"

\* Mutant: the comparison is turned round.
CanRecoverEarlyOnly(t, lag) == t.state = "Failed" /\ ~Elapsed(t, RECOVERY_DELAY_SEC, lag)

\* TryRecover returns true exactly when CanRecover holds, and then changes
\* the tracker to Recovered.
CanRecover(t, lag) == t.state = "Failed" /\ Elapsed(t, RECOVERY_DELAY_SEC, lag)

Recovered(t) == [t EXCEPT !.state = "Disconnected",
                          !.retry_count = 0,
                          !.next_retry_delay_sec = INITIAL_RETRY_DELAY_SEC]

\* Mutant: the test of a tracker is inverted.
NoneConnected(ts) == DOMAIN ts # {} /\ \A i \in DOMAIN ts : ~IsConnected(ts[i])

AllConnected(ts) == DOMAIN ts # {} /\ \A i \in DOMAIN ts : IsConnected(ts[i])

\* One second passes on both clocks.
Aged(t) == [t EXCEPT !.since = Saturate(@ + 1)]
=============================================================================
