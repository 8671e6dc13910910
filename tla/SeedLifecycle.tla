----------------------------- MODULE SeedLifecycle -----------------------------
(***************************************************************************)
(* What the trackers of a node promise, without clocks, budgets or         *)
(* threads: which moves between the states of PeerConnectionState          *)
(* (include/network/PeerConnectionTracker.hpp) the seed loop may make on   *)
(* its own, and which need a packet from the seed.                         *)
(*                                                                         *)
(* SeedRegistration implements this module; Registration builds on it.     *)
(***************************************************************************)
CONSTANT Seeds

VARIABLE seedState

\* "Absent" is a tracker ConnectToSeeds has not created yet.
LifecycleStates ==
    {"Absent", "Disconnected", "Connecting", "Connected", "Failed", "Reset"}

LifecycleInit == seedState = [i \in Seeds |-> "Absent"]

\* All trackers are created at once.
Create ==
    /\ \A i \in Seeds : seedState[i] = "Absent"
    /\ seedState' = [i \in Seeds |-> "Disconnected"]

\* The moves the node makes alone: it registers, gives up, and tries again.
\* It never leaves Connected or Reset, and never returns to Disconnected.
OwnMoves == {<<"Disconnected", "Connecting">>,
             <<"Connecting", "Failed">>,
             <<"Failed", "Connecting">>}

Pass ==
    /\ seedState' \in [Seeds -> LifecycleStates]
    /\ \A i \in Seeds :
          \/ seedState'[i] = seedState[i]
          \/ <<seedState[i], seedState'[i]>> \in OwnMoves

\* A packet from one seed moves its tracker, from whatever state.
Hear(i) ==
    /\ seedState[i] # "Absent"
    /\ \E s \in {"Connecting", "Connected", "Reset"} :
          seedState' = [seedState EXCEPT ![i] = s]

LifecycleNext == Create \/ Pass \/ \E i \in Seeds : Hear(i)

LifecycleSpec == LifecycleInit /\ [][LifecycleNext]_seedState
=============================================================================
