------------------------------ MODULE MCServices ------------------------------
(* What the program does not yet use to its full extent, for TLC: the      *)
(* distributed hash table, the strategy for the punches of a peer, the     *)
(* STUN server and client, and the coordination of the punches of two      *)
(* peers by a super node.  No two of them share a variable, so that they   *)
(* are explored one at a time.                                             *)
EXTENDS MCDHT, PunchStrategy, STUN, PunchCoordination

CONSTANT d

OneClient == {[ip |-> <<10, 0, 0, 1>>, port |-> 258]}

\* All parties are registered with c.
WithC == [n \in Party |-> IF n = c THEN Party \ {c} ELSE {c}]

MCInit == Init /\ StrategyInit /\ STUNInit /\ CoordInit

MCNext ==
    \/ /\ StrategyInit /\ STUNInit /\ CoordInit
       /\ Next /\ UNCHANGED <<strategyVars, stunVars, coordVars>>
    \/ /\ Init /\ STUNInit /\ CoordInit
       /\ StrategyNext /\ UNCHANGED <<vars, stunVars, coordVars>>
    \/ /\ Init /\ StrategyInit /\ CoordInit
       /\ STUNNext /\ UNCHANGED <<vars, strategyVars, coordVars>>
    \/ /\ Init /\ StrategyInit /\ STUNInit
       /\ CoordNext /\ UNCHANGED <<vars, strategyVars, stunVars>>

allVars == <<vars, strategyVars, stunVars, coordVars>>

MCSpec == MCInit /\ [][MCNext]_allVars /\ STUNFairness
===============================================================================
