-------------------------- MODULE MCPunchCoordination --------------------------
(* The coordination of punches for TLC.                                    *)
EXTENDS PunchCoordination, TLC

CONSTANTS c, a, b, d

\* All are registered with c.
All == [n \in Party |-> IF n = c THEN Party \ {c} ELSE {c}]

Clients == Permutations({b, d})
=============================================================================
