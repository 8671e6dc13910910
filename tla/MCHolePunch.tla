----------------------------- MODULE MCHolePunch -----------------------------
(* Two nodes that punch each other. *)
EXTENDS HolePunch

CONSTANTS a, b

TwoNodes == {a, b}

\* a has b in its peer table, b learns of a by an introduction or not at all.
OneKnows == [n \in TwoNodes |-> IF n = a THEN {b} ELSE {}]

\* a is asked again after a session has timed out.
Starts == [n \in TwoNodes |-> IF n = a THEN 2 ELSE 0]

OneMultiPort == {a}
=============================================================================
