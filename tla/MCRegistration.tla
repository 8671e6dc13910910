---------------------------- MODULE MCRegistration ----------------------------
(* Instances of Registration for TLC.                                      *)
EXTENDS Registration

CONSTANTS s, a, b

\* Two clients of one seed that has no seeds itself.
TwoClients == [n \in Node |-> IF n = s THEN {} ELSE {s}]

\* a is a client of s and a seed of b, which has both as seeds.
Tiered == [n \in Node |-> IF n = s THEN {} ELSE IF n = a THEN {s} ELSE {s, a}]
===============================================================================
