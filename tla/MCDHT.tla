-------------------------------- MODULE MCDHT --------------------------------
(* Ids and keys for model checking DHT: ids are three bits long. *)
EXTENDS DHT, TLC

CONSTANTS s, a, b, c

Id(x, y, z) == 0 :> x @@ 1 :> y @@ 2 :> z

\* All clients are in one bucket of the seed, and two buckets of each other.
ThreeClients == s :> Id(1, 0, 0) @@ a :> Id(0, 0, 0) @@ b :> Id(0, 1, 0) @@ c :> Id(0, 1, 1)

TwoClients == s :> Id(1, 0, 0) @@ a :> Id(0, 0, 0) @@ b :> Id(0, 1, 0)

OneKey == {Id(0, 1, 1)}
=============================================================================
