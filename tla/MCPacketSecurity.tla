--------------------------- MODULE MCPacketSecurity ---------------------------
(* The threads of PeerManager and what they send, and the bytes that the   *)
(* compressor and the decompressor are given, for TLC.  The envelope takes *)
(* the compressor as one step and has no part in its variables, so that    *)
(* the two are explored one at a time.                                     *)
EXTENDS PacketSecurity, MiniLZO

Threads == {"listener", "seed", "connector", "punch"}

\* ConnectToSeeds and the seed loop register under m_networkMutex.
Registering == {"seed", "connector"}

Sends(thread, types, bytes) == {[thread |-> thread, type |-> t, size |-> bytes] : t \in types}

AllTraffic ==
    Sends("listener", {"REGISTER", "PEER_LIST"}, "large")
      \cup Sends("listener", {"PEER_LIST", "DHT_FIND_NODE_RESPONSE"}, "small")
      \cup Sends("listener", {"PUNCH_ACK"}, "small")
      \cup Sends("seed", {"REGISTER"}, "large")
      \cup Sends("seed", {"DHT_FIND_NODE"}, "small")
      \cup Sends("connector", {"REGISTER"}, "large")
      \cup Sends("punch", {"PUNCH"}, "small")

\* k bytes without a match, then n that repeat the d before them.
Noise(i) == (i * 37 + i \div 7) % 256
Repeating(k, d, n) ==
    [i \in 1..(k + n) |-> Noise(IF i <= k THEN i ELSE k + 1 - d + ((i - k - 1) % d))]

\* Literal runs and matches around every bound: 3, 18 and 238 literals, 8, 9 and
\* 33 bytes of a match, offsets of every kind, blocks of 64 bytes.
Payloads ==
    {Repeating(k, d, n) : k \in {4, 8, 19, 24, 30}, d \in {1, 3, 4},
                          n \in {0, 5, 12, 13, 14, 16, 17, 20, 25, 31, 32, 40}}
      \cup {Repeating(k, 1, 0) \o Repeating(j, 2, 20) \o Repeating(k, 1, 30) :
                k \in {5, 6, 24}, j \in {2, 3, 4, 5, 10, 30, 50}}
      \cup {Repeating(300, 1, 0), Repeating(30, 20, 300), Repeating(280, 250, 400)}

\* A hash under which different bytes collide.
SumHash(bytes) == (bytes[1] + 3 * bytes[2] + 5 * bytes[3] + 7 * bytes[4]) % 16

\* All short strings of bytes that matter to the decompressor, alone and after
\* literals enough for a match.
Bytes == {0, 1, 17, 21, 33, 64, 255}
Strings(n) == UNION {[1..k -> Bytes] : k \in 0..n}
AnyBytes ==
    [packet : Strings(4), size : {0, 3}]
      \cup [packet : {<<17 + k>> \o Repeating(k, 1, 0) \o s : k \in {4, 18}, s \in Strings(3)},
            size : {19, 300}]

MCInit == EnvelopeInit /\ LzoInit

MCNext ==
    \/ LzoInit /\ EnvelopeNext /\ UNCHANGED lzoVars
    \/ EnvelopeInit /\ LzoNext /\ UNCHANGED envelopeVars

MCSpec == MCInit /\ [][MCNext]_<<envelopeVars, lzoVars>>
===============================================================================
