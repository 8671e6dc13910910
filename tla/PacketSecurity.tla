---------------------------- MODULE PacketSecurity ----------------------------
(***************************************************************************)
(* The envelope of all packets (src/network/PacketSecurity.cpp): header,   *)
(* signature, compression, and what of it the receiver undoes, in the      *)
(* threads of PeerManager that send packets at the same time.              *)
(*                                                                         *)
(* LZO compresses with s_compressWorkMem, one buffer for the process and   *)
(* under no lock.  The threads that register with seeds send while they    *)
(* hold m_networkMutex, the listener does not: two compressions may        *)
(* overlap, and then either may come out as any stream (a data race), or   *)
(* unharmed.                                                               *)
(*                                                                         *)
(* What is abstracted: ciphers and the obfuscation with the nonce, which   *)
(* the receiver undoes with what is in the packet; a magic number xor-ed   *)
(* with the constant MAGIC_NUMBER stands for itself, so that a regular     *)
(* header has its nonce there.  A signature is what was signed, with the   *)
(* key.  Payloads are as long as the program's own, below 65408 bytes.     *)
(***************************************************************************)
EXTENDS Naturals, FiniteSets

CONSTANTS
    Thread,       \* threads that send packets
    Traffic,      \* the packets a thread may send: records of thread, type, size
    Locked,       \* threads that hold m_networkMutex while they send
    Nonces,       \* values of the nonce
    NoThread,       \* no thread
    MaxPackets    \* bound on the packets each thread sends

ASSUME PacketAssumption ==
    /\ Locked \subseteq Thread /\ NoThread \notin Thread
    /\ Nonces \subseteq Nat /\ MaxPackets \in Nat
    /\ \A p \in Traffic : p.thread \in Thread /\ p.size \in {"small", "large"}

VARIABLES
    m_networkMutex,  \* the thread that holds it, or NoThread
    packets,         \* packets[t]: the packets t has begun to prepare
    compressing,     \* compressing[t]: the packet t is in lzo1x_1_compress with, or {}
    met,             \* met[t]: the threads that have been compressing while t was
    net,             \* packets sent; each may be received at any time, again, or never
    delivered        \* what ProcessIncoming has returned: <<packet, payload>>

envelopeVars == <<m_networkMutex, packets, compressing, met, net, delivered>>

\* Keys a receiver may have for the sender's address: that of the sender, one
\* from before it took a new identity, or none.
SenderKey == "sender"
PublicKeys == {SenderKey, "former", "none"}

\* Payloads: the i-th of a thread, or what is decompressed after a race.
Sent == Thread \X (1..MaxPackets)
Garbled == <<NoThread, 1>>

\* A stream that decompresses to nothing of the right length; and what
\* ProcessIncoming returns instead of a payload.
Undecodable == <<NoThread, 2>>
Dropped == <<NoThread, 3>>

-----------------------------------------------------------------------------
(* PrepareOutgoing *)

\* Packets that SendSecurePacket asks to have signed ...
WantsSignature == {"REGISTER", "HANDSHAKE", "PEER_LIST", "INFERENCE_REQUEST", "INFERENCE_RESPONSE"}

\* ... and those that are left unsigned all the same: the receiver may not have the key.
NeverSigned == {"REGISTER", "DHT_FIND_NODE", "DHT_FIND_NODE_RESPONSE"}

\* Flags before compression.  Identity::Sign may fail, and the packet is then
\* sent without a signature.
Flags(type) ==
    IF type \in WantsSignature \ NeverSigned
    THEN {{"signed", "encrypted"}, {"encrypted"}}
    ELSE {{"encrypted"}}

NoSignature == [key |-> "none", flags |-> {}, payload |-> Dropped]

\* Header and payload are signed before compression.
Signature(flags, payload) ==
    IF "signed" \in flags
    THEN [key |-> SenderKey, flags |-> flags, payload |-> payload]
    ELSE NoSignature

\* The packet before its payload is compressed.  Its payload, and the threads
\* it meets, are history.
Prepared(type, nonce, flags, payload) ==
    [type |-> type, magic_xor |-> nonce, nonce |-> nonce, flags |-> flags,
     signature |-> Signature(flags, payload), body |-> payload, payload |-> payload, met |-> {}]

\* PUNCH and PUNCH_ACK are not prepared here: PeerManager puts the magic number
\* itself where a receiver looks for it xor-ed with the nonce, the time.
Plain(type, nonce, payload) ==
    [type |-> type, magic_xor |-> 0, nonce |-> nonce, flags |-> {},
     signature |-> NoSignature, body |-> payload, payload |-> payload, met |-> {}]

Compressed(packet, stream) ==
    [packet EXCEPT !.flags = @ \cup {"compressed"}, !.body = stream]

\* What may come of the compression in thread t: the payload as it was, if it
\* gets no shorter; a shorter stream; after a race, a stream of anything.
CompressData(t, packet) ==
    {packet, Compressed(packet, packet.payload)}
      \cup IF met[t] # {}
           THEN {Compressed(packet, stream) : stream \in {Garbled, Undecodable}}
           ELSE {}

-----------------------------------------------------------------------------
(* ProcessIncoming *)

\* Mutant: the flag is left in the header.
UncompressedFlagKept(packet) == packet.flags

\* The flags of the header against which a signature is verified.
Uncompressed(packet) == packet.flags \ {"compressed"}

\* Mutant: a signature is verified against the header only.
VerifiesHeader(packet, payload, senderPubKey) ==
    "signed" \in packet.flags =>
        /\ packet.signature.key = senderPubKey
        /\ packet.signature.flags = Uncompressed(packet)

\* A signature is verified against header and payload after decompression.
Verifies(packet, payload, senderPubKey) ==
    "signed" \in packet.flags =>
        packet.signature = [key |-> senderPubKey, flags |-> Uncompressed(packet), payload |-> payload]

\* The payload of a packet, or Dropped.
ProcessIncoming(packet, senderPubKey) ==
    IF /\ packet.magic_xor = packet.nonce
       /\ packet.body # Undecodable
       /\ Verifies(packet, packet.body, senderPubKey)
    THEN packet.body
    ELSE Dropped

-----------------------------------------------------------------------------

Flagged == SUBSET {"signed", "encrypted", "compressed"}

EnvelopeTypeOK ==
    /\ m_networkMutex \in Locked \cup {NoThread}
    /\ packets \in [Thread -> 0..MaxPackets]
    /\ \A t \in Thread : Cardinality(compressing[t]) =< 1
    /\ \A t \in Thread : met[t] \subseteq Thread \ {t} /\ (met[t] # {} => compressing[t] # {})
    /\ \A p \in net \cup UNION {compressing[t] : t \in Thread} :
          /\ p.payload \in Sent
          /\ p.body \in Sent \cup {Garbled, Undecodable}
          /\ {p.nonce, p.magic_xor} \subseteq Nonces \cup {0}
          /\ p.flags \in Flagged
    /\ \A d \in delivered : d[1] \in net /\ d[2] \in Sent \cup {Garbled}

EnvelopeInit ==
    /\ m_networkMutex = NoThread
    /\ packets = [t \in Thread |-> 0]
    /\ compressing = [t \in Thread |-> {}]
    /\ met = [t \in Thread |-> {}]
    /\ net = {}
    /\ delivered = {}

\* Mutant: the mutex is not waited for.
AcquireAnyway(t) ==
    m_networkMutex' = IF t \in Locked THEN t ELSE m_networkMutex

\* The thread has the mutex, if it is one of those that take it.  (It is held
\* for a pass with several packets in the code; here from packet to packet.)
Acquire(t) ==
    /\ t \in Locked => m_networkMutex = NoThread
    /\ m_networkMutex' = IF t \in Locked THEN t ELSE m_networkMutex

Release(t) == m_networkMutex' = IF t \in Locked THEN NoThread ELSE m_networkMutex

\* A thread prepares a packet.  A large payload goes to the compressor, which
\* another thread may be using; a small one is sent as it is.
PrepareOutgoing(t, p) ==
    /\ p.thread = t
    /\ compressing[t] = {}
    /\ packets[t] < MaxPackets
    /\ packets' = [packets EXCEPT ![t] = @ + 1]
    /\ \E nonce \in Nonces, flags \in Flags(p.type) :
          LET packet == Prepared(p.type, nonce, flags, <<t, packets'[t]>>)
              others == {o \in Thread : compressing[o] # {}}
          IN  IF p.size = "large"
              THEN /\ Acquire(t)
                   /\ compressing' = [compressing EXCEPT ![t] = {packet}]
                   /\ met' = [o \in Thread |->
                                IF o = t THEN others
                                ELSE IF o \in others THEN met[o] \cup {t} ELSE met[o]]
                   /\ UNCHANGED net
              ELSE /\ t \in Locked => m_networkMutex = NoThread
                   /\ net' = net \cup {packet}
                   /\ UNCHANGED <<m_networkMutex, compressing, met>>
    /\ UNCHANGED delivered

\* The compression is done, the packet is sent.
SendCompressed(t) ==
    /\ \E packet \in compressing[t] : \E sent \in CompressData(t, packet) :
          net' = net \cup {[sent EXCEPT !.met = met[t]]}
    /\ compressing' = [compressing EXCEPT ![t] = {}]
    /\ met' = [met EXCEPT ![t] = {}]
    /\ Release(t)
    /\ UNCHANGED <<packets, delivered>>

\* SendPunchPacket, and the answer of HandlePunchPacket.
SendPlain(t, p) ==
    /\ p.thread = t
    /\ compressing[t] = {}
    /\ packets[t] < MaxPackets
    /\ packets' = [packets EXCEPT ![t] = @ + 1]
    /\ \E nonce \in Nonces : net' = net \cup {Plain(p.type, nonce, <<t, packets'[t]>>)}
    /\ UNCHANGED <<m_networkMutex, compressing, met, delivered>>

IsPunch(p) == p.type \in {"PUNCH", "PUNCH_ACK"}

\* A receiver that has this key for the sender's address.
ReceiveEnvelope(packet, senderPubKey) ==
    /\ ProcessIncoming(packet, senderPubKey) # Dropped
    /\ delivered' = delivered \cup {<<packet, ProcessIncoming(packet, senderPubKey)>>}
    /\ UNCHANGED <<m_networkMutex, packets, compressing, met, net>>

EnvelopeNext ==
    \/ \E t \in Thread : SendCompressed(t)
    \/ \E p \in Traffic : ~IsPunch(p) /\ PrepareOutgoing(p.thread, p)
    \/ \E p \in Traffic : IsPunch(p) /\ SendPlain(p.thread, p)
    \/ \E packet \in net, key \in PublicKeys : ReceiveEnvelope(packet, key)

EnvelopeSpec == EnvelopeInit /\ [][EnvelopeNext]_envelopeVars

-----------------------------------------------------------------------------
(* Properties *)

\* A packet that carries a signature is delivered as it was signed or not at
\* all, whatever other threads have compressed at the same time.
SignedIntact ==
    \A d \in delivered : "signed" \in d[1].flags => d[2] = d[1].payload

\* A prepared packet that no race has touched is taken by every receiver that
\* has its sender's key, signed or not, compressed or not, with its payload.
PreparedIsTaken ==
    \A p \in net :
        ~IsPunch(p) /\ p.body = p.payload => ProcessIncoming(p, SenderKey) = p.payload

\* A packet is harmed only where the listener, or another thread that sends
\* without m_networkMutex, has been compressing too: the threads that register
\* with seeds keep each other's packets whole.
HarmNeedsUnlocked ==
    \A p \in net : p.body # p.payload =>
        \E t \in p.met \cup {p.payload[1]} : t \notin Locked /\ p.met # {}

-----------------------------------------------------------------------------
(* What a comment says, and the code does not do *)

\* "Punch ACK packets are sent in plain format (header + payload directly)"
\* (PeerManager.cpp:407), and PUNCH packets too (PeerManager.cpp:911): sent
\* that way they are taken by the receiver.
PunchesAreTaken == \A p \in net : IsPunch(p) => ProcessIncoming(p, SenderKey) = p.payload
=============================================================================
