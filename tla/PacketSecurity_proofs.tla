------------------------ MODULE PacketSecurity_proofs ------------------------
(***************************************************************************)
(* Proofs about the envelope of packets, and about the compressor behind   *)
(* it and its decompressor: for every set of threads and messages, every   *)
(* key and hash, and every byte string.                                    *)
(***************************************************************************)
EXTENDS PacketSecurity, MiniLZO, Selection_proofs, SequenceTheorems

-----------------------------------------------------------------------------
(* The envelope: PacketSecurity *)

-----------------------------------------------------------------------------
(* The inductive invariant *)

Signatures == [key : {SenderKey, "none"}, flags : SUBSET {"signed", "encrypted"},
               payload : Sent \cup {Dropped}]

PacketType ==
    [type : {p.type : p \in Traffic}, magic_xor : Nat, nonce : Nat,
     flags : SUBSET {"signed", "encrypted", "compressed"}, signature : Signatures,
     body : Sent \cup {Garbled, Undecodable}, payload : Sent, met : SUBSET Thread]

\* The signature of a packet is that of its payload and of the flags it had
\* before it was compressed; a packet that is no punch has its nonce where a
\* receiver looks for it.
WellMade(p) ==
    /\ p \in PacketType
    /\ "signed" \in p.flags =>
          p.signature = [key |-> SenderKey, flags |-> Uncompressed(p), payload |-> p.payload]
    /\ ~IsPunch(p) => p.magic_xor = p.nonce

\* What a race needs: a thread that does not lock, or the one it met.
Excused(p) ==
    p.body # p.payload => \E t \in p.met \cup {p.payload[1]} : t \notin Locked /\ p.met # {}

\* A thread that locks holds the mutex as long as it compresses, so that two
\* of them have never met.
CompressingInv ==
    /\ DOMAIN compressing = Thread /\ DOMAIN met = Thread
    /\ \A t \in Thread : \A p \in compressing[t] :
          WellMade(p) /\ p.payload[1] = t /\ p.body = p.payload /\ ~IsPunch(p)
    /\ \A t \in Locked : compressing[t] # {} => m_networkMutex = t
    /\ \A t \in Thread : met[t] \subseteq Thread /\ (t \in Locked => met[t] \cap Locked = {})

PacketInv ==
    /\ packets \in [Thread -> 0..MaxPackets]
    /\ CompressingInv
    /\ \A p \in net : WellMade(p) /\ Excused(p)
    /\ \A d \in delivered : WellMade(d[1]) /\ ("signed" \in d[1].flags => d[2] = d[1].payload)

\* What the network makes of a packet is no packet that a thread has made.
LEMMA NotSent == Undecodable \notin Sent /\ Garbled \notin Sent /\ Dropped \notin Sent
  BY PacketAssumption DEF Undecodable, Garbled, Dropped, Sent

-----------------------------------------------------------------------------
(* The packets that the operators make *)

\* Whatever the flags are, what PreparePacket makes is well made.
LEMMA PreparedWellMade ==
    ASSUME NEW p \in Traffic, ~IsPunch(p), NEW nonce \in Nonces, NEW flags \in Flags(p.type),
           NEW payload \in Sent
    PROVE  /\ WellMade(Prepared(p.type, nonce, flags, payload))
           /\ Prepared(p.type, nonce, flags, payload).body = payload
           /\ Prepared(p.type, nonce, flags, payload).payload = payload
           /\ ~IsPunch(Prepared(p.type, nonce, flags, payload))
  <1> DEFINE q == Prepared(p.type, nonce, flags, payload)
  <1>1. flags \subseteq {"signed", "encrypted"}
    BY DEF Flags
  <1>2. Signature(flags, payload) \in Signatures
    BY <1>1 DEF Signature, Signatures, NoSignature
  <1>3. q \in PacketType
    BY <1>1, <1>2, PacketAssumption DEF Prepared, PacketType
  <1>4. flags \ {"compressed"} = flags
    BY <1>1
  <1> QED
    BY <1>3, <1>4 DEF Prepared, WellMade, Signature, Uncompressed, IsPunch

\* So is a packet of the punch loop, which is sent as it is.
LEMMA PlainWellMade ==
    ASSUME NEW p \in Traffic, IsPunch(p), NEW nonce \in Nonces, NEW payload \in Sent
    PROVE  /\ WellMade(Plain(p.type, nonce, payload))
           /\ Plain(p.type, nonce, payload).body = payload
           /\ Plain(p.type, nonce, payload).payload = payload
  <1>1. NoSignature \in Signatures
    BY DEF Signatures, NoSignature
  <1>2. Plain(p.type, nonce, payload) \in PacketType
    BY <1>1, PacketAssumption DEF Plain, PacketType
  <1> QED
    BY <1>2 DEF Plain, WellMade, IsPunch

\* A compression leaves all but the body and the flag as it was, and the body
\* too unless another thread has been compressing.
LEMMA CompressedWellMade ==
    ASSUME NEW t \in Thread, NEW p, WellMade(p), p.body = p.payload, ~IsPunch(p),
           NEW sent \in CompressData(t, p)
    PROVE  /\ WellMade(sent)
           /\ sent.payload = p.payload
           /\ sent.body # sent.payload => met[t] # {}
  <1>1. CASE sent = p
    BY <1>1
  <1>2. ASSUME NEW stream \in Sent \cup {Garbled, Undecodable}, sent = Compressed(p, stream)
        PROVE  /\ WellMade(sent)
               /\ sent.payload = p.payload
               /\ sent.body = stream
    <2>1. sent \in PacketType
      BY <1>2 DEF Compressed, PacketType, WellMade
    <2>2. /\ sent.flags = p.flags \cup {"compressed"} /\ sent.body = stream
          /\ sent.type = p.type /\ sent.magic_xor = p.magic_xor /\ sent.nonce = p.nonce
          /\ sent.signature = p.signature /\ sent.payload = p.payload
      BY <1>2 DEF Compressed, PacketType, WellMade
    <2>3. Uncompressed(sent) = Uncompressed(p)
      BY <2>2 DEF Uncompressed
    <2> QED
      BY <2>1, <2>2, <2>3 DEF WellMade, IsPunch
  <1>3. p.payload \in Sent
    BY DEF WellMade, PacketType
  <1>4. CASE sent = Compressed(p, p.payload)
    BY <1>2, <1>3, <1>4
  <1>5. CASE met[t] # {} /\ \E stream \in {Garbled, Undecodable} : sent = Compressed(p, stream)
    BY <1>2, <1>5
  <1> QED
    BY <1>1, <1>4, <1>5 DEF CompressData

\* A receiver that takes a signed packet takes what was signed.
LEMMA TakenAsSigned ==
    ASSUME NEW p, WellMade(p), NEW key, ProcessIncoming(p, key) # Dropped, "signed" \in p.flags
    PROVE  ProcessIncoming(p, key) = p.payload
  <1>1. ProcessIncoming(p, key) = p.body /\ Verifies(p, p.body, key)
    BY DEF ProcessIncoming
  <1>2. p.signature.payload = p.body
    BY <1>1 DEF Verifies
  <1> QED
    BY <1>1, <1>2 DEF WellMade

-----------------------------------------------------------------------------
(* The invariant is inductive *)

\* The invariant holds before the first message.
LEMMA InitInv == EnvelopeInit => PacketInv
  BY PacketAssumption DEF EnvelopeInit, PacketInv, CompressingInv

\* Every step of PreparePacket keeps the invariant.
LEMMA PrepareInv ==
    ASSUME PacketInv, NEW p \in Traffic, ~IsPunch(p), PrepareOutgoing(p.thread, p)
    PROVE  PacketInv'
  <1> DEFINE t == p.thread
             payload == <<t, packets'[t]>>
             others == {o \in Thread : compressing[o] # {}}
  <1>1. t \in Thread /\ compressing[t] = {} /\ packets' = [packets EXCEPT ![t] = @ + 1]
    BY PacketAssumption DEF PrepareOutgoing
  <1>2. packets' \in [Thread -> 0..MaxPackets] /\ packets'[t] \in 1..MaxPackets
    BY <1>1, PacketAssumption DEF PrepareOutgoing, PacketInv
  <1>3. payload \in Sent /\ payload[1] = t
    BY <1>1, <1>2 DEF Sent
  <1>4. delivered' = delivered
    BY DEF PrepareOutgoing
  <1>5. PICK nonce \in Nonces, flags \in Flags(p.type) :
          LET made == Prepared(p.type, nonce, flags, payload)
          IN  IF p.size = "large"
              THEN /\ Acquire(t)
                   /\ compressing' = [compressing EXCEPT ![t] = {made}]
                   /\ met' = [o \in Thread |->
                                IF o = t THEN others
                                ELSE IF o \in others THEN met[o] \cup {t} ELSE met[o]]
                   /\ UNCHANGED net
              ELSE /\ t \in Locked => m_networkMutex = NoThread
                   /\ net' = net \cup {made}
                   /\ UNCHANGED <<m_networkMutex, compressing, met>>
    BY DEF PrepareOutgoing
  <1> DEFINE made == Prepared(p.type, nonce, flags, payload)
  <1>6. WellMade(made) /\ made.body = payload /\ made.payload = payload /\ ~IsPunch(made)
    BY <1>3, PreparedWellMade
  <1> HIDE DEF made, payload
  <1>7. CASE p.size = "large"
    <2>1. /\ Acquire(t) /\ net' = net
          /\ compressing' = [compressing EXCEPT ![t] = {made}]
          /\ met' = [o \in Thread |->
                       IF o = t THEN others
                       ELSE IF o \in others THEN met[o] \cup {t} ELSE met[o]]
      BY <1>5, <1>7 DEF made
    <2>2. \A o \in Thread : \A q \in compressing'[o] :
             WellMade(q) /\ q.payload[1] = o /\ q.body = q.payload /\ ~IsPunch(q)
      BY <1>1, <1>3, <1>6, <2>1 DEF PacketInv, CompressingInv
    <2>3. \A o \in Locked : compressing'[o] # {} => m_networkMutex' = o
      BY <1>1, <2>1, PacketAssumption DEF PacketInv, CompressingInv, Acquire
    <2>4. \A o \in Thread : met'[o] \subseteq Thread /\ (o \in Locked => met'[o] \cap Locked = {})
      <3>1. \A o \in others : ~(o \in Locked /\ t \in Locked)
        BY <1>1, <2>1, PacketAssumption DEF PacketInv, CompressingInv, Acquire
      <3> QED BY <1>1, <2>1, <3>1 DEF PacketInv, CompressingInv
    <2>5. DOMAIN compressing' = Thread /\ DOMAIN met' = Thread
      BY <2>1 DEF PacketInv, CompressingInv
    <2> QED
      BY <1>2, <1>4, <2>1, <2>2, <2>3, <2>4, <2>5 DEF PacketInv, CompressingInv
  <1>8. CASE p.size # "large"
    <2>1. /\ net' = net \cup {made}
          /\ UNCHANGED <<m_networkMutex, compressing, met>>
      BY <1>5, <1>8 DEF made
    <2>2. Excused(made)
      BY <1>6 DEF Excused
    <2> QED
      BY <1>2, <1>4, <1>6, <2>1, <2>2 DEF PacketInv, CompressingInv
  <1> QED
    BY <1>7, <1>8

\* Sending what was compressed keeps the invariant.
LEMMA SendCompressedInv ==
    ASSUME PacketInv, NEW t \in Thread, SendCompressed(t)
    PROVE  PacketInv'
  <1>1. PICK made \in compressing[t] : \E sent \in CompressData(t, made) :
          net' = net \cup {[sent EXCEPT !.met = met[t]]}
    BY DEF SendCompressed
  <1>2. PICK sent \in CompressData(t, made) : net' = net \cup {[sent EXCEPT !.met = met[t]]}
    BY <1>1
  <1> DEFINE q == [sent EXCEPT !.met = met[t]]
  <1>3. WellMade(made) /\ made.payload[1] = t /\ made.body = made.payload /\ ~IsPunch(made)
    BY DEF PacketInv, CompressingInv
  <1>4. WellMade(sent) /\ sent.payload = made.payload /\ (sent.body # sent.payload => met[t] # {})
    BY <1>3, CompressedWellMade
  <1>5. met[t] \subseteq Thread /\ (t \in Locked => met[t] \cap Locked = {})
    BY DEF PacketInv, CompressingInv
  <1>6. q \in PacketType /\ q.met = met[t] /\ q.body = sent.body /\ q.payload = sent.payload
    BY <1>4, <1>5 DEF WellMade, PacketType
  <1>7. WellMade(q)
    BY <1>4, <1>6 DEF WellMade, PacketType, IsPunch, Uncompressed
  <1>8. Excused(q)
    BY <1>3, <1>4, <1>5, <1>6 DEF Excused
  <1>9. /\ compressing' = [compressing EXCEPT ![t] = {}]
        /\ met' = [met EXCEPT ![t] = {}]
        /\ Release(t)
        /\ UNCHANGED <<packets, delivered>>
    BY DEF SendCompressed
  <1>10. CompressingInv'
    BY <1>9, PacketAssumption DEF PacketInv, CompressingInv, Release
  <1> QED
    BY <1>2, <1>7, <1>8, <1>9, <1>10 DEF PacketInv

\* Sending what was not compressed keeps the invariant.
LEMMA SendPlainInv ==
    ASSUME PacketInv, NEW p \in Traffic, IsPunch(p), SendPlain(p.thread, p)
    PROVE  PacketInv'
  <1> DEFINE t == p.thread
             payload == <<t, packets'[t]>>
  <1>1. t \in Thread /\ packets' = [packets EXCEPT ![t] = @ + 1]
    BY PacketAssumption DEF SendPlain
  <1>2. packets' \in [Thread -> 0..MaxPackets] /\ packets'[t] \in 1..MaxPackets
    BY <1>1, PacketAssumption DEF SendPlain, PacketInv
  <1>3. payload \in Sent
    BY <1>1, <1>2 DEF Sent
  <1>4. PICK nonce \in Nonces : net' = net \cup {Plain(p.type, nonce, payload)}
    BY DEF SendPlain
  <1>5. WellMade(Plain(p.type, nonce, payload)) /\ Excused(Plain(p.type, nonce, payload))
    BY <1>3, PlainWellMade DEF Excused
  <1>6. UNCHANGED <<m_networkMutex, compressing, met, delivered>>
    BY DEF SendPlain
  <1> QED
    BY <1>2, <1>4, <1>5, <1>6 DEF PacketInv, CompressingInv

\* Receiving keeps the invariant.
LEMMA ReceiveInv ==
    ASSUME PacketInv, NEW made \in net, NEW key \in PublicKeys, ReceiveEnvelope(made, key)
    PROVE  PacketInv'
  <1>1. WellMade(made)
    BY DEF PacketInv
  <1>2. "signed" \in made.flags => ProcessIncoming(made, key) = made.payload
    BY <1>1, TakenAsSigned DEF ReceiveEnvelope
  <1>3. /\ delivered' = delivered \cup {<<made, ProcessIncoming(made, key)>>}
        /\ UNCHANGED <<m_networkMutex, packets, compressing, met, net>>
    BY DEF ReceiveEnvelope
  <1> QED
    BY <1>1, <1>2, <1>3 DEF PacketInv, CompressingInv

\* Every step of every thread keeps the invariant.
LEMMA StepInv == PacketInv /\ [EnvelopeNext]_envelopeVars => PacketInv'
  <1> SUFFICES ASSUME PacketInv, [EnvelopeNext]_envelopeVars PROVE PacketInv'
    OBVIOUS
  <1>1. ASSUME NEW t \in Thread, SendCompressed(t) PROVE PacketInv'
    BY <1>1, SendCompressedInv
  <1>2. ASSUME NEW p \in Traffic, ~IsPunch(p), PrepareOutgoing(p.thread, p) PROVE PacketInv'
    BY <1>2, PrepareInv
  <1>3. ASSUME NEW p \in Traffic, IsPunch(p), SendPlain(p.thread, p) PROVE PacketInv'
    BY <1>3, SendPlainInv
  <1>4. ASSUME NEW made \in net, NEW key \in PublicKeys, ReceiveEnvelope(made, key) PROVE PacketInv'
    BY <1>4, ReceiveInv
  <1>5. CASE UNCHANGED envelopeVars
    BY <1>5 DEF PacketInv, CompressingInv, envelopeVars
  <1> QED
    BY <1>1, <1>2, <1>3, <1>4, <1>5 DEF EnvelopeNext

-----------------------------------------------------------------------------
(* Theorems *)

\* Every packet is well made, whatever race its compression was in.
THEOREM PacketsWellMade == EnvelopeSpec => []PacketInv
  BY InitInv, StepInv, PTL DEF EnvelopeSpec

\* A signed packet is delivered as it was signed or not at all.
THEOREM SignedStayIntact == EnvelopeSpec => []SignedIntact
  <1>1. PacketInv => SignedIntact
    BY DEF PacketInv, SignedIntact
  <1> QED BY <1>1, PacketsWellMade, PTL

\* A packet that no race has touched is taken by whoever has its sender's key.
THEOREM PreparedAreTaken == EnvelopeSpec => []PreparedIsTaken
  <1>1. PacketInv => PreparedIsTaken
    <2> SUFFICES ASSUME PacketInv, NEW p \in net, ~IsPunch(p), p.body = p.payload
                 PROVE  ProcessIncoming(p, SenderKey) = p.payload
      BY DEF PreparedIsTaken
    <2>1. WellMade(p)
      BY DEF PacketInv
    <2>2. p.body # Undecodable
      BY <2>1, NotSent DEF WellMade, PacketType
    <2> QED BY <2>1, <2>2 DEF ProcessIncoming, Verifies, WellMade
  <1> QED BY <1>1, PacketsWellMade, PTL

\* Only a thread that does not take m_networkMutex can harm a packet.
THEOREM OnlyUnlockedHarm == EnvelopeSpec => []HarmNeedsUnlocked
  <1>1. PacketInv => HarmNeedsUnlocked
    BY DEF PacketInv, HarmNeedsUnlocked, Excused
  <1> QED BY <1>1, PacketsWellMade, PTL

-----------------------------------------------------------------------------
(* Neither the compressor nor the decompressor leaves its buffers: MiniLZO *)

\* lzo1x_decompress_safe is called with any bytes and any size.
DecompressInit ==
    /\ label = "begin"
    /\ packet \in Seq(0..255) /\ size \in Nat
    /\ rp = 0 /\ dec = <<>> /\ status = "none"

DecompressSpec == DecompressInit /\ [][Decode]_<<label, decompressorVars>>

-------------------------------------------------------------------------------
(* The inductive invariant                                                   *)

\* Where a match is read, the three bytes of the shortest end code are left:
\* what the tests of NEED_IP leave for the reads that have no test.  Behind a
\* match are the bytes of its code, to which match_done goes back.
Labels == {"begin", "loop", "first_literal_run", "match", "match_done", "done"}

DecodeInv ==
    /\ packet \in Seq(0..255) /\ size \in Nat
    /\ rp \in Nat /\ dec \in Seq(0..255)
    /\ label \in Labels
    /\ rp <= Len(packet) /\ Len(dec) <= size
    /\ label \in {"first_literal_run", "match"} => rp + 3 <= Len(packet)
    /\ label = "match_done" => rp >= 2

-------------------------------------------------------------------------------
(* Lemmas                                                                    *)

\* What stands after the first i elements.
LEMMA ElementOf ==
    ASSUME NEW S, NEW s \in Seq(S), NEW i \in Nat, i < Len(s)
    PROVE  s[i + 1] \in S
  OBVIOUS

\* n elements after the first i.
LEMMA SliceOf ==
    ASSUME NEW S, NEW s \in Seq(S), NEW i \in Nat, NEW n \in Nat, i + n <= Len(s)
    PROVE  Slice(s, i, i + n) \in Seq(S) /\ Len(Slice(s, i, i + n)) = n
  <1>1. \A j \in (i + 1)..(i + n) : s[j] \in S
    OBVIOUS
  <1> QED BY <1>1, SubSeqProperties DEF Slice

\* The copy of a match has its length, and is made of what was written before.
LEMMA CopyOfSeq ==
    ASSUME NEW S, NEW s \in Seq(S), NEW m_off \in 1..Len(s), NEW len \in Nat
    PROVE  CopyOf(s, m_off, len) \in Seq(S) /\ Len(CopyOf(s, m_off, len)) = len
  <1>1. ASSUME NEW k \in 1..len
        PROVE  s[Len(s) - m_off + 1 + ((k - 1) % m_off)] \in S
    <2>1. (k - 1) % m_off \in 0..(m_off - 1)
      OBVIOUS
    <2>2. Len(s) - m_off + 1 + ((k - 1) % m_off) \in 1..Len(s)
      BY <2>1
    <2> QED BY <2>2
  <1> QED BY <1>1 DEF CopyOf

\* A sequence with another one behind it.
LEMMA Extended ==
    ASSUME NEW S, NEW s \in Seq(S), NEW t \in Seq(S)
    PROVE  s \o t \in Seq(S) /\ Len(s \o t) = Len(s) + Len(t)
  BY ConcatProperties

\* The offsets and the lengths that two bytes can hold.
LEMMA LiteralsOf == \A a \in 0..255 : a + 3 \in Nat
  OBVIOUS

\* The literals at the start of a stream are none or more.
LEMMA FirstLiteralsOf == \A a \in 0..255 : ~(a <= 17) => a - 17 \in Nat
  OBVIOUS

\* The literals after a match are none or more.
LEMMA FewLiteralsOf == \A a \in 0..255 : a % 4 \in Nat
  OBVIOUS

\* The offset of a short match after literals is positive.
LEMMA NearOffsetOf == \A a, b \in 0..255 : 1 + a \div 4 + b * 4 \in Nat \ {0}
  OBVIOUS

\* The offset of a match after a first run of literals is positive.
LEMMA FirstOffsetOf ==
    \A a, b \in 0..255 : 1 + M2_MAX_OFFSET + a \div 4 + b * 4 \in Nat \ {0}
  BY MiniLZOAssumption

\* The offset of a match of two bytes is positive.
LEMMA M2OffsetOf == \A a, b \in 0..255 : 1 + ((a \div 4) % 8) + b * 8 \in Nat \ {0}
  OBVIOUS

\* The length in a match of two bytes is none or more.
LEMMA M2LengthOf == \A a \in 0..255 : a \div 32 + 1 \in Nat
  OBVIOUS

\* The base of a far offset is none or more.
LEMMA M4BaseOf == \A a \in 0..255 : ((a \div 8) % 2) * 16384 \in Nat
  OBVIOUS

\* The offset of a match of three bytes or more is none or more.
LEMMA FarOffsetOf ==
    \A base \in Nat, a, b \in 0..255 : base + a \div 4 + b * 64 \in Nat
  OBVIOUS

\* A length over several bytes is no less than its base.
LEMMA LongLengthOf ==
    ASSUME NEW z \in Nat, NEW base \in Nat, NEW b \in 0..255
    PROVE  255 * z + base + b \in Nat /\ 255 * z + base + b >= base
  OBVIOUS

\* What is read from the input is a byte.
LEMMA AtByte ==
    ASSUME packet \in Seq(0..255), NEW i \in Nat
    PROVE  At(i) \in 0..255
  <1>1. CASE i < Len(packet)
    <2>1. packet[i + 1] \in 0..255
      BY <1>1, ElementOf
    <2> QED BY <1>1, <2>1 DEF At
  <1>2. CASE ~(i < Len(packet))
    BY <1>2 DEF At
  <1> QED BY <1>1, <1>2

\* Every length that is read is none or more.
LEMMA LengthAtNat ==
    ASSUME packet \in Seq(0..255), NEW i \in Nat, NEW base \in Nat, NEW l \in LengthAt(i, base)
    PROVE  l.t \in Nat /\ l.t >= base /\ l.end \in Nat
  <1>1. PICK z \in ZerosFrom(i) : l = [t |-> 255 * z + base + At(i + z), end |-> i + z + 1]
    BY DEF LengthAt
  <1>2. z \in Nat
    BY DEF ZerosFrom
  <1>3. At(i + z) \in 0..255
    BY <1>2, AtByte
  <1>4. 255 * z + base + At(i + z) \in Nat /\ 255 * z + base + At(i + z) >= base
    BY <1>2, <1>3, LongLengthOf, ZenonT(30)
  <1> QED BY <1>1, <1>2, <1>4

\* Returning, for whatever reason, keeps the invariant.
LEMMA ReturnInv ==
    ASSUME DecodeInv, NEW result, Return(result), UNCHANGED <<packet, size>>
    PROVE  DecodeInv'
  BY DEF DecodeInv, Return, Labels

\* Literals are taken only if they and the three bytes after them are there.
LEMMA TakeLiteralsInv ==
    ASSUME DecodeInv, NEW i \in Nat, NEW n \in Nat, NEW then \in Labels \ {"match_done"},
           TakeLiterals(i, n, then), UNCHANGED <<packet, size>>
    PROVE  DecodeInv'
  <1>1. CASE Len(dec) + n > size
    BY <1>1, ReturnInv DEF TakeLiterals
  <1>2. CASE ~(Len(dec) + n > size) /\ i + n + 3 > Len(packet)
    BY <1>2, ReturnInv DEF TakeLiterals
  <1>3. CASE ~(Len(dec) + n > size) /\ ~(i + n + 3 > Len(packet))
    <2> DEFINE run == Slice(packet, i, i + n)
    <2>1. /\ dec' = dec \o run
          /\ rp' = i + n
          /\ label' = then
      BY <1>3 DEF TakeLiterals
    <2>2. packet \in Seq(0..255) /\ Len(packet) \in Nat /\ Len(dec) \in Nat
      BY DEF DecodeInv
    <2>3. run \in Seq(0..255) /\ Len(run) = n
      <3>1. i + n <= Len(packet)
        BY <1>3, <2>2
      <3> QED BY <2>2, <3>1, SliceOf
    <2> HIDE DEF run
    <2>4. dec' \in Seq(0..255) /\ Len(dec') = Len(dec) + n
      BY <2>1, <2>3, Extended, ZenonT(30) DEF DecodeInv
    <2>5. rp' \in Nat /\ rp' <= Len(packet) /\ Len(dec') <= size
      BY <1>3, <2>1, <2>2, <2>4 DEF DecodeInv
    <2>6. rp' + 3 <= Len(packet)
      BY <1>3, <2>1, <2>2
    <2>7. label' = "match_done" => rp' >= 2
      BY <2>1
    <2> QED BY <2>1, <2>4, <2>5, <2>6, <2>7 DEF DecodeInv
  <1> QED BY <1>1, <1>2, <1>3

\* A match is copied only from what is there and to where there is room.
LEMMA CopyMatchInv ==
    ASSUME DecodeInv, NEW m_off \in Nat \ {0}, NEW len \in Nat, NEW end \in Nat,
           end >= 2, end <= Len(packet),
           CopyMatch(m_off, len, end), UNCHANGED <<packet, size>>
    PROVE  DecodeInv'
  <1>1. CASE m_off > Len(dec)
    BY <1>1, ReturnInv DEF CopyMatch
  <1>2. CASE ~(m_off > Len(dec)) /\ Len(dec) + len > size
    BY <1>2, ReturnInv DEF CopyMatch
  <1>3. CASE ~(m_off > Len(dec)) /\ ~(Len(dec) + len > size)
    <2> DEFINE copy == CopyOf(dec, m_off, len)
    <2>1. /\ dec' = dec \o copy
          /\ rp' = end
          /\ label' = "match_done"
      BY <1>3 DEF CopyMatch
    <2>2. dec \in Seq(0..255) /\ Len(dec) \in Nat
      BY DEF DecodeInv
    <2>3. m_off \in 1..Len(dec)
      BY <1>3, <2>2
    <2>4. copy \in Seq(0..255) /\ Len(copy) = len
      BY <2>2, <2>3, CopyOfSeq
    <2> HIDE DEF copy
    <2>5. dec' \in Seq(0..255) /\ Len(dec') = Len(dec) + len
      BY <2>1, <2>2, <2>4, Extended, ZenonT(30)
    <2> QED BY <1>3, <2>1, <2>2, <2>5 DEF DecodeInv, Labels
  <1> QED BY <1>1, <1>2, <1>3

-------------------------------------------------------------------------------
(* Steps                                                                     *)

\* The first byte keeps the invariant.
LEMMA BeginInv == ASSUME DecodeInv, Begin PROVE DecodeInv'
  <1> USE DEF Labels
  <1>1. UNCHANGED <<packet, size>> /\ At(0) \in 0..255 /\ Len(packet) \in Nat
    BY AtByte DEF Begin, DecodeInv
  <1>2. CASE Len(packet) < 1
    BY <1>1, <1>2, ReturnInv DEF Begin
  <1>3. CASE ~(Len(packet) < 1) /\ At(0) <= 17
    BY <1>1, <1>3 DEF Begin, DecodeInv
  <1>4. CASE ~(Len(packet) < 1) /\ ~(At(0) <= 17) /\ At(0) - 17 < 4
    <2>1. TakeLiterals(1, At(0) - 17, "match")
      BY <1>4 DEF Begin
    <2>2. At(0) - 17 \in Nat
      BY <1>1, <1>4, FirstLiteralsOf, Zenon
    <2> QED BY <1>1, <2>1, <2>2, TakeLiteralsInv
  <1>5. CASE ~(Len(packet) < 1) /\ ~(At(0) <= 17) /\ ~(At(0) - 17 < 4)
    <2>1. TakeLiterals(1, At(0) - 17, "first_literal_run")
      BY <1>5 DEF Begin
    <2>2. At(0) - 17 \in Nat
      BY <1>1, <1>5, FirstLiteralsOf, Zenon
    <2> QED BY <1>1, <2>1, <2>2, TakeLiteralsInv
  <1> QED BY <1>2, <1>3, <1>4, <1>5

\* A run of literals keeps the invariant.
LEMMA LiteralRunInv == ASSUME DecodeInv, LiteralRun PROVE DecodeInv'
  <1> USE DEF Labels
  <1>1. UNCHANGED <<packet, size>> /\ At(rp) \in 0..255 /\ Len(packet) \in Nat /\ rp \in Nat
    BY AtByte DEF LiteralRun, DecodeInv
  <1>2. CASE rp + 3 > Len(packet)
    BY <1>1, <1>2, ReturnInv DEF LiteralRun
  <1>3. CASE ~(rp + 3 > Len(packet)) /\ At(rp) >= 16
    BY <1>1, <1>3 DEF LiteralRun, DecodeInv
  <1>4. CASE ~(rp + 3 > Len(packet)) /\ ~(At(rp) >= 16) /\ At(rp) > 0
    <2>1. TakeLiterals(rp + 1, At(rp) + 3, "first_literal_run")
      BY <1>4 DEF LiteralRun
    <2>2. rp + 1 \in Nat /\ At(rp) + 3 \in Nat
      <3>1. rp + 1 \in Nat
        BY <1>1
      <3> QED BY <1>1, <3>1, LiteralsOf, Zenon
    <2> QED BY <1>1, <2>1, <2>2, TakeLiteralsInv
  <1>5. CASE ~(rp + 3 > Len(packet)) /\ ~(At(rp) >= 16) /\ ~(At(rp) > 0)
    <2>1. PICK long \in LengthAt(rp + 1, 15) :
            IF long.end > Len(packet) THEN Return("input_overrun")
            ELSE TakeLiterals(long.end, long.t + 3, "first_literal_run")
      BY <1>5 DEF LiteralRun
    <2>2. long.t + 3 \in Nat /\ long.end \in Nat
      BY <1>1, LengthAtNat DEF DecodeInv
    <2> QED BY <1>1, <2>1, <2>2, ReturnInv, TakeLiteralsInv
  <1> QED BY <1>2, <1>3, <1>4, <1>5

\* The first run of literals keeps the invariant.
LEMMA FirstLiteralRunInv == ASSUME DecodeInv, FirstLiteralRun PROVE DecodeInv'
  <1> USE DEF Labels
  <1>1. /\ UNCHANGED <<packet, size>> /\ At(rp) \in 0..255 /\ At(rp + 1) \in 0..255
        /\ Len(packet) \in Nat /\ rp \in Nat /\ rp + 3 <= Len(packet)
    BY AtByte DEF FirstLiteralRun, DecodeInv
  <1>2. CASE At(rp) >= 16
    BY <1>1, <1>2 DEF FirstLiteralRun, DecodeInv
  <1>3. CASE ~(At(rp) >= 16)
    <2> DEFINE m_off == 1 + M2_MAX_OFFSET + At(rp) \div 4 + At(rp + 1) * 4
    <2>1. CopyMatch(m_off, 3, rp + 2)
      BY <1>3 DEF FirstLiteralRun
    <2>2. m_off \in Nat \ {0}
      BY <1>1, FirstOffsetOf, Zenon
    <2> HIDE DEF m_off
    <2> QED BY <1>1, <2>1, <2>2, CopyMatchInv
  <1> QED BY <1>2, <1>3

\* A match, with the literals behind it, keeps the invariant once its offset is positive.
LEMMA FarMatchInv ==
    ASSUME DecodeInv, rp + 3 <= Len(packet), NEW t \in 0..255, NEW mask \in {7, 31},
           NEW base \in Nat, NEW nearest \in Nat,
           FarMatch(t, mask, base, nearest), UNCHANGED <<packet, size>>
    PROVE  DecodeInv'
  <1>1. rp \in Nat /\ Len(packet) \in Nat
    BY DEF DecodeInv
  <1> DEFINE short == t % (mask + 1)
             Lengths == IF short = 0 THEN LengthAt(rp + 1, mask)
                        ELSE {[t |-> short, end |-> rp + 1]}
             Offset(i) == base + At(i) \div 4 + At(i + 1) * 64
  <1>2. PICK length \in Lengths :
          IF short = 0 /\ length.end + 2 > Len(packet) THEN Return("input_overrun")
          ELSE IF Offset(length.end) = 0 THEN EofFound(length.end + 2)
          ELSE CopyMatch(Offset(length.end) + nearest, length.t + 2, length.end + 2)
    BY DEF FarMatch
  <1>3. short \in Nat
    OBVIOUS
  <1>4. packet \in Seq(0..255)
    BY DEF DecodeInv
  <1> HIDE DEF short, Offset
  <1>5. length.t \in Nat /\ length.end \in Nat /\ (short # 0 => length.end + 2 <= Len(packet))
    <2>1. CASE short = 0
      <3>1. length \in LengthAt(rp + 1, mask)
        BY <2>1
      <3>2. mask \in Nat /\ rp + 1 \in Nat
        BY <1>1
      <3>3. length.t \in Nat /\ length.end \in Nat
        BY <1>4, <3>1, <3>2, LengthAtNat
      <3> QED BY <2>1, <3>3
    <2>2. CASE short # 0
      <3>1. length = [t |-> short, end |-> rp + 1]
        BY <2>2
      <3> QED BY <1>1, <1>3, <3>1
    <2> QED BY <2>1, <2>2
  <1> HIDE DEF Lengths
  <1>6. CASE short = 0 /\ length.end + 2 > Len(packet)
    BY <1>2, <1>6, ReturnInv
  <1>7. CASE ~(short = 0 /\ length.end + 2 > Len(packet))
    <2>1. length.end + 2 <= Len(packet)
      BY <1>1, <1>5, <1>7
    <2>2. Offset(length.end) \in Nat
      <3>1. At(length.end) \in 0..255 /\ At(length.end + 1) \in 0..255
        <4>1. length.end + 1 \in Nat /\ packet \in Seq(0..255)
          BY <1>4, <1>5
        <4> QED BY <1>5, <4>1, AtByte
      <3> QED BY <3>1, FarOffsetOf, Zenon DEF Offset
    <2>3. CASE Offset(length.end) = 0
      <3>1. EofFound(length.end + 2)
        BY <1>2, <1>7, <2>3
      <3> QED BY <1>5, <2>1, <3>1, SMTT(30) DEF EofFound, DecodeInv, Labels
    <2>4. CASE Offset(length.end) # 0
      <3>1. CopyMatch(Offset(length.end) + nearest, length.t + 2, length.end + 2)
        BY <1>2, <1>7, <2>4
      <3>2. Offset(length.end) + nearest \in Nat \ {0}
        BY <2>2, <2>4
      <3> DEFINE m_off == Offset(length.end) + nearest
                 len == length.t + 2
                 end == length.end + 2
      <3>3. CopyMatch(m_off, len, end)
        BY <3>1
      <3>4. len \in Nat /\ end \in Nat /\ end >= 2 /\ end <= Len(packet) /\ m_off \in Nat \ {0}
        <4>1. len \in Nat /\ end \in Nat /\ end >= 2
          BY <1>5
        <4> QED BY <2>1, <3>2, <4>1
      <3> HIDE DEF m_off, len, end
      <3> QED BY <3>3, <3>4, CopyMatchInv
    <2> QED BY <2>3, <2>4
  <1> QED BY <1>6, <1>7

\* Every kind of match keeps the invariant.
LEMMA MatchInv == ASSUME DecodeInv, Match PROVE DecodeInv'
  <1>1. /\ UNCHANGED <<packet, size>> /\ At(rp) \in 0..255 /\ At(rp + 1) \in 0..255
        /\ Len(packet) \in Nat /\ rp \in Nat /\ rp + 3 <= Len(packet)
    BY AtByte DEF Match, DecodeInv
  <1>2. rp + 2 \in Nat /\ rp + 2 <= Len(packet)
    BY <1>1
  <1> DEFINE t == At(rp)
             near == At(rp + 1)
  <1>3. CASE t >= 64
    <2> DEFINE m_off == 1 + ((t \div 4) % 8) + near * 8
               len == t \div 32 + 1
    <2>1. CopyMatch(m_off, len, rp + 2)
      BY <1>3 DEF Match
    <2>2. m_off \in Nat \ {0} /\ len \in Nat
      BY <1>1, M2OffsetOf, M2LengthOf, Zenon
    <2> HIDE DEF m_off, len
    <2> QED BY <1>1, <1>2, <2>1, <2>2, CopyMatchInv
  <1>4. CASE ~(t >= 64) /\ t >= 32
    <2>1. FarMatch(t, 31, 1, 0)
      BY <1>4 DEF Match
    <2> QED BY <1>1, <2>1, FarMatchInv
  <1>5. CASE ~(t >= 64) /\ ~(t >= 32) /\ t >= 16
    <2> DEFINE base == ((t \div 8) % 2) * 16384
    <2>1. FarMatch(t, 7, base, M3_MAX_OFFSET)
      BY <1>5 DEF Match
    <2>2. base \in Nat
      <3>1. t \in 0..255
        BY <1>1
      <3> HIDE DEF t
      <3> QED BY <3>1, M4BaseOf
    <2> HIDE DEF base
    <2> QED BY <1>1, <2>1, <2>2, FarMatchInv, MiniLZOAssumption
  <1>6. CASE ~(t >= 64) /\ ~(t >= 32) /\ ~(t >= 16)
    <2> DEFINE m_off == 1 + t \div 4 + near * 4
    <2>1. CopyMatch(m_off, 2, rp + 2)
      BY <1>6 DEF Match
    <2>2. m_off \in Nat \ {0}
      BY <1>1, NearOffsetOf, Zenon
    <2> HIDE DEF m_off
    <2> QED BY <1>1, <1>2, <2>1, <2>2, CopyMatchInv
  <1> QED BY <1>3, <1>4, <1>5, <1>6

\* The literals after a match are counted in a byte that has been read.
LEMMA MatchDoneInv == ASSUME DecodeInv, MatchDone PROVE DecodeInv'
  <1>1. UNCHANGED <<packet, size>> /\ rp \in Nat
    BY DEF MatchDone, DecodeInv
  <1> DEFINE t == At(rp - 2) % 4
  <1>2. CASE t = 0
    BY <1>1, <1>2 DEF MatchDone, DecodeInv, Labels
  <1>3. CASE t # 0
    <2>1. TakeLiterals(rp, t, "match")
      BY <1>3 DEF MatchDone
    <2>2. t \in Nat
      <3>1. rp - 2 \in Nat /\ packet \in Seq(0..255)
        BY DEF MatchDone, DecodeInv
      <3>2. At(rp - 2) \in 0..255
        BY <3>1, AtByte
      <3> QED BY <3>2, FewLiteralsOf, Zenon
    <2> HIDE DEF t
    <2> QED BY <1>1, <2>1, <2>2, TakeLiteralsInv DEF Labels
  <1> QED BY <1>2, <1>3

-------------------------------------------------------------------------------
(* Theorems                                                                  *)

\* What the decompressor knows at each of its labels.
THEOREM DecodeTypeOK == DecompressSpec => []DecodeInv
  <1>1. DecompressInit => DecodeInv
    BY DEF DecompressInit, DecodeInv, Labels
  <1>2. DecodeInv /\ [Decode]_<<label, decompressorVars>> => DecodeInv'
    <2> SUFFICES ASSUME DecodeInv, [Decode]_<<label, decompressorVars>> PROVE DecodeInv'
      OBVIOUS
    <2>1. CASE Decode
      BY <2>1, BeginInv, LiteralRunInv, FirstLiteralRunInv, MatchInv, MatchDoneInv DEF Decode
    <2>2. CASE UNCHANGED <<label, decompressorVars>>
      BY <2>2 DEF decompressorVars, DecodeInv
    <2> QED BY <2>1, <2>2
  <1> QED BY <1>1, <1>2, PTL DEF DecompressSpec

\* No byte string, of whatever length and with whatever size its header
\* promises, makes the decompressor read beyond its end or write beyond the
\* size, for all values of the offsets of the format.
THEOREM DecompressStaysInBounds == DecompressSpec => []StaysInBounds
  <1>1. DecodeInv => StaysInBounds
    BY DEF DecodeInv, StaysInBounds
  <1> QED BY <1>1, DecodeTypeOK, PTL

-------------------------------------------------------------------------------
(* The compressor stays within the buffer of CompressData                    *)

\* The input that is encoded, before the first byte that is not.
Encoded == IF label \in {"idle", "block"} THEN block.end - ti ELSE ii - ti

CompressLabels == {"idle", "block", "literal", "next", "compressed"}

\* What the compressor has written is at most 17/16 of what it has encoded: a
\* match is a byte shorter than what it stands for, and pays for the one byte of
\* a run of up to eighteen literals; a longer run pays for its own.
CompressInv ==
    /\ WritesFit
    /\ in \in Seq(0..255) /\ out \in Seq(Int) /\ top \in Nat
    /\ label \in CompressLabels \cup Labels
    /\ label \in CompressLabels \ {"compressed"} =>
          /\ block.from \in Nat /\ block.end \in Nat
          /\ ti \in Nat /\ ii \in Nat /\ ip \in Nat
          /\ dict \in [0..(D_SIZE - 1) -> Nat]
          /\ 16 * Len(out) =< 17 * Encoded
    /\ label = "idle" => ti = 0 /\ top = 0 /\ block = NoBlock
    /\ label \in {"block", "literal", "next"} => block.end =< Len(in)
    /\ label \in {"literal", "next"} => ii =< ip /\ ii =< block.end /\ block.from =< block.end

\* DINDEX masks its hash of four bytes with D_MASK.
HashesFit == \A bytes \in Seq(0..255) : Len(bytes) = 4 => DINDEX(bytes) \in 0..(D_SIZE - 1)

\* A length over its marker's range takes a byte for each 255, and one more.
LEMMA LongLengthOfNat ==
    ASSUME NEW n \in Nat \ {0}
    PROVE  LongLength(n) \in Seq(Int) /\ Len(LongLength(n)) = (n - 1) \div 255 + 1
  <1> DEFINE q == (n - 1) \div 255
             zeros == [k \in 1..q |-> 0]
             rest == <<n - 255 * q>>
  <1>1. q \in Nat
    OBVIOUS
  <1> HIDE DEF q
  <1>2. zeros \in Seq(Int) /\ Len(zeros) = q
    BY <1>1
  <1>3. rest \in Seq(Int) /\ Len(rest) = 1
    BY <1>1
  <1> HIDE DEF zeros, rest
  <1>4. zeros \o rest \in Seq(Int) /\ Len(zeros \o rest) = q + 1
    BY <1>2, <1>3, Extended
  <1> QED BY <1>4 DEF LongLength, q, zeros, rest

\* What a run of literals adds to the output: up to one byte, and up to a
\* sixteenth of its length; and how far its copies run ahead.
LEMMA LiteralsOfRun ==
    ASSUME NEW o \in Seq(Int), NEW run \in Seq(Int)
    PROVE  /\ Literals(o, run) \in Seq(Int)
           /\ 16 * Len(Literals(o, run)) =< 16 * (Len(o) + Len(run) + 1) + Len(run)
           /\ CopyEnd(o, run) \in Int
           /\ CopyEnd(o, run) =< Len(o) + 17 \/ CopyEnd(o, run) =< Len(Literals(o, run))
  <1> DEFINE t == Len(run)
             last == Len(o) - 1
             v == (o[last] - (o[last] % 4)) + Or2(o[last] % 4, t)
  <1>0. t \in Nat /\ Len(o) \in Nat
    OBVIOUS
  <1>1. CASE t = 0
    <2>1. Literals(o, run) = o /\ CopyEnd(o, run) = Len(o)
      BY <1>1 DEF Literals, CopyEnd
    <2> QED BY <1>0, <1>1, <2>1
  <1>2. CASE t \in 1..3
    <2>0. /\ Len(run) # 0 /\ Len(run) \in 1..3
          /\ Len(run) \notin 4..18 /\ Len(run) \notin 4..16
      <3>1. t # 0 /\ t \in 1..3 /\ t \notin 4..18 /\ t \notin 4..16
        <4> HIDE DEF t
        <4> QED BY <1>2
      <3> QED BY <3>1
    <2>1. Literals(o, run) = [o EXCEPT ![last] = v] \o run
      BY <2>0, Zenon DEF Literals
    <2>2. [o EXCEPT ![last] = v] \in Seq(Int) /\ Len([o EXCEPT ![last] = v]) = Len(o)
      <3>1. CASE last \in DOMAIN o
        <4>1. o[last] \in Int /\ Or2(o[last] % 4, t) \in Int
          BY <3>1 DEF Or2
        <4>2. v \in Int
          BY <4>1
        <4> HIDE DEF v
        <4> QED BY <3>1, <4>2
      <3>2. CASE last \notin DOMAIN o
        <4>1. [o EXCEPT ![last] = v] = o
          BY <3>2
        <4> QED BY <4>1
      <3> QED BY <3>1, <3>2
    <2> HIDE DEF v, last
    <2>3. Literals(o, run) \in Seq(Int) /\ Len(Literals(o, run)) = Len(o) + t
      BY <2>1, <2>2, Extended
    <2>4. CopyEnd(o, run) = Len(Literals(o, run)) - t + 4
      BY <2>0, Zenon DEF CopyEnd
    <2> QED BY <1>0, <1>2, <2>3, <2>4
  <1>3. CASE t \in 4..18
    <2>1. Literals(o, run) = o \o <<t - 3>> \o run
      BY <1>3 DEF Literals
    <2>2. <<t - 3>> \in Seq(Int) /\ Len(<<t - 3>>) = 1
      BY <1>0
    <2>3. o \o <<t - 3>> \in Seq(Int) /\ Len(o \o <<t - 3>>) = Len(o) + 1
      BY <2>2, Extended
    <2>4. Literals(o, run) \in Seq(Int) /\ Len(Literals(o, run)) = Len(o) + 1 + t
      BY <2>1, <2>3, Extended
    <2>5. CASE t \in 4..16
      <3>1. CopyEnd(o, run) = Len(Literals(o, run)) - t + 16
        BY <2>5 DEF CopyEnd
      <3> QED BY <1>0, <2>4, <2>5, <3>1
    <2>6. CASE t \in 17..18
      <3>0. Len(run) # 0 /\ Len(run) \notin 1..3 /\ Len(run) \notin 4..16
        <4>1. t # 0 /\ t \notin 1..3 /\ t \notin 4..16
          <5> HIDE DEF t
          <5> QED BY <2>6
        <4> QED BY <4>1
      <3>1. CopyEnd(o, run) = Len(Literals(o, run)) - t + t
        BY <3>0, Zenon DEF CopyEnd
      <3> QED BY <1>0, <2>4, <2>6, <3>1
    <2> QED BY <1>3, <2>5, <2>6
  <1>4. CASE t > 18
    <2>0. /\ Len(run) # 0 /\ Len(run) \notin 1..3
          /\ Len(run) \notin 4..18 /\ Len(run) \notin 4..16
      <3>1. t # 0 /\ t \notin 1..3 /\ t \notin 4..18 /\ t \notin 4..16
        <4> HIDE DEF t
        <4> QED BY <1>0, <1>4
      <3> QED BY <3>1
    <2>1. Literals(o, run) = o \o <<0>> \o LongLength(t - 18) \o run
      BY <2>0, Zenon DEF Literals
    <2>2. /\ LongLength(t - 18) \in Seq(Int)
          /\ Len(LongLength(t - 18)) = (t - 19) \div 255 + 1
      <3>1. t - 18 \in Nat \ {0} /\ (t - 18) - 1 = t - 19
        <4> HIDE DEF t
        <4> QED BY <1>0, <1>4
      <3> QED BY <3>1, LongLengthOfNat, ZenonT(30)
    <2>3. <<0>> \in Seq(Int) /\ Len(<<0>>) = 1
      OBVIOUS
    <2>4. o \o <<0>> \in Seq(Int) /\ Len(o \o <<0>>) = Len(o) + 1
      BY <2>3, Extended
    <2>5. /\ o \o <<0>> \o LongLength(t - 18) \in Seq(Int)
          /\ Len(o \o <<0>> \o LongLength(t - 18)) = Len(o) + 1 + Len(LongLength(t - 18))
      BY <2>2, <2>4, Extended
    <2>6. /\ Literals(o, run) \in Seq(Int)
          /\ Len(Literals(o, run)) = Len(o) + 1 + Len(LongLength(t - 18)) + t
      BY <2>1, <2>5, Extended
    <2>7. CopyEnd(o, run) = Len(Literals(o, run)) - t + t
      BY <2>0, Zenon DEF CopyEnd
    <2> HIDE DEF t
    <2>8. 16 * ((t - 19) \div 255) =< t - 16 /\ (t - 19) \div 255 \in Int
      BY <1>0, <1>4
    <2>9. Len(Literals(o, run)) = Len(o) + 1 + ((t - 19) \div 255 + 1) + t
      BY <2>2, <2>6
    <2>10. CopyEnd(o, run) = Len(Literals(o, run))
      BY <1>0, <2>6, <2>7
    <2>11. 16 * Len(Literals(o, run)) =< 16 * (Len(o) + t + 1) + t
      BY <1>0, <2>8, <2>9
    <2>12. Len(Literals(o, run)) \in Int
      BY <2>6
    <2> QED BY <2>6, <2>10, <2>11, <2>12 DEF t
  <1>5. t = 0 \/ t \in 1..3 \/ t \in 4..18 \/ t > 18
    <2> HIDE DEF t
    <2> QED BY <1>0
  <1> QED BY <1>1, <1>2, <1>3, <1>4, <1>5, Zenon

\* The code of a match is shorter than the match, whichever kind it is.
LEMMA MatchCodeIsShorter ==
    ASSUME NEW m_len \in Nat, m_len >= 4, NEW m_off \in Int
    PROVE  MatchCode(m_len, m_off) \in Seq(Int) /\ Len(MatchCode(m_len, m_off)) =< m_len - 1
  <1>0. \A x \in Int : Byte(x) \in Int /\ x \div 64 \in Int /\ x \div 8 \in Int
    BY DEF Byte
  <1> DEFINE Counted(marker, max, off) ==
                 (IF m_len <= max THEN <<marker + m_len - 2>>
                                  ELSE <<marker>> \o LongLength(m_len - max))
                 \o <<Byte(off * 4), Byte(off \div 64)>>
             far == m_off - M3_MAX_OFFSET
             farMarker == M4_MARKER + 8 * ((far \div 16384) % 2)
  <1>1. ASSUME NEW marker \in Int, NEW max \in 9..33, NEW off \in Int
        PROVE  Counted(marker, max, off) \in Seq(Int) /\ Len(Counted(marker, max, off)) =< m_len - 1
    <2> DEFINE offset == <<Byte(off * 4), Byte(off \div 64)>>
    <2>1. offset \in Seq(Int) /\ Len(offset) = 2
      BY <1>0
    <2> HIDE DEF offset
    <2>2. CASE m_len =< max
      <3>1. <<marker + m_len - 2>> \in Seq(Int) /\ Len(<<marker + m_len - 2>>) = 1
        OBVIOUS
      <3>2. Counted(marker, max, off) = <<marker + m_len - 2>> \o offset
        BY <2>2 DEF offset
      <3>3. /\ <<marker + m_len - 2>> \o offset \in Seq(Int)
            /\ Len(<<marker + m_len - 2>> \o offset) = 1 + 2
        BY <2>1, <3>1, Extended, ZenonT(30)
      <3>4. Counted(marker, max, off) \in Seq(Int) /\ Len(Counted(marker, max, off)) = 1 + 2
        BY <3>2, <3>3, Zenon
      <3> HIDE DEF Counted
      <3> QED BY <3>4
    <2>3. CASE m_len > max
      <3>1. /\ LongLength(m_len - max) \in Seq(Int)
            /\ Len(LongLength(m_len - max)) = (m_len - max - 1) \div 255 + 1
        BY <2>3, LongLengthOfNat
      <3>2. <<marker>> \in Seq(Int) /\ Len(<<marker>>) = 1
        OBVIOUS
      <3>3. /\ <<marker>> \o LongLength(m_len - max) \in Seq(Int)
            /\ Len(<<marker>> \o LongLength(m_len - max)) = 1 + Len(LongLength(m_len - max))
        BY <3>1, <3>2, Extended
      <3>4. Counted(marker, max, off) = <<marker>> \o LongLength(m_len - max) \o offset
        <4>1. ~(m_len <= max)
          BY <2>3
        <4> QED BY <4>1, Zenon DEF offset
      <3>5. /\ Counted(marker, max, off) \in Seq(Int)
            /\ Len(Counted(marker, max, off)) = 1 + Len(LongLength(m_len - max)) + 2
        <4>1. /\ <<marker>> \o LongLength(m_len - max) \o offset \in Seq(Int)
              /\ Len(<<marker>> \o LongLength(m_len - max) \o offset)
                    = Len(<<marker>> \o LongLength(m_len - max)) + 2
          <5> DEFINE counts == <<marker>> \o LongLength(m_len - max)
          <5>1. counts \in Seq(Int)
            BY <3>3
          <5> HIDE DEF counts
          <5>2. counts \o offset \in Seq(Int) /\ Len(counts \o offset) = Len(counts) + 2
            BY <2>1, <5>1, Extended
          <5> QED BY <5>2 DEF counts
        <4>2. /\ Counted(marker, max, off) \in Seq(Int)
              /\ Len(Counted(marker, max, off)) = Len(<<marker>> \o LongLength(m_len - max)) + 2
          BY <3>4, <4>1, Zenon
        <4> QED BY <3>3, <4>2, Zenon
      <3> HIDE DEF Counted
      <3>6. (m_len - max - 1) \div 255 =< m_len - 10
        BY <2>3
      <3> QED BY <2>3, <3>1, <3>5, <3>6
    <2> QED BY <2>2, <2>3
  <1>2. M3_MARKER \in Int /\ M3_MAX_LEN \in 9..33 /\ m_off - 1 \in Int
    BY DEF M3_MARKER, M3_MAX_LEN
  <1>3. far \in Int
    BY MiniLZOAssumption
  <1>4. farMarker \in Int /\ M4_MAX_LEN \in 9..33
    BY <1>3 DEF M4_MARKER, M4_MAX_LEN
  <1>5. CASE m_len <= M2_MAX_LEN /\ m_off <= M2_MAX_OFFSET
    <2>1. MatchCode(m_len, m_off) =
             <<(m_len - 1) * 32 + ((m_off - 1) % 8) * 4, Byte((m_off - 1) \div 8)>>
      BY <1>5 DEF MatchCode
    <2>2. (m_len - 1) * 32 + ((m_off - 1) % 8) * 4 \in Int /\ Byte((m_off - 1) \div 8) \in Int
      BY <1>0, <1>2
    <2> QED BY <2>1, <2>2
  <1>6. CASE ~(m_len <= M2_MAX_LEN /\ m_off <= M2_MAX_OFFSET) /\ m_off <= M3_MAX_OFFSET
    <2>1. MatchCode(m_len, m_off) = Counted(M3_MARKER, M3_MAX_LEN, m_off - 1)
      BY <1>6, SMTT(30) DEF MatchCode
    <2> HIDE DEF Counted
    <2> QED BY <1>1, <1>2, <2>1
  <1>7. CASE ~(m_len <= M2_MAX_LEN /\ m_off <= M2_MAX_OFFSET) /\ ~(m_off <= M3_MAX_OFFSET)
    <2>1. MatchCode(m_len, m_off) = Counted(farMarker, M4_MAX_LEN, far)
      BY <1>7, SMTT(30) DEF MatchCode
    <2> HIDE DEF Counted, far, farMarker
    <2> QED BY <1>1, <1>3, <1>4, <2>1
  <1> HIDE DEF Counted, far
  <1>8. m_off <= M3_MAX_OFFSET \/ ~(m_off <= M3_MAX_OFFSET)
    OBVIOUS
  <1> QED BY <1>5, <1>6, <1>7, Zenon

\* A match is at least as long as the bytes compared for it, ends in its block
\* (MatchLength stops soon enough), and is what it is taken for.
LEMMA MatchesEndInBlock ==
    ASSUME in \in Seq(0..255), ip \in Nat, block.end \in Nat, ip < IpEnd, block.end =< Len(in),
           NEW m_pos \in Nat, Slice(in, ip, ip + 4) = Slice(in, m_pos, m_pos + 4)
    PROVE  /\ MatchLength(m_pos) \in Nat /\ MatchLength(m_pos) >= 4
           /\ ip + MatchLength(m_pos) =< block.end
           /\ \A k \in 1..MatchLength(m_pos) : in[ip + k] = in[m_pos + k]
  <1> DEFINE left == Len(in) - ip
             Ends(n) == ip + n = Len(in) \/ in[ip + n + 1] # in[m_pos + n + 1]
             Common(n) == (\A k \in 1..n : in[ip + k] = in[m_pos + k]) /\ Ends(n)
             common == CHOOSE n \in 0..left : Common(n)
             chunks == Larger(1, (IpEnd - ip - 4 + 7) \div 8)
  <1>0. Len(in) \in Nat
    OBVIOUS
  <1>1. left \in Nat /\ left > 20
    BY <1>0 DEF IpEnd
  <1>2. \E n \in 0..left : Common(n)
    <2> DEFINE E == {n \in 0..left : Ends(n)}
    <2>1. left \in E
      BY <1>1
    <2>2. E \in SUBSET Nat
      BY <1>1
    <2> HIDE DEF E
    <2>3. PICK n \in E : \A j \in E : n =< j
      BY <2>1, <2>2, LeastNumber
    <2>4. n \in 0..left /\ Ends(n)
      BY <2>3 DEF E
    <2>5. ASSUME NEW k \in 1..n PROVE in[ip + k] = in[m_pos + k]
      <3>1. k - 1 \in 0..left /\ ~(n =< k - 1)
        BY <1>1, <2>4
      <3>2. k - 1 \notin E
        BY <2>3, <3>1
      <3>3. ~Ends(k - 1)
        BY <3>1, <3>2 DEF E
      <3>4. ip + (k - 1) + 1 = ip + k /\ m_pos + (k - 1) + 1 = m_pos + k
        BY <2>4
      <3> QED BY <3>3, <3>4
    <2> QED BY <2>4, <2>5
  <1>3. common \in 0..left /\ Common(common)
    BY <1>2
  <1>4. common >= 4
    <2>1. ASSUME NEW j \in 0..3 PROVE in[ip + j + 1] = in[m_pos + j + 1]
      <3> DEFINE S == {in[i] : i \in Int}
      <3>1. \A i \in Int : in[i] \in S
        OBVIOUS
      <3> HIDE DEF S
      <3>2. \A i \in 1..(ip + 4 - (ip + 1) + 1) :
               SubSeq(in, ip + 1, ip + 4)[i] = in[ip + 1 + i - 1]
        BY <3>1, SubSeqProperties
      <3>3. \A i \in 1..(m_pos + 4 - (m_pos + 1) + 1) :
               SubSeq(in, m_pos + 1, m_pos + 4)[i] = in[m_pos + 1 + i - 1]
        BY <3>1, SubSeqProperties
      <3>4. SubSeq(in, ip + 1, ip + 4) = SubSeq(in, m_pos + 1, m_pos + 4)
        BY DEF Slice
      <3>5. /\ j + 1 \in 1..(ip + 4 - (ip + 1) + 1) /\ j + 1 \in 1..(m_pos + 4 - (m_pos + 1) + 1)
            /\ ip + 1 + (j + 1) - 1 = ip + j + 1 /\ m_pos + 1 + (j + 1) - 1 = m_pos + j + 1
        OBVIOUS
      <3> QED BY <3>2, <3>3, <3>4, <3>5
    <2> HIDE DEF common
    <2>2. ASSUME common \in 0..3 PROVE FALSE
      <3>1. in[ip + common + 1] = in[m_pos + common + 1]
        BY <2>1, <2>2
      <3>2. ip + common # Len(in)
        BY <1>0, <1>1, <2>2
      <3> QED BY <1>3, <3>1, <3>2
    <2>3. left \in Nat
      BY <1>1
    <2> HIDE DEF left
    <2> QED BY <1>3, <2>2, <2>3
  <1>5. MatchLength(m_pos) = Smaller(common, 4 + 8 * chunks)
    BY DEF MatchLength
  <1>7. \A k \in 1..common : in[ip + k] = in[m_pos + k]
    BY <1>3
  <1> HIDE DEF common, Common
  <1>6. chunks \in Nat /\ chunks >= 1 /\ ip + 4 + 8 * chunks =< block.end
    <2> DEFINE room == block.end - 20 - ip
    <2>1. room \in Nat /\ room > 0 /\ IpEnd - ip - 4 + 7 = room + 3
      BY SMTT(30) DEF IpEnd
    <2>2. chunks = Larger(1, (room + 3) \div 8)
      BY <2>1
    <2> HIDE DEF room
    <2>3. (room + 3) \div 8 \in Int /\ 8 * ((room + 3) \div 8) =< room + 3
      BY <2>1
    <2> HIDE DEF chunks
    <2>4. chunks \in Nat /\ chunks >= 1 /\ 8 * chunks =< room + 8
      BY <2>1, <2>2, <2>3 DEF Larger
    <2>5. block.end = ip + 20 + room
      <3>1. \A e, i \in Int : e = i + 20 + (e - 20 - i)
        OBVIOUS
      <3>2. block.end \in Int /\ ip \in Int
        OBVIOUS
      <3> QED BY <3>1, <3>2, Zenon DEF room
    <2> QED BY <2>1, <2>4, <2>5
  <1> HIDE DEF chunks
  <1>8. /\ MatchLength(m_pos) \in Nat /\ MatchLength(m_pos) >= 4 /\ MatchLength(m_pos) =< common
        /\ ip + MatchLength(m_pos) =< block.end
    BY <1>1, <1>3, <1>4, <1>5, <1>6 DEF Smaller
  <1>9. \A k \in 1..MatchLength(m_pos) : k \in 1..common
    BY <1>1, <1>3, <1>8
  <1> QED BY <1>7, <1>8, <1>9

\* 17/16 of the input and the copies that run ahead fit in the buffer.
LEMMA BufferBound ==
    ASSUME NEW n \in Nat, NEW len \in Nat, 16 * n =< 17 * len
    PROVE  n =< len + len \div 16
  OBVIOUS

\* Bytes are integers.
LEMMA BytesAreIntegers == ASSUME NEW s \in Seq(0..255) PROVE s \in Seq(Int)
  <1>1. \A i \in 1..Len(s) : s[i] \in Int
    <2> DEFINE bytes == 0..255
    <2>1. s \in Seq(bytes) /\ bytes \subseteq Int
      OBVIOUS
    <2> HIDE DEF bytes
    <2>2. \A i \in 1..Len(s) : s[i] \in bytes
      BY <2>1
    <2> QED BY <2>1, <2>2, Zenon
  <1>2. s = [i \in 1..Len(s) |-> s[i]] /\ Len(s) \in Nat
    OBVIOUS
  <1> QED BY <1>1, <1>2

\* Calling the compressor keeps its invariant.
LEMMA CallCompressInv == ASSUME CompressInv, CallCompress PROVE CompressInv'
  <1>1. /\ label = "idle" /\ label' = "block" /\ in' \in Seq(0..255)
        /\ UNCHANGED <<out, top, block, ip, ii, ti, dict>>
    BY MiniLZOAssumption DEF CallCompress
  <1>2. /\ WritesFit /\ in \in Seq(0..255) /\ out \in Seq(Int) /\ top \in Nat
        /\ ti = 0 /\ top = 0 /\ block = NoBlock /\ ii \in Nat /\ ip \in Nat
        /\ dict \in [0..(D_SIZE - 1) -> Nat] /\ 16 * Len(out) =< 17 * Encoded
    BY <1>1 DEF CompressInv, CompressLabels
  <1> QED
    BY <1>1, <1>2 DEF CompressInv, CompressLabels, WritesFit, maxOutSize, Encoded, NoBlock

\* So does the start of a block, with the literals that the last one has left.
LEMMA StartBlockInv == ASSUME CompressInv, StartBlock PROVE CompressInv'
  <1>1. /\ WritesFit /\ in \in Seq(0..255) /\ out \in Seq(Int) /\ top \in Nat
        /\ block.from \in Nat /\ block.end \in Nat /\ block.end =< Len(in)
        /\ ti \in Nat /\ 16 * Len(out) =< 17 * (block.end - ti)
    BY DEF CompressInv, CompressLabels, StartBlock, Encoded
  <1>2. /\ label' = "literal" /\ UNCHANGED <<in, out, top, ti>>
        /\ Len(in) - block.end > 20
        /\ block' = [from |-> block.end,
                     end |-> block.end + Smaller(Len(in) - block.end, MAX_BLOCK)]
        /\ ii' = block.end
        /\ ip' = block.end + (IF ti < 4 THEN 4 - ti ELSE 0)
        /\ dict' = [h \in 0..(D_SIZE - 1) |-> 0]
    BY DEF StartBlock
  <1>3. /\ block'.from = block.end
        /\ block'.end = block.end + Smaller(Len(in) - block.end, MAX_BLOCK)
    BY <1>2
  <1>4. block'.end \in Nat /\ block'.end =< Len(in') /\ block.end =< block'.end
    BY <1>1, <1>2, <1>3, MiniLZOAssumption, SMTT(30) DEF Smaller
  <1>5. ip' \in Nat /\ ii' =< ip'
    BY <1>1, <1>2, SMTT(30)
  <1>6. Encoded' = block.end - ti
    BY <1>2 DEF Encoded
  <1>7. dict' \in [0..(D_SIZE - 1) -> Nat]
    BY <1>2
  <1>8. WritesFit'
    BY <1>1, <1>2 DEF WritesFit, maxOutSize
  <1> QED
    BY <1>1, <1>2, <1>3, <1>4, <1>5, <1>6, <1>7, <1>8 DEF CompressInv, CompressLabels

\* What CompressInv says within a block.
LEMMA WithinBlock ==
    ASSUME CompressInv, label \in {"literal", "next"}
    PROVE  /\ WritesFit /\ in \in Seq(0..255) /\ out \in Seq(Int) /\ top \in Nat
           /\ block.from \in Nat /\ block.end \in Nat /\ block.end =< Len(in)
           /\ ti \in Nat /\ ii \in Nat /\ ip \in Nat /\ ii =< ip /\ ii =< block.end
           /\ block.from =< block.end /\ dict \in [0..(D_SIZE - 1) -> Nat]
           /\ 16 * Len(out) =< 17 * (ii - ti)
BY DEF CompressInv, CompressLabels, Encoded

\* So does the step to the next position where there is no match.
LEMMA SkipLiteralInv == ASSUME CompressInv, SkipLiteral PROVE CompressInv'
  <1>1. /\ label = "literal" /\ label' = "next" /\ ip' = ip + 1 + (ip - ii) \div 32
        /\ UNCHANGED <<in, out, top, block, ii, ti, dict>>
    BY DEF SkipLiteral
  <1>2. ip' \in Nat /\ ii' =< ip'
    BY <1>1, WithinBlock, SMTT(30)
  <1> QED
    BY <1>1, <1>2, WithinBlock DEF CompressInv, CompressLabels, Encoded, WritesFit, maxOutSize

\* So does a match: what is written for it pays for itself and for its literals.
LEMMA FindMatchInv == ASSUME CompressInv, FindMatch, HashesFit PROVE CompressInv'
  <1>0. label = "next"
    BY DEF FindMatch
  <1>1. /\ WritesFit /\ in \in Seq(0..255) /\ out \in Seq(Int) /\ top \in Nat
        /\ block.from \in Nat /\ block.end \in Nat /\ block.end =< Len(in)
        /\ ti \in Nat /\ ii \in Nat /\ ip \in Nat /\ ii =< ip /\ ii =< block.end
        /\ block.from =< block.end /\ dict \in [0..(D_SIZE - 1) -> Nat]
        /\ 16 * Len(out) =< 17 * (ii - ti)
    BY <1>0, WithinBlock
  <1> DEFINE m_pos == block.from + dict[Hash(ip)]
             m_len == MatchLength(m_pos)
             run == Slice(in, ii - ti, ip)
             code == MatchCode(m_len, ip - m_pos)
             encoded == Literals(out, run) \o code
  <1>2. /\ ip < IpEnd /\ UNCHANGED <<in, block>>
        /\ dict' = [dict EXCEPT ![Hash(ip)] = (ip - block.from) % 65536]
        /\ IF Slice(in, ip, ip + 4) = Slice(in, m_pos, m_pos + 4)
           THEN /\ out' = encoded
                /\ top' = Larger(top, Larger(CopyEnd(out, run), Len(encoded)))
                /\ ip' = ip + m_len
                /\ ii' = ip + m_len
                /\ ti' = 0
                /\ UNCHANGED label
           ELSE /\ label' = "literal"
                /\ UNCHANGED <<out, top, ip, ii, ti>>
    BY DEF FindMatch
  <1>3. dict' \in [0..(D_SIZE - 1) -> Nat]
    <2> DEFINE position == (ip - block.from) % 65536
    <2>1. position \in Nat
      BY <1>1
    <2>2. dict' = [dict EXCEPT ![Hash(ip)] = position]
      BY <1>2
    <2> HIDE DEF position
    <2> QED BY <1>1, <2>1, <2>2
  <1>4. ip + 20 < block.end /\ ip + 4 =< Len(in)
    BY <1>1, <1>2, SMTT(30) DEF IpEnd
  <1>5. CASE Slice(in, ip, ip + 4) # Slice(in, m_pos, m_pos + 4)
    <2>1. label' = "literal" /\ UNCHANGED <<in, block, out, top, ip, ii, ti>>
      BY <1>2, <1>5
    <2> QED
      BY <1>1, <1>3, <2>1 DEF CompressInv, CompressLabels, Encoded, WritesFit, maxOutSize
  <1>6. CASE Slice(in, ip, ip + 4) = Slice(in, m_pos, m_pos + 4)
    <2>1. m_pos \in Nat
      <3>1. Hash(ip) \in 0..(D_SIZE - 1)
        <4>1. Slice(in, ip, ip + 4) \in Seq(0..255) /\ Len(Slice(in, ip, ip + 4)) = 4
          <5> DEFINE bytes == 0..255
                     n == 4
          <5>1. in \in Seq(bytes) /\ n \in Nat /\ ip + n =< Len(in)
            BY <1>1, <1>4
          <5> HIDE DEF bytes, n
          <5>2. Slice(in, ip, ip + n) \in Seq(bytes) /\ Len(Slice(in, ip, ip + n)) = n
            BY <1>1, <5>1, SliceOf
          <5> QED BY <5>2 DEF bytes, n
        <4> QED BY <4>1 DEF Hash, HashesFit
      <3> QED BY <1>1, <3>1
    <2>2. m_len \in Nat /\ m_len >= 4 /\ ip + m_len =< block.end
      BY <1>1, <1>2, <1>6, <2>1, MatchesEndInBlock, SMTT(30)
    <2>3. run \in Seq(Int) /\ Len(run) = ip - (ii - ti)
      <3> DEFINE start == ii - ti
                 n == ip - start
      <3>1. start \in Nat /\ n \in Nat /\ start + n = ip
        <4>1. 17 * (ii - ti) >= 0
          BY <1>1
        <4> QED BY <1>1, <4>1
      <3>2. in \in Seq(Int) /\ ip =< Len(in)
        <4>1. Len(in) \in Nat
          BY <1>1
        <4> QED BY <1>1, <1>4, <4>1, BytesAreIntegers
      <3>3. run = Slice(in, start, start + n)
        BY <3>1
      <3> HIDE DEF run, start, n
      <3>4. run \in Seq(Int) /\ Len(run) = n
        BY <3>1, <3>2, <3>3, SliceOf
      <3> QED BY <3>4 DEF start, n
    <2> HIDE DEF run
    <2>4. /\ Literals(out, run) \in Seq(Int)
          /\ 16 * Len(Literals(out, run)) =< 16 * (Len(out) + Len(run) + 1) + Len(run)
          /\ CopyEnd(out, run) \in Int
          /\ CopyEnd(out, run) =< Len(out) + 17 \/ CopyEnd(out, run) =< Len(Literals(out, run))
      BY <1>1, <2>3, LiteralsOfRun
    <2>5. ip - m_pos \in Int
      BY <1>1, <2>1
    <2> HIDE DEF m_pos, m_len
    <2>6. code \in Seq(Int) /\ Len(code) =< m_len - 1
      BY <2>2, <2>5, MatchCodeIsShorter
    <2> HIDE DEF code
    <2>7. encoded \in Seq(Int) /\ Len(encoded) = Len(Literals(out, run)) + Len(code)
      BY <2>4, <2>6, Extended
    <2>8. /\ out' = encoded /\ ip' = ip + m_len /\ ii' = ip + m_len /\ ti' = 0
          /\ top' = Larger(top, Larger(CopyEnd(out, run), Len(encoded)))
          /\ label' = "next" /\ UNCHANGED <<in, block>>
      BY <1>0, <1>2, <1>6 DEF m_pos, m_len, code
    <2> HIDE DEF encoded
    <2>9. Len(out) \in Nat /\ Len(encoded) \in Nat /\ Len(code) \in Nat /\ Len(in) \in Nat
          /\ Len(Literals(out, run)) \in Nat
      BY <1>1, <2>4, <2>6, <2>7
    <2>10. 16 * Len(encoded) =< 17 * (ip + m_len)
      BY <1>1, <2>2, <2>3, <2>4, <2>6, <2>7, <2>9
    <2>11. Len(encoded) =< Len(in) + Len(in) \div 16 /\ Len(out) =< Len(in) + Len(in) \div 16
      <3>1. 16 * Len(encoded) =< 17 * Len(in) /\ 16 * Len(out) =< 17 * Len(in)
        BY <1>1, <2>2, <2>9, <2>10
      <3> QED BY <2>9, <3>1, BufferBound
    <2>12. top' \in Nat /\ top' =< maxOutSize
      <3> DEFINE room == Len(in) + Len(in) \div 16
      <3>1. room \in Int /\ maxOutSize = room + 67 /\ top =< room + 67
        BY <1>1, <2>9 DEF WritesFit, maxOutSize
      <3>2. Len(encoded) =< room /\ Len(out) =< room
        BY <2>11
      <3> HIDE DEF room
      <3>3. CopyEnd(out, run) =< room + 17
        BY <2>4, <2>6, <2>7, <2>9, <3>1, <3>2
      <3>4. \A x, y, z \in Int : x =< room + 67 /\ y =< room + 67 /\ z =< room + 67 /\ x >= 0
               => Larger(x, Larger(y, z)) \in Nat /\ Larger(x, Larger(y, z)) =< room + 67
        BY <3>1 DEF Larger
      <3>5. CopyEnd(out, run) \in Int /\ Len(encoded) \in Int /\ top \in Int /\ top >= 0
            /\ CopyEnd(out, run) =< room + 67 /\ Len(encoded) =< room + 67
        BY <1>1, <2>4, <2>9, <3>1, <3>2, <3>3
      <3> QED BY <2>8, <3>1, <3>4, <3>5
    <2>13. WritesFit'
      BY <2>8, <2>12 DEF WritesFit, maxOutSize
    <2>14. Encoded' = ip + m_len
      BY <2>2, <2>8, <1>1 DEF Encoded
    <2>15. ip' \in Nat /\ ii' \in Nat /\ ii' =< block'.end /\ ii' =< ip'
      BY <1>1, <2>2, <2>8
    <2>16. out' \in Seq(Int) /\ 16 * Len(out') =< 17 * Encoded'
      BY <2>7, <2>8, <2>10, <2>14
    <2> QED
      BY <1>1, <1>3, <2>8, <2>12, <2>13, <2>15, <2>16 DEF CompressInv, CompressLabels
  <1> QED BY <1>5, <1>6

\* So does the end of a block.
LEMMA EndBlockInv == ASSUME CompressInv, EndBlock PROVE CompressInv'
  <1>1. /\ label = "next" /\ label' = "block" /\ ti' = block.end - (ii - ti)
        /\ UNCHANGED <<in, out, top, block, ip, ii, dict>>
    BY DEF EndBlock
  <1>2. ti' \in Nat /\ Encoded' = ii - ti
    BY <1>1, WithinBlock, SMTT(30) DEF Encoded
  <1> QED
    BY <1>1, <1>2, WithinBlock DEF CompressInv, CompressLabels, WritesFit, maxOutSize

\* So do the last literals and the end of the stream.
LEMMA FinishInv == ASSUME CompressInv, Finish PROVE CompressInv'
  <1> DEFINE t == ti + Len(in) - block.end
             run == Slice(in, Len(in) - t, Len(in))
             body == IF out = <<>> /\ t \in 1..238 THEN <<17 + t>> \o run
                                                   ELSE Literals(out, run)
  <1>1. /\ WritesFit /\ in \in Seq(0..255) /\ out \in Seq(Int) /\ top \in Nat
        /\ block.end \in Nat /\ block.end =< Len(in)
        /\ ti \in Nat /\ 16 * Len(out) =< 17 * (block.end - ti)
    BY ZenonT(30) DEF CompressInv, CompressLabels, Finish, Encoded
  <1>2. /\ label' = "compressed" /\ UNCHANGED in
        /\ out' = body \o EndCode /\ top' = Larger(top, Len(body) + 3)
    BY ZenonT(30) DEF Finish
  <1>3. t \in Nat /\ Len(in) - t \in Nat /\ Len(in) - t + t = Len(in) /\ Len(in) \in Nat
        /\ Len(out) \in Nat /\ 16 * Len(out) =< 17 * (Len(in) - t)
    <2>1. Len(in) \in Nat /\ Len(out) \in Nat
      BY <1>1
    <2>2. Len(in) - t = block.end - ti /\ t \in Int
      BY <1>1, <2>1
    <2>3. t >= 0 /\ block.end - ti >= 0
      BY <1>1, <2>1, SMTT(30)
    <2> HIDE DEF t
    <2> QED BY <1>1, <2>1, <2>2, <2>3
  <1>4. run \in Seq(Int) /\ Len(run) = t
    <2>1. in \in Seq(Int)
      BY <1>1, BytesAreIntegers
    <2> HIDE DEF t
    <2>2. /\ Slice(in, Len(in) - t, (Len(in) - t) + t) \in Seq(Int)
          /\ Len(Slice(in, Len(in) - t, (Len(in) - t) + t)) = t
      BY <1>3, <2>1, SliceOf
    <2> QED BY <1>3, <2>2
  <1> HIDE DEF run, t
  <1>5. body \in Seq(Int) /\ 16 * Len(body) =< 17 * Len(in) + 16
    <2>1. CASE out = <<>> /\ t \in 1..238
      <3>1. <<17 + t>> \in Seq(Int) /\ Len(<<17 + t>>) = 1
        BY <1>3
      <3>2. body = <<17 + t>> \o run
        BY <2>1
      <3> HIDE DEF body
      <3>3. body \in Seq(Int) /\ Len(body) = 1 + t
        BY <1>4, <3>1, <3>2, Extended
      <3> QED BY <1>3, <3>3
    <2>2. CASE ~(out = <<>> /\ t \in 1..238)
      <3>1. body = Literals(out, run)
        BY <2>2
      <3> HIDE DEF body
      <3>2. body \in Seq(Int) /\ 16 * Len(body) =< 16 * (Len(out) + t + 1) + t
        BY <1>1, <1>4, <3>1, LiteralsOfRun
      <3>3. Len(body) \in Nat
        BY <3>2
      <3> QED BY <1>3, <3>2, <3>3
    <2> QED BY <2>1, <2>2
  <1> HIDE DEF body
  <1>6. EndCode \in Seq(Int) /\ Len(EndCode) = 3
    BY DEF EndCode, M4_MARKER
  <1>7. out' \in Seq(Int)
    BY <1>2, <1>5, <1>6, Extended
  <1>8. Len(body) \in Nat /\ Len(body) + 3 =< maxOutSize
    BY <1>3, <1>5 DEF maxOutSize
  <1>9. top' \in Nat /\ WritesFit'
    BY <1>1, <1>2, <1>8 DEF Larger, WritesFit, maxOutSize
  <1> QED
    BY <1>1, <1>2, <1>7, <1>9 DEF CompressInv, CompressLabels

\* The decompressor writes to its own buffer, and does not give its label back.
LEMMA DecompressLabels == ASSUME Decompress PROVE label' \in Labels /\ UNCHANGED compressorVars
  <1>1. CASE CallDecompress
    BY <1>1 DEF CallDecompress, Labels
  <1>2. CASE Decode /\ UNCHANGED compressorVars
    <2>1. \A i, n, then : TakeLiterals(i, n, then) => label' \in {"done", then}
      BY DEF TakeLiterals, Return
    <2>2. \A m_off, len, end : CopyMatch(m_off, len, end) => label' \in {"done", "match_done"}
      BY DEF CopyMatch, Return
    <2>3. \A r : Return(r) => label' = "done"
      BY DEF Return
    <2>4. CASE Begin
      BY <1>2, <2>4 DEF Begin, TakeLiterals, Return, Labels
    <2>5. CASE LiteralRun
      BY <1>2, <2>5 DEF LiteralRun, TakeLiterals, Return, Labels
    <2>6. CASE FirstLiteralRun
      BY <1>2, <2>6 DEF FirstLiteralRun, CopyMatch, Return, Labels
    <2>7. \A t, mask, base, nearest :
             FarMatch(t, mask, base, nearest) => label' \in {"done", "match_done"}
      BY <2>2, <2>3 DEF FarMatch, EofFound
    <2>8. CASE Match
      BY <1>2, <2>2, <2>7, <2>8 DEF Match, Labels
    <2>9. CASE MatchDone
      BY <1>2, <2>9 DEF MatchDone, TakeLiterals, Return, Labels
    <2> QED BY <1>2, <2>4, <2>5, <2>6, <2>8, <2>9 DEF Decode
  <1> QED BY <1>1, <1>2 DEF Decompress

\* Before any call nothing has been written.
LEMMA InitCompressInv == ASSUME LzoInit PROVE CompressInv
  <1>1. /\ label = "idle" /\ in = <<>> /\ out = <<>> /\ top = 0 /\ block = NoBlock
        /\ ip = 0 /\ ii = 0 /\ ti = 0 /\ dict = [h \in 0..(D_SIZE - 1) |-> 0]
    BY DEF LzoInit
  <1>2. dict \in [0..(D_SIZE - 1) -> Nat]
    BY <1>1
  <1>3. block.from = 0 /\ block.end = 0
    BY <1>1 DEF NoBlock
  <1> QED
    BY <1>1, <1>2, <1>3 DEF CompressInv, CompressLabels, Encoded, WritesFit, maxOutSize

\* What the compressor has written and encoded, in each of its steps.
THEOREM CompressTypeOK == HashesFit => (LzoSpec => []CompressInv)
  <1> SUFFICES ASSUME HashesFit PROVE LzoSpec => []CompressInv
    OBVIOUS
  <1>1. LzoInit => CompressInv
    BY InitCompressInv
  <1>2. CompressInv /\ [LzoNext]_lzoVars => CompressInv'
    <2> SUFFICES ASSUME CompressInv, [LzoNext]_lzoVars PROVE CompressInv'
      OBVIOUS
    <2>1. CASE Compress
      BY <2>1, CallCompressInv, StartBlockInv, SkipLiteralInv, FindMatchInv, EndBlockInv, FinishInv
         DEF Compress
    <2>2. CASE Decompress
      <3>1. label' \in Labels /\ UNCHANGED <<in, out, top>>
        BY <2>2, DecompressLabels DEF compressorVars
      <3>2. label' \notin CompressLabels
        BY <3>1 DEF Labels, CompressLabels
      <3> QED
        BY <3>1, <3>2 DEF CompressInv, CompressLabels, WritesFit, maxOutSize
    <2>3. CASE UNCHANGED lzoVars
      BY <2>3 DEF lzoVars, compressorVars, CompressInv, WritesFit, maxOutSize, Encoded
    <2> QED BY <2>1, <2>2, <2>3 DEF LzoNext
  <1> QED BY <1>1, <1>2, PTL DEF LzoSpec

\* No payload makes lzo1x_1_compress write beyond the buffer that CompressData
\* gives it, the copies that run ahead of its output included, whatever the
\* hash, the offsets of the format and the size of a block.
THEOREM CompressedFits == HashesFit => (LzoSpec => []WritesFit)
  <1>1. CompressInv => WritesFit
    BY DEF CompressInv
  <1> QED BY <1>1, CompressTypeOK, PTL

-------------------------------------------------------------------------------
(* What has been compressed is decompressed to the same bytes: MiniLZO       *)

\* l, counted in the bytes of o from position i to position e: 255 for each
\* zero, then the rest.
LengthBytes(o, i, base, l, e) ==
    \E z \in Nat :
        /\ e = i + z + 1 /\ e =< Len(o)
        /\ \A k \in 1..z : o[i + k] = 0
        /\ o[e] # 0 /\ l = 255 * z + base + o[e]

\* The length of a match under a mask in the byte behind position q of o.
MatchLengthAt(o, q, mask, len, e) ==
    \/ o[q + 1] % (mask + 1) # 0 /\ len = (o[q + 1] % (mask + 1)) + 2 /\ e = q + 1
    \/ o[q + 1] % (mask + 1) = 0 /\ LengthBytes(o, q + 1, mask, len - 2, e)

\* The code of a match of len bytes, off bytes back, from position q to r of o.
MatchAt(o, q, len, off, r) ==
    \/ /\ o[q + 1] >= 64 /\ r = q + 2
       /\ len = o[q + 1] \div 32 + 1
       /\ off = 1 + ((o[q + 1] \div 4) % 8) + o[q + 2] * 8
    \/ /\ o[q + 1] \in 32..63
       /\ MatchLengthAt(o, q, 31, len, r - 2)
       /\ off = 1 + o[r - 1] \div 4 + o[r] * 64
    \/ /\ o[q + 1] \in 16..31
       /\ MatchLengthAt(o, q, 7, len, r - 2)
       /\ off > M3_MAX_OFFSET
       /\ off = ((o[q + 1] \div 8) % 2) * 16384 + o[r - 1] \div 4 + o[r] * 64 + M3_MAX_OFFSET

\* A mark is a position r of the output at which the first n bytes of the input
\* have been encoded: its start, or the end of the code of a match.
Mark == [r : Nat, n : Nat]
Start == [r |-> 0, n |-> 0]

\* The code of t >= 4 literals from position r to e of o.
RunAt(o, r, t, e) ==
    \/ o[r + 1] \in 1..15 /\ t = o[r + 1] + 3 /\ e = r + 1
    \/ o[r + 1] = 0 /\ LengthBytes(o, r + 1, 15, t - 3, e)

\* t literals of s from mark a on, up to position q of o: up to three are counted
\* in the last but one byte of the match before them, those at the start of a
\* stream without a match in its first byte.
LiteralsAt(o, s, a, t, q) ==
    /\ q + 2 =< Len(o) /\ a.n + t =< Len(s) /\ t =< q
    /\ \A k \in 1..t : o[q - t + k] = s[a.n + k]
    /\ \/ a.r >= 2 /\ t \in 1..3 /\ q = a.r + t /\ o[a.r - 1] % 4 = t
       \/ (a.r = 0 \/ (a.r >= 2 /\ o[a.r - 1] % 4 = 0)) /\ t >= 4 /\ RunAt(o, a.r, t, q - t)
       \/ a.r >= 2 /\ t = 0 /\ q = a.r /\ o[a.r - 1] % 4 = 0
       \/ a.r = 0 /\ t \in 1..238 /\ q = 1 + t /\ o[1] = 17 + t
       \/ a.r = 0 /\ t = 0 /\ q = 0 /\ o[1] =< 17

\* The len elements of s behind the first n are those m_off elements before them.
Repeats(s, n, len, m_off) == \A k \in 1..len : s[n + k] = s[n + k - m_off]

\* c is what stands in s behind the first n elements.
Spells(c, s, n) == \A k \in 1..Len(c) : c[k] = s[n + k]

\* A match behind position q of o, at which n bytes have been encoded, ends at mark b.
MatchTo(o, s, q, n, b) ==
    \E len \in Nat, off \in 1..n :
        /\ MatchAt(o, q, len, off, b.r)
        /\ q + 2 =< b.r
        /\ b.n = n + len
        /\ Repeats(s, n, len, off)

\* Literals and a match behind them encode what is between two marks.
Unit(o, s, a, b) ==
    \E t, q \in Nat : q >= 1 /\ LiteralsAt(o, s, a, t, q) /\ MatchTo(o, s, q, a.n + t, b)

\* All of s has been encoded, and the end code follows.
EndAt(o, s, q, n) ==
    /\ n = Len(s) /\ q + 3 = Len(o)
    /\ o[q + 1] = 17 /\ o[q + 2] = 0 /\ o[q + 3] = 0

\* What is behind the literals: a match, or the end.
GoesOn(o, s, P, q, n) == EndAt(o, s, q, n) \/ \E b \in P : MatchTo(o, s, q, n, b)

\* o encodes s, with its marks P.
Encodes(o, s, P) ==
    /\ Start \in P
    /\ \A a \in P : /\ a \in Mark /\ a.r + 3 =< Len(o) /\ a.n =< Len(s)
                    /\ \E t, q \in Nat : LiteralsAt(o, s, a, t, q) /\ GoesOn(o, s, P, q, a.n + t)

\* The first n bytes are those of the input.
DecodedTo(n) == Len(dec) = n /\ \A k \in 1..n : dec[k] = in[k]

\* Where the decompressor is: before or behind the literals that follow mark a.
PlaceAt(a, t, q) ==
    \/ label = "begin" /\ a = Start /\ rp = 0 /\ DecodedTo(0)
    \/ label = "match_done" /\ rp = a.r /\ a.r >= 2 /\ DecodedTo(a.n)
    \/ /\ label = "loop" /\ rp = a.r /\ DecodedTo(a.n)
       /\ \/ t >= 4 /\ RunAt(packet, a.r, t, q - t)
          \/ t = 0 /\ q = a.r
    \/ label \in {"first_literal_run", "match"} /\ rp = q /\ DecodedTo(a.n + t)

\* The decompressor is at mark a, t literals before position q, or behind them.
Reading(P, a, t, q) ==
    /\ packet \in Seq(0..255) /\ in \in Seq(0..255) /\ dec \in Seq(0..255)
    /\ size = Len(in)
    /\ Encodes(packet, in, P) /\ a \in P /\ t \in Nat /\ q \in Nat
    /\ LiteralsAt(packet, in, a, t, q) /\ GoesOn(packet, in, P, q, a.n + t)
    /\ PlaceAt(a, t, q)

\* It has read what the compressor wrote for what it has written.
Decodes == \E P : \E a \in P : \E t, q \in Nat : Reading(P, a, t, q)

Done == label = "done" /\ status = "ok" /\ dec = in

-------------------------------------------------------------------------------
(* The decompressor                                                          *)

\* Quotient and remainder.
LEMMA Division ==
    ASSUME NEW a \in Int, NEW m \in Nat \ {0}
    PROVE  a = m * (a \div m) + (a % m) /\ a % m \in 0..(m - 1) /\ a \div m \in Int
  OBVIOUS

\* Multiples of m are m apart.
LEMMA Apart ==
    ASSUME NEW q \in Int, NEW p \in Int, NEW m \in Nat \ {0}, q >= p + 1
    PROVE  m * q >= m * p + m /\ m * q \in Int /\ m * p \in Int
  <1>1. PICK d \in Nat : q = p + 1 + d
    <2>1. q - p - 1 \in Nat /\ q = p + 1 + (q - p - 1)
      OBVIOUS
    <2> QED BY <2>1
  <1>2. m * q = m * p + m + m * d
    BY <1>1
  <1>3. m * d \in Nat
    OBVIOUS
  <1>4. m * p \in Int /\ m * q \in Int
    OBVIOUS
  <1> QED BY <1>2, <1>3, <1>4

\* The remainder is the same one period earlier.
LEMMA ModShift == ASSUME NEW x \in Nat, NEW m \in Nat \ {0}, x >= m
    PROVE  (x - m) % m = x % m
  <1> DEFINE q == x \div m
             p == (x - m) \div m
             r == x % m
             t == (x - m) % m
  <1>1. x = m * q + r /\ r \in 0..(m - 1) /\ q \in Int
    BY Division
  <1>2. x - m = m * p + t /\ t \in 0..(m - 1) /\ p \in Int
    BY Division
  <1>3. m * (p + 1) = m * p + m /\ m * p \in Int /\ p + 1 \in Int /\ m * q \in Int
    BY <1>1, <1>2
  <1> HIDE DEF q, p, r, t
  <1>4. ~(q >= (p + 1) + 1)
    BY <1>1, <1>2, <1>3, Apart
  <1>5. ~(p + 1 >= q + 1)
    BY <1>1, <1>2, <1>3, Apart
  <1>6. q = p + 1
    BY <1>1, <1>2, <1>4, <1>5
  <1>7. r = t
    BY <1>1, <1>2, <1>3, <1>6
  <1> QED BY <1>7 DEF r, t

\* A copy repeats what is m_off bytes back, over and over.
LEMMA CopyRepeats ==
    ASSUME NEW s, NEW d, NEW n \in Nat, NEW m_off \in 1..n, NEW len \in Nat, Len(d) = n,
           Spells(d, s, 0), Repeats(s, n, len, m_off)
    PROVE  Spells(CopyOf(d, m_off, len), s, n)
  <1>a. /\ \A k \in 1..n : d[k] = s[k]
        /\ \A k \in 1..len : s[n + k] = s[n + k - m_off]
    BY DEF Spells, Repeats
  <1> DEFINE Back(k) == n - m_off + 1 + ((k - 1) % m_off)
             Bad == {k \in Nat : k \in 1..len /\ d[Back(k)] # s[n + k]}
  <1>0. m_off \in Nat \ {0} /\ m_off =< n
    OBVIOUS
  <1>1. \A k \in Nat : k \in 1..m_off => Back(k) = n + k - m_off
    <2> TAKE k \in Nat
    <2> HAVE k \in 1..m_off
    <2>1. (k - 1) % m_off = k - 1
      OBVIOUS
    <2> QED BY <2>1
  <1>2. \A k \in Nat : k > m_off => Back(k) = Back(k - m_off)
    <2> TAKE k \in Nat
    <2> HAVE k > m_off
    <2>1. k - 1 \in Nat /\ k - 1 >= m_off /\ (k - m_off) - 1 = (k - 1) - m_off
      BY <1>0
    <2>2. ((k - 1) - m_off) % m_off = (k - 1) % m_off
      BY <1>0, <2>1, ModShift
    <2> QED BY <2>1, <2>2
  <1> HIDE DEF Back
  <1>3. Bad = {}
    <2> SUFFICES ASSUME Bad # {} PROVE FALSE
      OBVIOUS
    <2>1. PICK k \in Bad : \A j \in Bad : k =< j
      BY LeastNumber
    <2>2. k \in 1..len /\ k \in Nat /\ d[Back(k)] # s[n + k]
      BY <2>1
    <2>3. s[n + k] = s[n + k - m_off]
      BY <1>a, <2>2
    <2>4. CASE k =< m_off
      <3>1. Back(k) = n + k - m_off /\ n + k - m_off \in 1..n
        BY <1>0, <1>1, <2>2, <2>4
      <3> QED BY <1>a, <2>2, <2>3, <3>1
    <2>5. CASE k > m_off
      <3>1. k - m_off \in 1..len /\ k - m_off \in Nat /\ ~(k =< k - m_off)
            /\ n + (k - m_off) = n + k - m_off
        BY <1>0, <2>2, <2>5
      <3>2. k - m_off \notin Bad
        <4> HIDE DEF Bad
        <4> QED BY <2>1, <3>1
      <3>3. d[Back(k - m_off)] = s[n + (k - m_off)]
        BY <3>1, <3>2
      <3> QED BY <1>2, <2>2, <2>3, <2>5, <3>1, <3>3
    <2> QED BY <1>0, <2>2, <2>4, <2>5
  <1>4. \A k \in 1..len : CopyOf(d, m_off, len)[k] = d[Back(k)]
    BY DEF CopyOf, Back
  <1>5. \A k \in 1..len : k \in Nat
    OBVIOUS
  <1>6. \A k \in 1..len : CopyOf(d, m_off, len)[k] = s[n + k]
    BY <1>3, <1>4, <1>5
  <1>7. Len(CopyOf(d, m_off, len)) = len
    BY DEF CopyOf
  <1> QED BY <1>6, <1>7 DEF Spells

\* The decompressor reads the length that the bytes count.
LEMMA LengthRead ==
    ASSUME packet \in Seq(0..255), NEW i \in Nat, NEW base \in Nat, NEW l, NEW e,
           LengthBytes(packet, i, base, l, e)
    PROVE  LengthAt(i, base) = {[t |-> l, end |-> e]} /\ e \in Nat /\ e =< Len(packet)
  <1>1. PICK z \in Nat : /\ e = i + z + 1 /\ e =< Len(packet)
                         /\ \A k \in 1..z : packet[i + k] = 0
                         /\ packet[e] # 0 /\ l = 255 * z + base + packet[e]
    BY DEF LengthBytes
  <1>2. Len(packet) \in Nat
    OBVIOUS
  <1>3. \A k \in 0..(z - 1) : i + k < Len(packet) /\ At(i + k) = 0
    <2> TAKE k \in 0..(z - 1)
    <2>1. i + k < Len(packet) /\ k + 1 \in 1..z /\ i + k + 1 = i + (k + 1)
      BY <1>1, <1>2
    <2> QED BY <1>1, <2>1 DEF At
  <1>4. At(i + z) = packet[e] /\ i + z < Len(packet)
    BY <1>1, <1>2 DEF At
  <1>5. z \in ZerosFrom(i)
    BY <1>1, <1>2, <1>3, <1>4 DEF ZerosFrom
  <1>6. ASSUME NEW y \in ZerosFrom(i) PROVE y = z
    <2>1. /\ y \in Nat /\ \A k \in 0..(y - 1) : i + k < Len(packet) /\ At(i + k) = 0
          /\ i + y >= Len(packet) \/ At(i + y) # 0
      BY <1>2 DEF ZerosFrom
    <2>2. CASE y < z
      <3>1. y \in 0..(z - 1)
        BY <2>1, <2>2
      <3> QED BY <1>2, <1>3, <2>1, <3>1
    <2>3. CASE z < y
      <3>1. z \in 0..(y - 1)
        BY <2>1, <2>3
      <3> QED BY <1>1, <1>4, <2>1, <3>1
    <2> QED BY <2>1, <2>2, <2>3
  <1>7. ZerosFrom(i) = {z}
    BY <1>5, <1>6
  <1> QED BY <1>1, <1>4, <1>7 DEF LengthAt

\* The elements of a slice.
LEMMA SliceElements ==
    ASSUME NEW S, NEW s \in Seq(S), NEW i \in Nat, NEW n \in Nat, i + n =< Len(s)
    PROVE  \A k \in 1..n : Slice(s, i, i + n)[k] = s[i + k]
  <1>1. \A j \in (i + 1)..(i + n) : s[j] \in S
    OBVIOUS
  <1>2. i + 1 \in Int /\ i + n \in Int
    OBVIOUS
  <1>3. \A k \in 1..((i + n) - (i + 1) + 1) :
           SubSeq(s, i + 1, i + n)[k] = s[(i + 1) + k - 1]
    <2> DEFINE b == i + 1
               e == i + n
    <2>1. b \in Int /\ e \in Int /\ \A j \in b..e : s[j] \in S
      BY <1>1, <1>2
    <2> HIDE DEF b, e
    <2>2. \A k \in 1..(e - b + 1) : SubSeq(s, b, e)[k] = s[b + k - 1]
      BY <2>1, SubSeqProperties
    <2> QED BY <2>2 DEF b, e
  <1>4. \A k \in 1..n : k \in 1..((i + n) - (i + 1) + 1) /\ (i + 1) + k - 1 = i + k
    OBVIOUS
  <1> QED BY <1>3, <1>4 DEF Slice

\* The elements of a sequence with another one behind it.
LEMMA Behind ==
    ASSUME NEW S, NEW s \in Seq(S), NEW t \in Seq(S)
    PROVE  /\ \A k \in 1..Len(s) : (s \o t)[k] = s[k]
           /\ \A k \in 1..Len(t) : (s \o t)[Len(s) + k] = t[k]
  OBVIOUS

\* A byte that is there is read.
LEMMA AtIs ==
    ASSUME NEW i \in Nat, i < Len(packet)
    PROVE  At(i) = packet[i + 1]
  BY DEF At

\* Wherever literals end, a code of three bytes or more follows, which is no run.
LEMMA GoesOnRoom ==
    ASSUME packet \in Seq(0..255), NEW P, Encodes(packet, in, P), NEW q \in Nat, NEW n \in Nat,
           GoesOn(packet, in, P, q, n)
    PROVE  q + 3 =< Len(packet) /\ At(q) = packet[q + 1] /\ At(q) >= 16
  <1>1. Len(packet) \in Nat /\ At(q) \in 0..255
    BY AtByte
  <1>2. q + 3 =< Len(packet) /\ (At(q) = packet[q + 1] => packet[q + 1] >= 16)
    <2>1. CASE EndAt(packet, in, q, n)
      BY <1>1, <2>1 DEF EndAt
    <2>2. CASE \E b \in P : MatchTo(packet, in, q, n, b)
      <3>1. PICK b \in P : MatchTo(packet, in, q, n, b)
        BY <2>2
      <3>2. b.r \in Nat /\ b.r + 3 =< Len(packet)
        BY DEF Encodes, Mark
      <3>3. PICK len \in Nat, off \in 1..n : MatchAt(packet, q, len, off, b.r) /\ q + 2 =< b.r
        BY <3>1 DEF MatchTo
      <3>4. packet[q + 1] >= 64 \/ packet[q + 1] \in 32..63 \/ packet[q + 1] \in 16..31
        BY <3>3 DEF MatchAt
      <3>5. At(q) = packet[q + 1] => packet[q + 1] >= 16
        <4> DEFINE x == packet[q + 1]
        <4> SUFFICES ASSUME x \in 0..255, x >= 64 \/ x \in 32..63 \/ x \in 16..31 PROVE x >= 16
          BY <1>1, <3>4
        <4> HIDE DEF x
        <4> QED OBVIOUS
      <3> QED BY <1>1, <3>2, <3>3, <3>5
    <2> QED BY <2>1, <2>2 DEF GoesOn
  <1> QED BY <1>1, <1>2, AtIs

\* The literals that are taken are those of the input.
LEMMA LiteralsTaken ==
    ASSUME packet \in Seq(0..255), dec \in Seq(0..255), in \in Seq(0..255), size = Len(in),
           NEW n \in Nat, NEW t \in Nat, NEW q \in Nat, NEW then,
           DecodedTo(n), n + t =< Len(in), t =< q, q + 3 =< Len(packet),
           \A k \in 1..t : packet[q - t + k] = in[n + k],
           TakeLiterals(q - t, t, then), UNCHANGED <<in, packet>>
    PROVE  dec' \in Seq(0..255) /\ rp' = q /\ label' = then /\ DecodedTo(n + t)'
  <1> DEFINE run == Slice(packet, q - t, q)
             bytes == 0..255
  <1>0. Len(packet) \in Nat /\ Len(in) \in Nat /\ Len(dec) = n
    BY DEF DecodedTo
  <1>1. q - t \in Nat /\ (q - t) + t = q /\ (q - t) + t + 3 =< Len(packet) /\ ~(Len(dec) + t > size)
    BY <1>0
  <1>2. dec' = dec \o run /\ rp' = q /\ label' = then
    BY <1>0, <1>1 DEF TakeLiterals
  <1>3. /\ run \in Seq(bytes) /\ Len(run) = t
        /\ \A k \in 1..t : run[k] = packet[q - t + k]
    <2>1. /\ Slice(packet, q - t, (q - t) + t) \in Seq(bytes)
          /\ Len(Slice(packet, q - t, (q - t) + t)) = t
      <3>1. packet \in Seq(bytes) /\ (q - t) + t =< Len(packet)
        BY <1>0, <1>1
      <3> HIDE DEF bytes
      <3> QED BY <1>1, <3>1, SliceOf
    <2>2. \A k \in 1..t : Slice(packet, q - t, (q - t) + t)[k] = packet[q - t + k]
      <3>1. packet \in Seq(bytes) /\ (q - t) + t =< Len(packet)
        BY <1>0, <1>1
      <3> HIDE DEF bytes
      <3> QED BY <1>1, <3>1, SliceElements, ZenonT(30)
    <2> QED BY <1>1, <2>1, <2>2
  <1> HIDE DEF run
  <1>4. /\ dec' \in Seq(bytes) /\ Len(dec') = n + t
        /\ \A k \in 1..n : dec'[k] = dec[k]
        /\ \A k \in 1..t : dec'[n + k] = run[k]
    <2>1. dec \in Seq(bytes)
      OBVIOUS
    <2> HIDE DEF bytes
    <2>2. dec' \in Seq(bytes) /\ Len(dec') = Len(dec) + Len(run)
      BY <1>2, <1>3, <2>1, Extended, ZenonT(30)
    <2>3. /\ \A k \in 1..Len(dec) : dec'[k] = dec[k]
          /\ \A k \in 1..Len(run) : dec'[Len(dec) + k] = run[k]
      BY <1>2, <1>3, <2>1, Behind
    <2> QED BY <1>0, <1>3, <2>2, <2>3
  <1>5. ASSUME NEW k \in 1..(n + t) PROVE dec'[k] = in[k]
    <2>1. CASE k =< n
      BY <1>4, <2>1 DEF DecodedTo
    <2>2. CASE k > n
      <3>1. k - n \in 1..t /\ n + (k - n) = k
        BY <2>2
      <3>2. dec'[n + (k - n)] = packet[q - t + (k - n)] /\ packet[q - t + (k - n)] = in[n + (k - n)]
        BY <1>3, <1>4, <3>1
      <3> QED BY <3>1, <3>2
    <2> QED BY <2>1, <2>2
  <1> QED BY <1>2, <1>4, <1>5 DEF DecodedTo

\* What is copied for a match is what follows in the input.
LEMMA MatchCopied ==
    ASSUME dec \in Seq(0..255), in \in Seq(0..255), size = Len(in),
           NEW n \in Nat, NEW len \in Nat, NEW m_off \in 1..n, NEW end,
           DecodedTo(n), n + len =< Len(in),
           Repeats(in, n, len, m_off),
           CopyMatch(m_off, len, end), UNCHANGED in
    PROVE  dec' \in Seq(0..255) /\ rp' = end /\ label' = "match_done" /\ DecodedTo(n + len)'
  <1> DEFINE copy == CopyOf(dec, m_off, len)
             bytes == 0..255
  <1>0. Len(dec) = n /\ Len(in) \in Nat
    BY DEF DecodedTo
  <1>1. dec' = dec \o copy /\ rp' = end /\ label' = "match_done"
    BY <1>0 DEF CopyMatch
  <1>2. copy \in Seq(bytes) /\ Len(copy) = len
    <2>1. dec \in Seq(bytes)
      OBVIOUS
    <2> HIDE DEF bytes
    <2> QED BY <1>0, <2>1, CopyOfSeq, ZenonT(30)
  <1>3. Spells(copy, in, n)
    <2>1. Spells(dec, in, 0)
      BY DEF DecodedTo, Spells
    <2> QED BY <1>0, <2>1, CopyRepeats
  <1>a. \A k \in 1..len : copy[k] = in[n + k]
    BY <1>2, <1>3 DEF Spells
  <1> HIDE DEF copy
  <1>4. /\ dec' \in Seq(bytes) /\ Len(dec') = n + len
        /\ \A k \in 1..n : dec'[k] = dec[k]
        /\ \A k \in 1..len : dec'[n + k] = copy[k]
    <2>1. dec \in Seq(bytes)
      OBVIOUS
    <2> HIDE DEF bytes
    <2>2. dec' \in Seq(bytes) /\ Len(dec') = Len(dec) + Len(copy)
      BY <1>1, <1>2, <2>1, Extended, ZenonT(30)
    <2>3. /\ \A k \in 1..Len(dec) : dec'[k] = dec[k]
          /\ \A k \in 1..Len(copy) : dec'[Len(dec) + k] = copy[k]
      BY <1>1, <1>2, <2>1, Behind
    <2> QED BY <1>0, <1>2, <2>2, <2>3
  <1>5. ASSUME NEW k \in 1..(n + len) PROVE dec'[k] = in[k]
    <2>1. CASE k =< n
      BY <1>4, <2>1 DEF DecodedTo
    <2>2. CASE k > n
      <3>1. k - n \in 1..len /\ n + (k - n) = k
        BY <2>2
      <3> QED BY <1>a, <1>4, <3>1
    <2> QED BY <2>1, <2>2
  <1> QED BY <1>1, <1>4, <1>5 DEF DecodedTo


\* The literals that the state is before can be taken.
LEMMA ReadingLiterals ==
    ASSUME NEW P, NEW a, NEW t, NEW q, Reading(P, a, t, q), NEW then,
           DecodedTo(a.n), TakeLiterals(q - t, t, then), UNCHANGED <<in, packet, size>>,
           then \in {"first_literal_run", "match"}
    PROVE  Reading(P, a, t, q)'
  <1>1. /\ packet \in Seq(0..255) /\ in \in Seq(0..255) /\ dec \in Seq(0..255) /\ size = Len(in)
        /\ Encodes(packet, in, P) /\ a \in P /\ t \in Nat /\ q \in Nat
        /\ LiteralsAt(packet, in, a, t, q) /\ GoesOn(packet, in, P, q, a.n + t)
    BY DEF Reading
  <1>2. a.n \in Nat
    BY <1>1 DEF Encodes, Mark
  <1>3. q + 3 =< Len(packet)
    <2>1. a.n + t \in Nat
      BY <1>1, <1>2
    <2> QED BY <1>1, <2>1, GoesOnRoom
  <1>4. /\ a.n + t =< Len(in) /\ t =< q
        /\ \A k \in 1..t : packet[q - t + k] = in[a.n + k]
    BY <1>1 DEF LiteralsAt
  <1>5. dec' \in Seq(0..255) /\ rp' = q /\ label' = then /\ DecodedTo(a.n + t)'
    BY <1>1, <1>2, <1>3, <1>4, LiteralsTaken
  <1>6. PlaceAt(a, t, q)'
    BY <1>5 DEF PlaceAt
  <1> QED BY <1>1, <1>5, <1>6 DEF Reading

\* What the state has in common with the one before it.
LEMMA ReadingStays ==
    ASSUME NEW P, NEW a, NEW t, NEW q, Reading(P, a, t, q),
           UNCHANGED <<in, packet, size, dec>>, PlaceAt(a, t, q)'
    PROVE  Reading(P, a, t, q)'
  BY DEF Reading

\* The first byte.
LEMMA BeginReads ==
    ASSUME NEW P, NEW a, NEW t, NEW q, Reading(P, a, t, q), Begin, UNCHANGED in
    PROVE  Reading(P, a, t, q)'
  <1>1. /\ packet \in Seq(0..255) /\ Encodes(packet, in, P) /\ t \in Nat /\ q \in Nat
        /\ a = Start /\ rp = 0 /\ DecodedTo(0) /\ UNCHANGED <<in, packet, size>>
        /\ LiteralsAt(packet, in, a, t, q) /\ GoesOn(packet, in, P, q, a.n + t)
    BY DEF Reading, PlaceAt, Begin
  <1>2. a.r = 0 /\ a.n = 0
    BY <1>1 DEF Start
  <1>3. q + 3 =< Len(packet) /\ Len(packet) \in Nat
    <2>1. a.n + t \in Nat
      BY <1>1, <1>2
    <2> QED BY <1>1, <2>1, GoesOnRoom
  <1>4. At(0) = packet[1] /\ At(0) \in 0..255
    BY <1>1, <1>3, AtIs, AtByte
  <1>5. CASE t >= 4 /\ RunAt(packet, a.r, t, q - t)
    <2>1. At(0) =< 17
      BY <1>2, <1>4, <1>5 DEF RunAt
    <2>2. label' = "loop" /\ UNCHANGED <<rp, dec>>
      <3>1. ~(Len(packet) < 1)
        BY <1>1, <1>3
      <3> QED BY <2>1, <3>1, Zenon DEF Begin
    <2>3. PlaceAt(a, t, q)'
      BY <1>1, <1>2, <1>5, <2>2 DEF PlaceAt, DecodedTo
    <2> QED BY <1>1, <2>2, <2>3, ReadingStays
  <1>6. CASE t \in 1..238 /\ q = 1 + t /\ packet[1] = 17 + t
    <2>1. At(0) - 17 = t /\ q - t = 1 /\ ~(At(0) =< 17) /\ ~(Len(packet) < 1)
      BY <1>3, <1>4, <1>6
    <2>2. \E then \in {"first_literal_run", "match"} : TakeLiterals(q - t, t, then)
      BY <2>1 DEF Begin
    <2> QED BY <1>1, <1>2, <2>2, ReadingLiterals
  <1>7. CASE t = 0 /\ q = 0 /\ packet[1] =< 17
    <2>0. At(0) =< 17 /\ ~(Len(packet) < 1)
      BY <1>3, <1>4, <1>7
    <2>1. label' = "loop" /\ UNCHANGED <<rp, dec>>
      BY <2>0 DEF Begin
    <2>2. PlaceAt(a, t, q)'
      BY <1>1, <1>2, <1>7, <2>1 DEF PlaceAt, DecodedTo
    <2> QED BY <1>1, <2>1, <2>2, ReadingStays
  <1> QED BY <1>1, <1>2, <1>5, <1>6, <1>7 DEF LiteralsAt

\* The head of the loop: a run, or none.
LEMMA LiteralRunReads ==
    ASSUME NEW P, NEW a, NEW t, NEW q, Reading(P, a, t, q), LiteralRun, UNCHANGED in
    PROVE  Reading(P, a, t, q)'
  <1>1. /\ packet \in Seq(0..255) /\ Encodes(packet, in, P) /\ a \in P /\ t \in Nat /\ q \in Nat
        /\ rp = a.r /\ DecodedTo(a.n) /\ UNCHANGED <<in, packet, size>>
        /\ LiteralsAt(packet, in, a, t, q) /\ GoesOn(packet, in, P, q, a.n + t)
        /\ \/ t >= 4 /\ RunAt(packet, a.r, t, q - t)
           \/ t = 0 /\ q = a.r
    BY DEF Reading, PlaceAt, LiteralRun
  <1>2. a.r \in Nat /\ a.n \in Nat /\ a.r + 3 =< Len(packet) /\ Len(packet) \in Nat
    BY <1>1 DEF Encodes, Mark
  <1>3. q + 3 =< Len(packet) /\ At(q) >= 16
    <2>1. a.n + t \in Nat
      BY <1>1, <1>2
    <2> QED BY <1>1, <2>1, GoesOnRoom
  <1>4. At(rp) = packet[a.r + 1] /\ At(rp) \in 0..255 /\ ~(rp + 3 > Len(packet))
    <2>1. rp \in Nat /\ rp < Len(packet) /\ ~(rp + 3 > Len(packet))
      BY <1>1, <1>2
    <2>2. At(rp) = packet[rp + 1] /\ At(rp) \in 0..255
      BY <1>1, <2>1, AtIs, AtByte
    <2> QED BY <1>1, <2>1, <2>2
  <1>5. CASE t = 0 /\ q = a.r
    <2>1. label' = "match" /\ UNCHANGED <<rp, dec>>
      BY <1>1, <1>3, <1>4, <1>5 DEF LiteralRun
    <2>2. DecodedTo(a.n + t)'
      BY <1>1, <1>2, <1>5, <2>1 DEF DecodedTo
    <2>3. PlaceAt(a, t, q)'
      BY <1>1, <1>5, <2>1, <2>2 DEF PlaceAt
    <2> QED BY <1>1, <2>1, <2>3, ReadingStays
  <1>6. CASE packet[a.r + 1] \in 1..15 /\ t = packet[a.r + 1] + 3 /\ q - t = a.r + 1
    <2>1. ~(At(rp) >= 16) /\ At(rp) > 0 /\ At(rp) + 3 = t /\ rp + 1 = q - t
      <3> DEFINE x == packet[a.r + 1]
      <3>1. At(rp) = x /\ x \in 1..15 /\ t = x + 3 /\ q - t = a.r + 1
        BY <1>4, <1>6
      <3> HIDE DEF x
      <3> QED BY <1>1, <3>1
    <2>2. TakeLiterals(q - t, t, "first_literal_run")
      BY <1>4, <2>1 DEF LiteralRun
    <2> QED BY <1>1, <2>2, ReadingLiterals
  <1>7. CASE packet[a.r + 1] = 0 /\ LengthBytes(packet, a.r + 1, 15, t - 3, q - t)
    <2>1. ~(At(rp) >= 16) /\ ~(At(rp) > 0) /\ rp + 1 = a.r + 1 /\ a.r + 1 \in Nat
      BY <1>1, <1>2, <1>4, <1>7
    <2>2. LengthAt(rp + 1, 15) = {[t |-> t - 3, end |-> q - t]} /\ q - t =< Len(packet)
      BY <1>1, <1>7, <2>1, LengthRead
    <2>3. PICK long \in LengthAt(rp + 1, 15) :
             IF long.end > Len(packet) THEN Return("input_overrun")
             ELSE TakeLiterals(long.end, long.t + 3, "first_literal_run")
      BY <1>4, <2>1 DEF LiteralRun
    <2>4. long.end = q - t /\ long.t + 3 = t
      BY <1>1, <2>2, <2>3
    <2>5. ~(long.end > Len(packet))
      BY <1>1, <1>2, <2>2, <2>4
    <2>6. TakeLiterals(q - t, t, "first_literal_run")
      BY <2>3, <2>4, <2>5
    <2> QED BY <1>1, <2>6, ReadingLiterals
  <1> QED BY <1>1, <1>5, <1>6, <1>7 DEF RunAt

\* Behind a run of literals there is a match.
LEMMA FirstLiteralRunReads ==
    ASSUME NEW P, NEW a, NEW t, NEW q, Reading(P, a, t, q), FirstLiteralRun, UNCHANGED in
    PROVE  Reading(P, a, t, q)'
  <1>1. /\ packet \in Seq(0..255) /\ Encodes(packet, in, P) /\ a \in P /\ t \in Nat /\ q \in Nat
        /\ rp = q /\ DecodedTo(a.n + t) /\ UNCHANGED <<in, packet, size>>
        /\ GoesOn(packet, in, P, q, a.n + t)
    BY DEF Reading, PlaceAt, FirstLiteralRun
  <1>2. At(q) >= 16
    <2>1. a.n + t \in Nat
      BY <1>1, SMTT(30) DEF Encodes, Mark
    <2> QED BY <1>1, <2>1, GoesOnRoom
  <1>3. label' = "match" /\ UNCHANGED <<rp, dec>>
    BY <1>1, <1>2 DEF FirstLiteralRun
  <1>4. PlaceAt(a, t, q)'
    BY <1>1, <1>3 DEF PlaceAt, DecodedTo
  <1> QED BY <1>1, <1>3, <1>4, ReadingStays

\* The literals behind a match are counted in its last but one byte.
LEMMA MatchDoneReads ==
    ASSUME NEW P, NEW a, NEW t, NEW q, Reading(P, a, t, q), MatchDone, UNCHANGED in
    PROVE  Reading(P, a, t, q)'
  <1>1. /\ packet \in Seq(0..255) /\ Encodes(packet, in, P) /\ a \in P /\ t \in Nat /\ q \in Nat
        /\ rp = a.r /\ a.r >= 2 /\ DecodedTo(a.n) /\ UNCHANGED <<in, packet, size>>
        /\ LiteralsAt(packet, in, a, t, q)
    BY DEF Reading, PlaceAt, MatchDone
  <1>2. a.r \in Nat /\ a.n \in Nat /\ a.r + 3 =< Len(packet) /\ Len(packet) \in Nat
    BY <1>1 DEF Encodes, Mark
  <1>3. At(rp - 2) = packet[a.r - 1]
    <2>1. rp - 2 \in Nat /\ rp - 2 < Len(packet) /\ rp - 2 + 1 = a.r - 1
      BY <1>1, <1>2
    <2> QED BY <2>1, AtIs
  <1>4. CASE t \in 1..3 /\ q = a.r + t /\ packet[a.r - 1] % 4 = t
    <2>1. TakeLiterals(q - t, t, "match")
      <3>1. At(rp - 2) % 4 = t /\ t # 0 /\ q - t = rp
        BY <1>1, <1>2, <1>3, <1>4, SMTT(30)
      <3> QED BY <3>1 DEF MatchDone
    <2> QED BY <1>1, <2>1, ReadingLiterals
  <1>5. CASE /\ packet[a.r - 1] % 4 = 0
             /\ (t >= 4 /\ RunAt(packet, a.r, t, q - t)) \/ (t = 0 /\ q = a.r)
    <2>1. label' = "loop" /\ UNCHANGED <<rp, dec>>
      BY <1>3, <1>5 DEF MatchDone
    <2>2. PlaceAt(a, t, q)'
      BY <1>1, <1>5, <2>1 DEF PlaceAt, DecodedTo
    <2> QED BY <1>1, <2>1, <2>2, ReadingStays
  <1> QED BY <1>1, <1>4, <1>5 DEF LiteralsAt


\* The lengths FarMatch may read behind position q.
LengthsAt(q, mask) == IF At(q) % (mask + 1) = 0 THEN LengthAt(q + 1, mask)
                      ELSE {[t |-> At(q) % (mask + 1), end |-> q + 1]}

\* The only length that can be read where a length of a match is.
LEMMA FarLength ==
    ASSUME packet \in Seq(0..255), NEW q \in Nat, NEW mask \in Nat, mask = 7 \/ mask = 31,
           NEW len \in Nat, NEW e \in Nat, MatchLengthAt(packet, q, mask, len, e),
           At(q) = packet[q + 1]
    PROVE  LengthsAt(q, mask) = {[t |-> len - 2, end |-> e]}
  <1> DEFINE short == At(q) % (mask + 1)
  <1>1. \/ short # 0 /\ len = short + 2 /\ e = q + 1
        \/ short = 0 /\ LengthBytes(packet, q + 1, mask, len - 2, e)
    BY DEF MatchLengthAt
  <1>2. short \in Int
    <2>1. At(q) \in 0..255
      BY AtByte
    <2>2. \A x \in 0..255 : x % 8 \in Int /\ x % 32 \in Int
      OBVIOUS
    <2>3. mask + 1 = 8 \/ mask + 1 = 32
      OBVIOUS
    <2> QED BY <2>1, <2>2, <2>3
  <1> HIDE DEF short
  <1>3. CASE short # 0
    <2>1. len - 2 = short
      BY <1>1, <1>2, <1>3
    <2>2. [t |-> short, end |-> q + 1] = [t |-> len - 2, end |-> e]
      BY <1>1, <1>3, <2>1
    <2> QED BY <1>3, <2>2, Zenon DEF short, LengthsAt
  <1>4. CASE short = 0
    <2>1. LengthAt(q + 1, mask) = {[t |-> len - 2, end |-> e]}
      <3>1. q + 1 \in Nat
        OBVIOUS
      <3> QED BY <1>1, <1>4, <3>1, LengthRead
    <2> QED BY <1>4, <2>1, Zenon DEF short, LengthsAt
  <1> QED BY <1>3, <1>4

\* A match with its length under a mask is copied from where it says.
LEMMA FarMatchReads ==
    ASSUME packet \in Seq(0..255), NEW q \in Nat, NEW mask \in Nat, mask = 7 \/ mask = 31,
           NEW len \in Nat,
           NEW base \in Nat, NEW nearest \in Nat, NEW r \in Nat, NEW off \in Nat,
           q + 2 =< r, r + 3 =< Len(packet), rp = q,
           MatchLengthAt(packet, q, mask, len, r - 2),
           off = base + packet[r - 1] \div 4 + packet[r] * 64 + nearest, off > nearest,
           FarMatch(At(q), mask, base, nearest)
    PROVE  CopyMatch(off, len, r)
  <1> DEFINE e == r - 2
  <1>1. e \in Nat /\ e + 1 = r - 1 /\ e + 2 = r /\ Len(packet) \in Nat /\ q < Len(packet)
    BY SMTT(30)
  <1>a. MatchLengthAt(packet, q, mask, len, e)
    OBVIOUS
  <1>2. At(q) = packet[q + 1] /\ At(e) = packet[r - 1] /\ At(e + 1) = packet[r]
    <2>1. At(q) = packet[q + 1] /\ At(e) = packet[e + 1] /\ At(e + 1) = packet[e + 1 + 1]
      <3> HIDE DEF e
      <3>1. e + 1 \in Nat /\ e < Len(packet) /\ e + 1 < Len(packet)
        BY <1>1
      <3> QED BY <1>1, <3>1, AtIs
    <2> QED BY <1>1, <2>1
  <1>3. LengthsAt(q, mask) = {[t |-> len - 2, end |-> e]}
    <2> HIDE DEF e
    <2> QED BY <1>1, <1>a, <1>2, FarLength, SMTT(90)
  <1>4. PICK length \in {[t |-> len - 2, end |-> e]} :
           IF At(q) % (mask + 1) = 0 /\ length.end + 2 > Len(packet) THEN Return("input_overrun")
           ELSE IF base + At(length.end) \div 4 + At(length.end + 1) * 64 = 0
           THEN EofFound(length.end + 2)
           ELSE CopyMatch(base + At(length.end) \div 4 + At(length.end + 1) * 64 + nearest,
                          length.t + 2, length.end + 2)
    <2> HIDE DEF e
    <2> QED BY <1>3, Zenon DEF FarMatch, LengthsAt
  <1> DEFINE m_off == base + At(e) \div 4 + At(e + 1) * 64
  <1>5. m_off + nearest = off /\ m_off # 0
    <2>1. m_off = base + packet[r - 1] \div 4 + packet[r] * 64
      BY <1>2
    <2>2. m_off \in Nat
      <3>1. At(e) \in 0..255 /\ At(e + 1) \in 0..255
        <4> HIDE DEF e
        <4>1. e + 1 \in Nat
          BY <1>1
        <4> QED BY <1>1, <4>1, AtByte
      <3> QED BY <3>1, FarOffsetOf, ZenonT(30)
    <2> HIDE DEF m_off
    <2> QED BY <2>1, <2>2
  <1>6. /\ length.end = e /\ length.t + 2 = len
        /\ ~(length.end + 2 > Len(packet)) /\ length.end + 2 = r
    <2>1. length = [t |-> len - 2, end |-> e]
      BY <1>4
    <2>2. length.end = e /\ length.t = len - 2
      <3> HIDE DEF e
      <3> QED BY <2>1
    <2> QED BY <1>1, <2>2
  <1> HIDE DEF m_off, e
  <1>7. m_off = base + At(length.end) \div 4 + At(length.end + 1) * 64
    BY <1>6 DEF m_off
  <1> QED BY <1>4, <1>5, <1>6, <1>7

\* What Match does with the byte it is at, if that is 64 or more.
LEMMA MatchNear ==
    ASSUME Match, At(rp) >= 64
    PROVE  CopyMatch(1 + ((At(rp) \div 4) % 8) + At(rp + 1) * 8, At(rp) \div 32 + 1, rp + 2)
  BY DEF Match

\* Under 64.
LEMMA MatchMiddle ==
    ASSUME Match, ~(At(rp) >= 64), At(rp) >= 32
    PROVE  FarMatch(At(rp), 31, 1, 0)
  BY DEF Match

\* Under 32.
LEMMA MatchFar ==
    ASSUME Match, ~(At(rp) >= 64), ~(At(rp) >= 32), At(rp) >= 16
    PROVE  FarMatch(At(rp), 7, ((At(rp) \div 8) % 2) * 16384, M3_MAX_OFFSET)
  BY DEF Match

\* The end of the packet is taken for what it is.
LEMMA EndReads ==
    ASSUME packet \in Seq(0..255), in \in Seq(0..255), dec \in Seq(0..255), NEW q \in Nat, rp = q,
           NEW n \in Nat, DecodedTo(n), EndAt(packet, in, q, n), Match, UNCHANGED in
    PROVE  Done'
  <1>1. /\ n = Len(in) /\ q + 3 = Len(packet) /\ Len(packet) \in Nat
        /\ packet[q + 1] = 17 /\ packet[q + 2] = 0 /\ packet[q + 3] = 0
    BY DEF EndAt
  <1>2. At(q) = 17 /\ At(q + 1) = 0 /\ At(q + 2) = 0
    <2>1. /\ q + 1 \in Nat /\ q + 2 \in Nat /\ q < Len(packet) /\ q + 1 < Len(packet)
          /\ q + 2 < Len(packet) /\ q + 1 + 1 = q + 2 /\ q + 2 + 1 = q + 3
      BY <1>1
    <2>2. At(q) = packet[q + 1] /\ At(q + 1) = packet[q + 1 + 1] /\ At(q + 2) = packet[q + 2 + 1]
      BY <2>1, AtIs
    <2> QED BY <1>1, <2>1, <2>2
  <1>3. FarMatch(17, 7, 0, M3_MAX_OFFSET)
    <2>1. At(rp) = 17 /\ ~(17 >= 64) /\ ~(17 >= 32) /\ 17 >= 16 /\ ((17 \div 8) % 2) * 16384 = 0
      BY <1>2
    <2>2. FarMatch(At(rp), 7, ((At(rp) \div 8) % 2) * 16384, M3_MAX_OFFSET)
      BY <2>1, MatchFar
    <2> QED BY <2>1, <2>2
  <1>4. PICK length \in {[t |-> 17 % (7 + 1), end |-> q + 1]} :
           IF 17 % (7 + 1) = 0 /\ length.end + 2 > Len(packet) THEN Return("input_overrun")
           ELSE IF 0 + At(length.end) \div 4 + At(length.end + 1) * 64 = 0
           THEN EofFound(length.end + 2)
           ELSE CopyMatch(0 + At(length.end) \div 4 + At(length.end + 1) * 64 + M3_MAX_OFFSET,
                          length.t + 2, length.end + 2)
    <2>1. ~(17 % (7 + 1) = 0)
      OBVIOUS
    <2> QED BY <1>3, <2>1, Zenon DEF FarMatch
  <1>5. length.end = q + 1 /\ length.end + 1 = q + 2 /\ length.end + 2 = q + 3
    BY <1>4
  <1>6. EofFound(q + 3)
    <2>1. 0 + At(length.end) \div 4 + At(length.end + 1) * 64 = 0 /\ ~(17 % (7 + 1) = 0)
      BY <1>2, <1>5
    <2>2. EofFound(length.end + 2)
      BY <1>4, <2>1, Zenon
    <2> QED BY <1>5, <2>2
  <1>7. label' = "done" /\ status' = "ok" /\ dec' = dec
    BY <1>1, <1>6 DEF EofFound
  <1>8. dec = in
    BY <1>1, SMTT(30) DEF DecodedTo
  <1> QED BY <1>7, <1>8 DEF Done

\* At a match, the match is copied.
LEMMA MatchIsCopied ==
    ASSUME packet \in Seq(0..255), NEW q \in Nat, rp = q, NEW len \in Nat, NEW n \in Nat,
           NEW off \in 1..n, NEW r \in Nat,
           q + 2 =< r, r + 3 =< Len(packet), MatchAt(packet, q, len, off, r), Match
    PROVE  CopyMatch(off, len, r)
  <1> DEFINE x == packet[q + 1]
  <1>1. At(q) = x /\ x \in 0..255 /\ Len(packet) \in Nat
    <2>1. Len(packet) \in Nat /\ q < Len(packet)
      OBVIOUS
    <2> QED BY <2>1, AtIs, AtByte
  <1>2. off \in Nat /\ off > 0
    OBVIOUS
  <1>3. \/ /\ x >= 64 /\ r = q + 2 /\ len = x \div 32 + 1
           /\ off = 1 + ((x \div 4) % 8) + packet[q + 2] * 8
        \/ /\ x \in 32..63 /\ MatchLengthAt(packet, q, 31, len, r - 2)
           /\ off = 1 + packet[r - 1] \div 4 + packet[r] * 64
        \/ /\ x \in 16..31 /\ MatchLengthAt(packet, q, 7, len, r - 2) /\ off > M3_MAX_OFFSET
           /\ off = ((x \div 8) % 2) * 16384 + packet[r - 1] \div 4 + packet[r] * 64
                    + M3_MAX_OFFSET
    BY DEF MatchAt
  <1> HIDE DEF x
  <1>4. At(rp) = x
    BY <1>1
  <1>5. CASE /\ x >= 64 /\ r = q + 2 /\ len = x \div 32 + 1
             /\ off = 1 + ((x \div 4) % 8) + packet[q + 2] * 8
    <2>1. At(q + 1) = packet[q + 2]
      <3>1. q + 1 \in Nat /\ q + 1 < Len(packet) /\ q + 1 + 1 = q + 2
        BY <1>1
      <3> QED BY <3>1, AtIs
    <2>2. CopyMatch(1 + ((x \div 4) % 8) + At(q + 1) * 8, x \div 32 + 1, q + 2)
      BY <1>4, <1>5, MatchNear
    <2> QED BY <1>5, <2>1, <2>2
  <1>6. CASE /\ x \in 32..63 /\ MatchLengthAt(packet, q, 31, len, r - 2)
             /\ off = 1 + packet[r - 1] \div 4 + packet[r] * 64
    <2>1. FarMatch(At(q), 31, 1, 0)
      <3>1. ~(x >= 64) /\ x >= 32
        BY <1>6
      <3> QED BY <1>4, <3>1, MatchMiddle
    <2>2. off = 1 + packet[r - 1] \div 4 + packet[r] * 64 + 0
      BY <1>2, <1>6
    <2> QED BY <1>2, <1>6, <2>1, <2>2, FarMatchReads
  <1>7. CASE /\ x \in 16..31 /\ MatchLengthAt(packet, q, 7, len, r - 2) /\ off > M3_MAX_OFFSET
             /\ off = ((x \div 8) % 2) * 16384 + packet[r - 1] \div 4 + packet[r] * 64
                      + M3_MAX_OFFSET
    <2> DEFINE base == ((x \div 8) % 2) * 16384
    <2>1. FarMatch(At(q), 7, base, M3_MAX_OFFSET)
      <3>1. ~(x >= 64) /\ ~(x >= 32) /\ x >= 16
        BY <1>7
      <3>2. FarMatch(At(rp), 7, ((At(rp) \div 8) % 2) * 16384, M3_MAX_OFFSET)
        BY <1>4, <3>1, MatchFar
      <3> QED BY <1>4, <3>2
    <2>2. base \in Nat /\ M3_MAX_OFFSET \in Nat
      BY <1>1, M4BaseOf, MiniLZOAssumption
    <2> HIDE DEF base
    <2>3. off = base + packet[r - 1] \div 4 + packet[r] * 64 + M3_MAX_OFFSET
      BY <1>7 DEF base
    <2>4. 7 \in Nat /\ MatchLengthAt(packet, q, 7, len, r - 2) /\ off > M3_MAX_OFFSET
      BY <1>7
    <2> QED BY <1>2, <2>1, <2>2, <2>3, <2>4, FarMatchReads
  <1> QED BY <1>3, <1>5, <1>6, <1>7

\* At a match the decompressor is at a mark afterwards, at the end it is done.
LEMMA MatchReads ==
    ASSUME NEW P, NEW a, NEW t, NEW q, Reading(P, a, t, q), Match, UNCHANGED in
    PROVE  Done' \/ Decodes'
  <1>1. /\ packet \in Seq(0..255) /\ in \in Seq(0..255) /\ dec \in Seq(0..255) /\ size = Len(in)
        /\ Encodes(packet, in, P) /\ a \in P /\ t \in Nat /\ q \in Nat
        /\ rp = q /\ DecodedTo(a.n + t) /\ UNCHANGED <<in, packet, size>>
        /\ GoesOn(packet, in, P, q, a.n + t)
    <2>1. label = "match" /\ UNCHANGED <<packet, size>>
      BY DEF Match
    <2>2. PlaceAt(a, t, q)
      BY DEF Reading
    <2>3. rp = q /\ DecodedTo(a.n + t)
      BY <2>1, <2>2 DEF PlaceAt
    <2> QED BY <2>1, <2>3 DEF Reading
  <1>2. a.n + t \in Nat
    <2>1. a \in Mark
      BY <1>1 DEF Encodes
    <2> QED BY <1>1, <2>1 DEF Mark
  <1>3. CASE EndAt(packet, in, q, a.n + t)
    BY <1>1, <1>2, <1>3, EndReads
  <1>4. CASE \E b \in P : MatchTo(packet, in, q, a.n + t, b)
    <2> DEFINE n == a.n + t
    <2>0. n \in Nat /\ DecodedTo(n)
      BY <1>1, <1>2
    <2>1. PICK b \in P : MatchTo(packet, in, q, n, b)
      BY <1>4
    <2> HIDE DEF n
    <2>2. /\ b \in Mark /\ b.r + 3 =< Len(packet) /\ b.n =< Len(in)
          /\ \E t2, q2 \in Nat : LiteralsAt(packet, in, b, t2, q2)
                                 /\ GoesOn(packet, in, P, q2, b.n + t2)
      BY <1>1 DEF Encodes
    <2>3. PICK len \in Nat, off \in 1..n : /\ MatchAt(packet, q, len, off, b.r)
                                           /\ q + 2 =< b.r
                                           /\ b.n = n + len
                                           /\ Repeats(in, n, len, off)
      BY <2>1 DEF MatchTo
    <2>4. b.r \in Nat /\ b.n \in Nat /\ b.r >= 2
      BY <1>1, <2>2, <2>3 DEF Mark
    <2>5. CopyMatch(off, len, b.r)
      BY <1>1, <2>0, <2>2, <2>3, <2>4, MatchIsCopied
    <2>6. n + len =< Len(in)
      BY <2>2, <2>3
    <2>7. /\ dec' \in Seq(0..255) /\ rp' = b.r /\ label' = "match_done"
          /\ DecodedTo(n + len)'
      BY <1>1, <2>0, <2>3, <2>5, <2>6, MatchCopied
    <2>8. PICK t2, q2 \in Nat : LiteralsAt(packet, in, b, t2, q2)
                                /\ GoesOn(packet, in, P, q2, b.n + t2)
      BY <2>2
    <2>9. PlaceAt(b, t2, q2)'
      BY <2>3, <2>4, <2>7 DEF PlaceAt, DecodedTo
    <2>10. Reading(P, b, t2, q2)'
      BY <1>1, <2>7, <2>8, <2>9 DEF Reading
    <2> QED BY <2>10 DEF Decodes
  <1> QED BY <1>1, <1>3, <1>4 DEF GoesOn

\* Each step of the decompressor reads on, or is its last.
LEMMA DecodeReads == ASSUME Decodes, Decode, UNCHANGED in PROVE Done' \/ Decodes'
  <1>1. PICK P : \E a \in P : \E t, q \in Nat : Reading(P, a, t, q)
    BY DEF Decodes
  <1>2. PICK a \in P, t \in Nat, q \in Nat : Reading(P, a, t, q)
    BY <1>1
  <1>3. Match => Done' \/ Decodes'
    BY <1>2, MatchReads
  <1>4. Begin \/ LiteralRun \/ FirstLiteralRun \/ MatchDone => Reading(P, a, t, q)'
    BY <1>2, BeginReads, LiteralRunReads, FirstLiteralRunReads, MatchDoneReads
  <1> QED BY <1>2, <1>3, <1>4 DEF Decode, Decodes

-------------------------------------------------------------------------------
(* What the compressor writes                                                *)

\* What a byte can be.
Bytes == 0..255

\* The bytes of a long length count it.
LEMMA LongLengthWritten ==
    ASSUME NEW n \in Nat \ {0}, NEW p, Len(p) \in Nat, NEW i \in Nat, NEW base \in Nat,
           i + Len(LongLength(n)) =< Len(p), Spells(LongLength(n), p, i)
    PROVE  /\ LengthBytes(p, i, base, n + base, i + Len(LongLength(n)))
           /\ Len(LongLength(n)) \in Nat \ {0}
  <1> DEFINE z == (n - 1) \div 255
             zeros == [k \in 1..z |-> 0]
             rest == n - 255 * z
  <1>1. z \in Nat /\ rest \in 1..255
    OBVIOUS
  <1>2. LongLength(n) = zeros \o <<rest>>
    BY DEF LongLength
  <1> HIDE DEF z, rest
  <1>3. zeros \in Seq(Bytes) /\ Len(zeros) = z /\ \A k \in 1..z : zeros[k] = 0
    BY <1>1 DEF Bytes
  <1> HIDE DEF zeros
  <1>4. Len(LongLength(n)) = z + 1
    BY <1>1, <1>2, <1>3
  <1>5. LongLength(n)[z + 1] = rest /\ \A k \in 1..z : LongLength(n)[k] = 0
    BY <1>1, <1>2, <1>3
  <1>6. p[i + (z + 1)] = rest /\ \A k \in 1..z : p[i + k] = 0
    <2>1. \A k \in 1..(z + 1) : LongLength(n)[k] = p[i + k]
      BY <1>4 DEF Spells
    <2>2. z + 1 \in 1..(z + 1) /\ \A k \in 1..z : k \in 1..(z + 1)
      BY <1>1
    <2> QED BY <1>5, <2>1, <2>2, Zenon
  <1>7. n + base = 255 * z + base + rest
    BY <1>1 DEF rest
  <1>8. i + (z + 1) = i + z + 1 /\ rest # 0
    BY <1>1
  <1> QED BY <1>1, <1>4, <1>6, <1>7, <1>8 DEF LengthBytes

\* They are bytes.
LEMMA LongLengthBytes ==
    ASSUME NEW n \in Nat \ {0}
    PROVE  LongLength(n) \in Seq(Bytes)
  <1> DEFINE z == (n - 1) \div 255
             zeros == [k \in 1..z |-> 0]
             rest == n - 255 * z
  <1>1. z \in Nat /\ rest \in 1..255
    OBVIOUS
  <1>2. LongLength(n) = zeros \o <<rest>>
    BY DEF LongLength
  <1> HIDE DEF z, rest
  <1>3. zeros \in Seq(Bytes)
    BY <1>1 DEF Bytes
  <1>4. <<rest>> \in Seq(Bytes)
    BY <1>1 DEF Bytes
  <1> HIDE DEF zeros
  <1>5. LongLength(n) \in Seq(Bytes)
    BY <1>2, <1>3, <1>4, Extended
  <1> QED BY <1>5

\* The bits of a match of two bytes.
LEMMA NearBits ==
    ASSUME NEW len \in Nat, len >= 4, len <= 8, NEW x \in Nat, x <= 2047
    PROVE  /\ (len - 1) * 32 + (x % 8) * 4 \in 64..255
           /\ ((len - 1) * 32 + (x % 8) * 4) \div 32 = len - 1
           /\ (((len - 1) * 32 + (x % 8) * 4) \div 4) % 8 = x % 8
           /\ ((len - 1) * 32 + (x % 8) * 4) % 4 = 0
           /\ Byte(x \div 8) \in 0..255
           /\ x = (x % 8) + Byte(x \div 8) * 8
  <1>1. Byte(x \div 8) = x \div 8 /\ x \div 8 \in 0..255
    BY DEF Byte
  <1> DEFINE l == len - 1
             m == x % 8
  <1>2. l \in 3..7 /\ m \in 0..7
    OBVIOUS
  <1>3. x = m + (x \div 8) * 8
    OBVIOUS
  <1>4. \A i \in 3..7, j \in 0..7 : /\ i * 32 + j * 4 \in 64..255 /\ (i * 32 + j * 4) \div 32 = i
                                    /\ ((i * 32 + j * 4) \div 4) % 8 = j
                                    /\ (i * 32 + j * 4) % 4 = 0
    OBVIOUS
  <1> HIDE DEF l, m
  <1>5. /\ l * 32 + m * 4 \in 64..255 /\ (l * 32 + m * 4) \div 32 = l
        /\ ((l * 32 + m * 4) \div 4) % 8 = m /\ (l * 32 + m * 4) % 4 = 0
    BY <1>2, <1>4
  <1> QED BY <1>1, <1>3, <1>5 DEF l, m

\* An offset that two bytes and a bit can hold.
TwoBytes(x) == x <= 32767

\* The two bytes of an offset.
LEMMA OffsetBits ==
    ASSUME NEW x \in Nat, TwoBytes(x)
    PROVE  /\ Byte(x * 4) \in 0..255 /\ Byte(x * 4) % 4 = 0
           /\ Byte(x \div 64) \in 0..255
           /\ (x \div 16384) % 2 \in 0..1
           /\ x = ((x \div 16384) % 2) * 16384 + Byte(x * 4) \div 4 + Byte(x \div 64) * 64
  <1> DEFINE high == x \div 16384
             mid == (x \div 64) % 256
             low == x % 64
  <1>a. high \in 0..1
    BY DEF TwoBytes
  <1>b. mid \in 0..255
    OBVIOUS
  <1>c. low \in 0..63
    OBVIOUS
  <1>1. high \in 0..1 /\ mid \in 0..255 /\ low \in 0..63
    BY <1>a, <1>b, <1>c
  <1>2. x = high * 16384 + mid * 64 + low
    OBVIOUS
  <1>3. Byte(x * 4) = low * 4
    BY <1>1, <1>2 DEF Byte
  <1>4. Byte(x \div 64) = mid
    BY DEF Byte
  <1> HIDE DEF high, mid, low
  <1>5. (low * 4) % 4 = 0 /\ (low * 4) \div 4 = low /\ low * 4 \in 0..255 /\ high % 2 = high
    BY <1>1
  <1> QED BY <1>1, <1>2, <1>3, <1>4, <1>5 DEF high

\* What stands behind q is one sequence, and the other one behind it.
LEMMA SpellsBoth ==
    ASSUME NEW S, NEW c \in Seq(S), NEW d \in Seq(S), NEW p, NEW q \in Nat, Spells(c \o d, p, q)
    PROVE  Spells(c, p, q) /\ Spells(d, p, q + Len(c))
  <1>1. Len(c \o d) = Len(c) + Len(d) /\ Len(c) \in Nat /\ Len(d) \in Nat
    OBVIOUS
  <1>2. /\ \A k \in 1..Len(c) : (c \o d)[k] = c[k]
        /\ \A k \in 1..Len(d) : (c \o d)[Len(c) + k] = d[k]
    OBVIOUS
  <1>3. \A k \in 1..(Len(c) + Len(d)) : (c \o d)[k] = p[q + k]
    BY <1>1 DEF Spells
  <1>4. Spells(c, p, q)
    <2>1. \A k \in 1..Len(c) : k \in 1..(Len(c) + Len(d))
      BY <1>1
    <2> QED BY <1>2, <1>3, <2>1 DEF Spells
  <1>5. Spells(d, p, q + Len(c))
    <2> SUFFICES ASSUME NEW k \in 1..Len(d) PROVE d[k] = p[q + Len(c) + k]
      BY DEF Spells
    <2>1. Len(c) + k \in 1..(Len(c) + Len(d)) /\ q + (Len(c) + k) = q + Len(c) + k
      BY <1>1
    <2> QED BY <1>2, <1>3, <2>1
  <1> QED BY <1>4, <1>5

\* An offset of up to fourteen bits.
LEMMA SmallOffsetBits ==
    ASSUME NEW x \in Nat, TwoBytes(x), x <= 16383
    PROVE  /\ Byte(x * 4) \in 0..255 /\ Byte(x * 4) % 4 = 0
           /\ Byte(x \div 64) \in 0..255
           /\ x = Byte(x * 4) \div 4 + Byte(x \div 64) * 64
  <1>1. (x \div 16384) % 2 = 0
    OBVIOUS
  <1>2. /\ Byte(x * 4) \in 0..255 /\ Byte(x * 4) % 4 = 0
        /\ Byte(x \div 64) \in 0..255
        /\ x = ((x \div 16384) % 2) * 16384 + Byte(x * 4) \div 4 + Byte(x \div 64) * 64
    BY OffsetBits
  <1> DEFINE a == Byte(x * 4)
             b == Byte(x \div 64)
             high == (x \div 16384) % 2
  <1>3. a \in 0..255 /\ b \in 0..255 /\ high = 0 /\ x = high * 16384 + a \div 4 + b * 64
    BY <1>1, <1>2
  <1> HIDE DEF a, b, high
  <1>4. x = a \div 4 + b * 64
    BY <1>3
  <1> QED BY <1>2, <1>4 DEF a, b

\* The bytes that count a length of a match, and those of its offset.
Count(marker, max, len) ==
    IF len <= max THEN <<marker + len - 2>> ELSE <<marker>> \o LongLength(len - max)
Offset(x) == <<Byte(x * 4), Byte(x \div 64)>>
FarCode(marker, max, len, x) == Count(marker, max, len) \o Offset(x)

\* They are bytes.
LEMMA CountBytes ==
    ASSUME NEW marker \in Nat, marker <= 32, NEW max \in Nat, max >= 9, max <= 33,
           NEW len \in Nat, len >= 4
    PROVE  Count(marker, max, len) \in Seq(Bytes) /\ Len(Count(marker, max, len)) >= 1
  <1>1. CASE len <= max
    <2>1. marker + len - 2 \in Bytes
      BY <1>1 DEF Bytes
    <2>2. Count(marker, max, len) = <<marker + len - 2>>
      BY <1>1 DEF Count
    <2> QED BY <2>1, <2>2
  <1>2. CASE ~(len <= max)
    <2>1. LongLength(len - max) \in Seq(Bytes)
      <3>1. len - max \in Nat \ {0}
        BY <1>2
      <3> QED BY <3>1, LongLengthBytes
    <2>2. <<marker>> \in Seq(Bytes) /\ Len(<<marker>>) = 1
      BY DEF Bytes
    <2>3. Count(marker, max, len) = <<marker>> \o LongLength(len - max)
      BY <1>2, Zenon DEF Count
    <2>4. /\ Count(marker, max, len) \in Seq(Bytes)
          /\ Len(Count(marker, max, len)) = 1 + Len(LongLength(len - max))
      BY <2>1, <2>2, <2>3, Extended
    <2>5. Len(LongLength(len - max)) \in Nat
      BY <2>1
    <2> QED BY <2>4, <2>5
  <1> QED BY <1>1, <1>2

\* They are bytes.
LEMMA OffsetBytes ==
    ASSUME NEW x \in Nat
    PROVE  Offset(x) \in Seq(Bytes) /\ Len(Offset(x)) = 2
  <1>1. Byte(x * 4) \in 0..255 /\ Byte(x \div 64) \in 0..255
    <2>1. \A y \in Int : Byte(y) \in 0..255
      BY DEF Byte
    <2>2. x * 4 \in Int /\ x \div 64 \in Int
      OBVIOUS
    <2> QED BY <2>1, <2>2
  <1> QED BY <1>1 DEF Offset, Bytes

\* The remainder of what is less than one period above a period.
LEMMA Under32 == \A l \in 0..31 : (32 + l) % 32 = l
  <1>1. \A l \in 0..31 : l % 32 = l
    OBVIOUS
  <1>2. \A l \in 0..31 : 32 + l \in Nat /\ 32 + l >= 32 /\ (32 + l) - 32 = l
    OBVIOUS
  <1>3. \A l \in 0..31 : ((32 + l) - 32) % 32 = (32 + l) % 32
    BY <1>2, ModShift
  <1> QED BY <1>1, <1>2, <1>3

\* The length of a match is counted under its mask.
LEMMA CountWritten ==
    ASSUME NEW p, Len(p) \in Nat, NEW q \in Nat, NEW marker \in Nat, NEW mask \in Nat,
           \/ mask = 31 /\ marker = 32
           \/ mask = 7 /\ (marker = 16 \/ marker = 24),
           NEW len \in Nat, len >= 4, q + Len(Count(marker, mask + 2, len)) =< Len(p),
           Spells(Count(marker, mask + 2, len), p, q)
    PROVE  /\ MatchLengthAt(p, q, mask, len, q + Len(Count(marker, mask + 2, len)))
           /\ p[q + 1] \in marker..(marker + mask)
  <1>1. CASE len <= mask + 2
    <2>1. Count(marker, mask + 2, len) = <<marker + len - 2>>
      BY <1>1 DEF Count
    <2>2. Len(Count(marker, mask + 2, len)) = 1 /\ p[q + 1] = marker + len - 2
      <3> DEFINE v == marker + len - 2
      <3> HIDE DEF v
      <3>1. Count(marker, mask + 2, len) = <<v>>
        BY <2>1 DEF v
      <3>2. Len(<<v>>) = 1 /\ <<v>>[1] = v /\ 1 \in 1..1
        OBVIOUS
      <3>3. Spells(<<v>>, p, q)
        BY <3>1
      <3>4. p[q + 1] = v
        BY <3>2, <3>3, Zenon DEF Spells
      <3> QED BY <3>1, <3>2, <3>4 DEF v
    <2>3. (marker + len - 2) % (mask + 1) = len - 2
      <3>1. len - 2 \in 2..mask
        BY <1>1
      <3>3. \A l \in 2..7 : (16 + l) % 8 = l /\ (24 + l) % 8 = l
        OBVIOUS
      <3>4. marker + len - 2 = marker + (len - 2)
        OBVIOUS
      <3>5. CASE mask = 31 /\ marker = 32
        <4> DEFINE l == len - 2
        <4>1. l \in 0..31 /\ mask + 1 = 32 /\ marker + len - 2 = 32 + l
          BY <3>1, <3>5
        <4> HIDE DEF l
        <4>2. (32 + l) % 32 = l
          BY <4>1, Under32, Zenon
        <4> QED BY <4>1, <4>2 DEF l
      <3>6. CASE mask = 7 /\ (marker = 16 \/ marker = 24)
        <4>1. len - 2 \in 2..7 /\ mask + 1 = 8
          BY <3>1, <3>6
        <4> QED BY <3>3, <3>4, <3>6, <4>1
      <3> QED BY <3>5, <3>6
    <2> DEFINE y == p[q + 1]
    <2>4. y % (mask + 1) # 0 /\ len = (y % (mask + 1)) + 2
      BY <2>2, <2>3
    <2>5. y \in marker..(marker + mask)
      BY <1>1, <2>2
    <2> HIDE DEF y
    <2>6. MatchLengthAt(p, q, mask, len, q + 1)
      BY <2>4 DEF MatchLengthAt, y
    <2> QED BY <2>2, <2>5, <2>6 DEF y
  <1>2. CASE ~(len <= mask + 2)
    <2> DEFINE long == LongLength(len - (mask + 2))
    <2>1. Count(marker, mask + 2, len) = <<marker>> \o long
      BY <1>2, Zenon DEF Count
    <2>2. len - (mask + 2) \in Nat \ {0}
      BY <1>2
    <2>3. <<marker>> \in Seq(Bytes) /\ long \in Seq(Bytes) /\ Len(<<marker>>) = 1
      BY <2>2, LongLengthBytes DEF Bytes
    <2>4. Spells(<<marker>>, p, q) /\ Spells(long, p, q + 1)
      <3> HIDE DEF long
      <3>1. Spells(<<marker>> \o long, p, q)
        BY <2>1
      <3>2. Spells(<<marker>>, p, q) /\ Spells(long, p, q + Len(<<marker>>))
        BY <2>3, <3>1, SpellsBoth
      <3> QED BY <2>3, <3>2
    <2>5. p[q + 1] = marker
      BY <2>4 DEF Spells
    <2>6. Len(Count(marker, mask + 2, len)) = 1 + Len(long) /\ Len(long) \in Nat
      <3> HIDE DEF long
      <3> QED BY <2>1, <2>3, Extended
    <2>7. q + 1 \in Nat /\ q + 1 + Len(long) =< Len(p)
          /\ q + Len(Count(marker, mask + 2, len)) = q + 1 + Len(long)
      <3> HIDE DEF long
      <3> DEFINE n == Len(Count(marker, mask + 2, len))
                 l == Len(long)
      <3>1. n = 1 + l /\ l \in Nat /\ q + n =< Len(p) /\ Len(p) \in Nat
        BY <2>6
      <3> HIDE DEF n, l
      <3>2. q + 1 + l =< Len(p) /\ q + n = q + 1 + l
        BY <3>1
      <3> QED BY <3>2 DEF n, l
    <2>8. LengthBytes(p, q + 1, mask, len - (mask + 2) + mask, q + 1 + Len(long))
      BY <2>2, <2>4, <2>7, LongLengthWritten
    <2>9. len - (mask + 2) + mask = len - 2
      OBVIOUS
    <2>10. marker % (mask + 1) = 0
      OBVIOUS
    <2> HIDE DEF long
    <2>11. MatchLengthAt(p, q, mask, len, q + 1 + Len(long))
      BY <2>5, <2>8, <2>9, <2>10 DEF MatchLengthAt
    <2> QED BY <2>5, <2>7, <2>11
  <1> QED BY <1>1, <1>2

\* A match of up to eight bytes, not far back, is encoded in two bytes.
LEMMA NearCodeIs ==
    ASSUME NEW len \in Int, NEW off \in Int, len <= M2_MAX_LEN, off <= M2_MAX_OFFSET
    PROVE  MatchCode(len, off) = <<(len - 1) * 32 + ((off - 1) % 8) * 4, Byte((off - 1) \div 8)>>
  BY DEF MatchCode

\* Others are encoded with a count and an offset.
LEMMA MiddleCodeIs ==
    ASSUME NEW len \in Int, NEW off \in Int, ~(len <= M2_MAX_LEN /\ off <= M2_MAX_OFFSET),
           off <= M3_MAX_OFFSET
    PROVE  MatchCode(len, off) = FarCode(M3_MARKER, M3_MAX_LEN, len, off - 1)
  <1> DEFINE Counted(marker, max, x) ==
                 (IF len <= max THEN <<marker + len - 2>>
                                ELSE <<marker>> \o LongLength(len - max))
                 \o <<Byte(x * 4), Byte(x \div 64)>>
  <1>1. MatchCode(len, off) = Counted(M3_MARKER, M3_MAX_LEN, off - 1)
    BY SMTT(60) DEF MatchCode
  <1>2. Counted(M3_MARKER, M3_MAX_LEN, off - 1) = FarCode(M3_MARKER, M3_MAX_LEN, len, off - 1)
    BY Zenon DEF FarCode, Count, Offset
  <1> HIDE DEF Counted
  <1> QED BY <1>1, <1>2, Zenon

\* The offset of those that are far back is counted from M3_MAX_OFFSET.
LEMMA FarCodeIs ==
    ASSUME NEW len \in Int, NEW off \in Int, ~(len <= M2_MAX_LEN /\ off <= M2_MAX_OFFSET),
           ~(off <= M3_MAX_OFFSET)
    PROVE  MatchCode(len, off) =
              FarCode(M4_MARKER + 8 * (((off - M3_MAX_OFFSET) \div 16384) % 2), M4_MAX_LEN,
                      len, off - M3_MAX_OFFSET)
  <1> DEFINE Counted(m, max, x) ==
                 (IF len <= max THEN <<m + len - 2>>
                                ELSE <<m>> \o LongLength(len - max))
                 \o <<Byte(x * 4), Byte(x \div 64)>>
             far == off - M3_MAX_OFFSET
             marker == M4_MARKER + 8 * ((far \div 16384) % 2)
  <1>1. MatchCode(len, off) = Counted(marker, M4_MAX_LEN, far)
    BY SMTT(60) DEF MatchCode
  <1> HIDE DEF far, marker
  <1>2. Counted(marker, M4_MAX_LEN, far) = FarCode(marker, M4_MAX_LEN, len, far)
    BY Zenon DEF FarCode, Count, Offset
  <1> HIDE DEF Counted
  <1>3. MatchCode(len, off) = FarCode(marker, M4_MAX_LEN, len, far)
    BY <1>1, <1>2, Zenon
  <1> QED BY <1>3 DEF far, marker

\* The kinds of matches with a count: marker, mask and the longest short count.
Kind(marker, mask, max) ==
    \/ mask = 31 /\ max = 33 /\ marker = 32
    \/ mask = 7 /\ max = 9 /\ (marker = 16 \/ marker = 24)

\* What CountWritten says of a kind.
LEMMA KindWritten ==
    ASSUME NEW p, Len(p) \in Nat, NEW q \in Nat, NEW marker \in Nat, NEW mask \in Nat,
           NEW max \in Nat, Kind(marker, mask, max), NEW len \in Nat, len >= 4,
           q + Len(Count(marker, max, len)) =< Len(p), Spells(Count(marker, max, len), p, q)
    PROVE  /\ MatchLengthAt(p, q, mask, len, q + Len(Count(marker, max, len)))
           /\ p[q + 1] \in marker..(marker + mask)
  <1>1. /\ max = mask + 2
        /\ (mask = 31 /\ marker = 32) \/ (mask = 7 /\ (marker = 16 \/ marker = 24))
    BY DEF Kind
  <1>2. /\ q + Len(Count(marker, mask + 2, len)) =< Len(p)
        /\ Spells(Count(marker, mask + 2, len), p, q)
    BY <1>1
  <1>3. /\ MatchLengthAt(p, q, mask, len, q + Len(Count(marker, mask + 2, len)))
        /\ p[q + 1] \in marker..(marker + mask)
    BY <1>1, <1>2, CountWritten
  <1> QED BY <1>1, <1>3

\* p ends with the code behind position q.
Ends(code, p, q) == Len(p) = q + Len(code) /\ Spells(code, p, q)

\* A marker, the length and the offset of a match further back than the first kind.
LEMMA FarWritten ==
    ASSUME NEW p, Len(p) \in Nat, NEW q \in Nat, NEW marker \in Nat, NEW mask \in Nat,
           NEW max \in Nat, Kind(marker, mask, max),
           NEW len \in Nat, len >= 4, NEW x \in Nat,
           Ends(FarCode(marker, max, len, x), p, q)
    PROVE  /\ MatchLengthAt(p, q, mask, len, Len(p) - 2) /\ p[q + 1] \in marker..(marker + mask)
           /\ p[Len(p) - 1] = Byte(x * 4) /\ p[Len(p)] = Byte(x \div 64)
           /\ q + 3 =< Len(p)
  <1>1. Count(marker, max, len) \in Seq(Bytes) /\ Len(Count(marker, max, len)) >= 1
    <2>1. marker <= 32 /\ max >= 9 /\ max <= 33
      BY DEF Kind
    <2>2. Count(marker, max, len) \in Seq(Bytes)
      BY <2>1, CountBytes
    <2>3. Len(Count(marker, max, len)) >= 1
      BY <2>1, CountBytes
    <2> QED BY <2>2, <2>3
  <1>2. Offset(x) \in Seq(Bytes) /\ Len(Offset(x)) = 2
    BY OffsetBytes
  <1> DEFINE count == Count(marker, max, len)
             offset == Offset(x)
             c == Len(count)
             m == Len(p)
  <1>3. /\ m = q + (c + 2) /\ c \in Nat /\ c >= 1
        /\ Spells(count, p, q) /\ Spells(offset, p, q + c)
    <2>1. FarCode(marker, max, len, x) = count \o offset
      BY DEF FarCode
    <2>2. Len(p) = q + Len(count \o offset) /\ Spells(count \o offset, p, q)
      BY <2>1 DEF Ends
    <2>3. count \in Seq(Bytes) /\ offset \in Seq(Bytes) /\ Len(offset) = 2 /\ Len(count) >= 1
      BY <1>1, <1>2
    <2> HIDE DEF count, offset
    <2>4. Len(count \o offset) = Len(count) + 2 /\ Len(count) \in Nat
      <3>1. Len(count) \in Nat
        BY <2>3
      <3>2. Len(count \o offset) = Len(count) + Len(offset)
        BY <2>3, Extended, Zenon
      <3> QED BY <2>3, <3>1, <3>2
    <2>5. Spells(count, p, q) /\ Spells(offset, p, q + Len(count))
      BY <2>2, <2>3, SpellsBoth
    <2> QED BY <2>2, <2>3, <2>4, <2>5
  <1>4. m = q + (c + 2)
    BY <1>3
  <1>5. m - 2 = q + c /\ q + c =< m /\ q + 3 =< m /\ q + c + 1 = m - 1 /\ q + c + 2 = m
    <2> HIDE DEF c, m
    <2> QED BY <1>3, <1>4
  <1>6. /\ MatchLengthAt(p, q, mask, len, q + c)
        /\ p[q + 1] \in marker..(marker + mask)
    <2>1. q + Len(Count(marker, max, len)) =< Len(p) /\ Spells(Count(marker, max, len), p, q)
      BY <1>3, <1>5
    <2>2. MatchLengthAt(p, q, mask, len, q + Len(Count(marker, max, len)))
      BY <2>1, KindWritten
    <2>3. p[q + 1] \in marker..(marker + mask)
      BY <2>1, KindWritten
    <2> QED BY <2>2, <2>3
  <1>7. p[q + c + 1] = Byte(x * 4) /\ p[q + c + 2] = Byte(x \div 64)
    <2> DEFINE y == Byte(x * 4)
               w == Byte(x \div 64)
               i == q + c
    <2>1. offset = <<y, w>>
      BY DEF Offset
    <2>2. Spells(offset, p, i)
      BY <1>3
    <2> HIDE DEF y, w, i, offset
    <2>3. p[i + 1] = y /\ p[i + 2] = w
      <3>1. \A k \in 1..Len(offset) : offset[k] = p[i + k]
        BY <2>2 DEF Spells
      <3>2. Len(offset) = 2 /\ offset[1] = y /\ offset[2] = w
        BY <2>1
      <3>3. 1 \in 1..Len(offset) /\ 2 \in 1..Len(offset)
        BY <3>2
      <3> QED BY <3>1, <3>2, <3>3
    <2> QED BY <2>3 DEF y, w, i
  <1> HIDE DEF c, m
  <1>8. /\ MatchLengthAt(p, q, mask, len, m - 2) /\ p[m - 1] = Byte(x * 4)
        /\ p[m] = Byte(x \div 64) /\ q + 3 =< m
    BY <1>5, <1>6, <1>7
  <1> QED BY <1>6, <1>8 DEF m

\* A match of two bytes is where it says.
LEMMA NearWritten ==
    ASSUME NEW p, Len(p) \in Nat, NEW q \in Nat, NEW len \in Nat, len >= 4, len <= M2_MAX_LEN,
           NEW off \in Nat, off >= 1, off <= M2_MAX_OFFSET, Ends(MatchCode(len, off), p, q)
    PROVE  /\ MatchAt(p, q, len, off, Len(p))
           /\ q + 2 =< Len(p) /\ p[Len(p) - 1] % 4 = 0
  <1> DEFINE x == off - 1
             y == (len - 1) * 32 + (x % 8) * 4
             w == Byte(x \div 8)
  <1>1. x \in Nat /\ x <= 2047 /\ len <= 8 /\ off = 1 + x
    BY MiniLZOAssumption, FormatAssumption DEF M2_MAX_LEN
  <1>2. MatchCode(len, off) = <<y, w>>
    BY NearCodeIs
  <1> HIDE DEF x
  <1>3. /\ y \in 64..255 /\ y \div 32 = len - 1 /\ (y \div 4) % 8 = x % 8 /\ y % 4 = 0
        /\ x = (x % 8) + w * 8
    BY <1>1, NearBits
  <1>a. w \in Int
    <2>1. \A i \in Int : Byte(i) \in Int
      BY DEF Byte
    <2> QED BY <1>1, <2>1
  <1> HIDE DEF y, w
  <1>4. Len(p) = q + 2 /\ p[q + 1] = y /\ p[q + 2] = w
    <2>1. Len(<<y, w>>) = 2 /\ <<y, w>>[1] = y /\ <<y, w>>[2] = w
      OBVIOUS
    <2>2. Ends(<<y, w>>, p, q)
      BY <1>2
    <2>3. Len(p) = q + 2 /\ \A k \in 1..2 : <<y, w>>[k] = p[q + k]
      BY <2>1, <2>2 DEF Ends, Spells
    <2> QED BY <2>1, <2>3
  <1>5. MatchAt(p, q, len, off, q + 2)
    <2>1. p[q + 1] >= 64
      BY <1>3, <1>4
    <2>2. len = p[q + 1] \div 32 + 1
      BY <1>3, <1>4
    <2>3. off = 1 + ((p[q + 1] \div 4) % 8) + p[q + 2] * 8
      <3> DEFINE v == (p[q + 1] \div 4) % 8
                 u == x % 8
      <3>1. v = u
        BY <1>3, <1>4
      <3>2. x = u + w * 8 /\ p[q + 2] = w /\ w \in Int /\ u \in Int
        BY <1>1, <1>a, <1>3, <1>4
      <3> HIDE DEF v, u
      <3>3. off = 1 + v + p[q + 2] * 8
        BY <1>1, <3>1, <3>2
      <3> QED BY <3>3 DEF v
    <2> QED BY <2>1, <2>2, <2>3 DEF MatchAt
  <1>6. p[Len(p) - 1] % 4 = 0
    <2>1. Len(p) - 1 = q + 1
      BY <1>4
    <2> QED BY <1>3, <1>4, <2>1
  <1>7. MatchAt(p, q, len, off, Len(p)) /\ q + 2 =< Len(p)
    BY <1>4, <1>5
  <1> QED BY <1>6, <1>7

\* A match of the second kind is where it says.
LEMMA MiddleWritten ==
    ASSUME NEW p, Len(p) \in Nat, NEW q \in Nat, NEW len \in Nat, len >= 4,
           NEW off \in Nat, off >= 1, off <= M3_MAX_OFFSET,
           Ends(FarCode(M3_MARKER, M3_MAX_LEN, len, off - 1), p, q)
    PROVE  /\ MatchAt(p, q, len, off, Len(p))
           /\ q + 2 =< Len(p) /\ p[Len(p) - 1] % 4 = 0
  <1> DEFINE x == off - 1
             r == Len(p)
  <1>1. x \in Nat /\ off = 1 + x
    OBVIOUS
  <1>a. x <= 16383
    BY MiniLZOAssumption, FormatAssumption
  <1>2. TwoBytes(x)
    BY <1>a DEF TwoBytes
  <1>3. Ends(FarCode(32, 33, len, x), p, q)
    BY DEF M3_MARKER, M3_MAX_LEN
  <1>4. Kind(32, 31, 33) /\ 31 \in Nat /\ 32 \in Nat /\ 33 \in Nat
    BY DEF Kind
  <1> HIDE DEF x
  <1>5. /\ MatchLengthAt(p, q, 31, len, r - 2) /\ p[q + 1] \in 32..(32 + 31)
        /\ p[r - 1] = Byte(x * 4) /\ p[r] = Byte(x \div 64)
        /\ q + 3 =< r
    BY <1>1, <1>3, <1>4, FarWritten
  <1>6. /\ Byte(x * 4) % 4 = 0
        /\ x = Byte(x * 4) \div 4 + Byte(x \div 64) * 64
        /\ Byte(x * 4) \in 0..255 /\ Byte(x \div 64) \in 0..255
    BY <1>1, <1>2, <1>a, SmallOffsetBits
  <1>7. off = 1 + p[r - 1] \div 4 + p[r] * 64
    <2> DEFINE a == p[r - 1]
               b == p[r]
    <2>1. x = a \div 4 + b * 64 /\ a \in 0..255 /\ b \in 0..255
      BY <1>5, <1>6
    <2> HIDE DEF a, b
    <2>2. off = 1 + a \div 4 + b * 64
      BY <1>1, <2>1
    <2> QED BY <2>2 DEF a, b
  <1>8. p[q + 1] \in 32..63
    BY <1>5
  <1> HIDE DEF r
  <1>9. MatchAt(p, q, len, off, r)
    BY <1>5, <1>7, <1>8 DEF MatchAt
  <1>10. q + 2 =< r /\ p[r - 1] % 4 = 0
    <2>1. r \in Nat
      BY DEF r
    <2> QED BY <1>5, <1>6, <2>1
  <1> QED BY <1>9, <1>10 DEF r

\* A match of the third kind is where it says.
LEMMA FarthestWritten ==
    ASSUME NEW p, Len(p) \in Nat, NEW q \in Nat, NEW len \in Nat, len >= 4,
           NEW off \in Nat, ~(off <= M3_MAX_OFFSET), off < MAX_BLOCK,
           Ends(FarCode(M4_MARKER + 8 * (((off - M3_MAX_OFFSET) \div 16384) % 2), M4_MAX_LEN,
                        len, off - M3_MAX_OFFSET), p, q)
    PROVE  /\ MatchAt(p, q, len, off, Len(p))
           /\ q + 2 =< Len(p) /\ p[Len(p) - 1] % 4 = 0
  <1> DEFINE x == off - M3_MAX_OFFSET
             high == (x \div 16384) % 2
             marker == 16 + 8 * high
             r == Len(p)
  <1>1. x \in Nat /\ off = x + M3_MAX_OFFSET /\ off > M3_MAX_OFFSET
    BY MiniLZOAssumption
  <1>2. TwoBytes(x)
    BY MiniLZOAssumption, FormatAssumption DEF TwoBytes
  <1>3. Ends(FarCode(marker, 9, len, x), p, q)
    BY DEF M4_MARKER, M4_MAX_LEN
  <1> HIDE DEF x
  <1>4. /\ Byte(x * 4) % 4 = 0 /\ high \in 0..1
        /\ x = high * 16384 + Byte(x * 4) \div 4 + Byte(x \div 64) * 64
        /\ Byte(x * 4) \in 0..255 /\ Byte(x \div 64) \in 0..255
    BY <1>1, <1>2, OffsetBits
  <1> HIDE DEF high
  <1>5. marker \in Nat /\ Kind(marker, 7, 9) /\ 7 \in Nat /\ 9 \in Nat
    BY <1>4 DEF Kind
  <1>6. /\ MatchLengthAt(p, q, 7, len, r - 2) /\ p[q + 1] \in marker..(marker + 7)
        /\ p[r - 1] = Byte(x * 4) /\ p[r] = Byte(x \div 64)
        /\ q + 3 =< r
    <2> HIDE DEF marker
    <2> QED BY <1>1, <1>3, <1>5, FarWritten, SMTT(30)
  <1>7. (p[q + 1] \div 8) % 2 = high /\ p[q + 1] \in 16..31
    <2> DEFINE y == p[q + 1]
    <2>1. y \in (16 + 8 * high)..(16 + 8 * high + 7)
      BY <1>6
    <2> HIDE DEF y
    <2>2. (y \div 8) % 2 = high /\ y \in 16..31
      BY <1>4, <2>1
    <2> QED BY <2>2 DEF y
  <1>8. off = ((p[q + 1] \div 8) % 2) * 16384 + p[r - 1] \div 4 + p[r] * 64 + M3_MAX_OFFSET
    BY <1>1, <1>4, <1>6, <1>7
  <1> HIDE DEF r
  <1>9. MatchAt(p, q, len, off, r)
    BY <1>1, <1>6, <1>7, <1>8 DEF MatchAt
  <1>10. q + 2 =< r /\ p[r - 1] % 4 = 0
    <2>1. r \in Nat
      BY DEF r
    <2> QED BY <1>4, <1>6, <2>1
  <1> QED BY <1>9, <1>10 DEF r

\* The code of a match says where the match is, and leaves room for a count of
\* literals in its last but one byte.
LEMMA MatchWritten ==
    ASSUME NEW p, Len(p) \in Nat, NEW q \in Nat, NEW len \in Nat, len >= 4,
           NEW off \in Nat, off >= 1, off < MAX_BLOCK, Ends(MatchCode(len, off), p, q)
    PROVE  /\ MatchAt(p, q, len, off, Len(p))
           /\ q + 2 =< Len(p) /\ p[Len(p) - 1] % 4 = 0
  <1>0. len \in Int /\ off \in Int
    OBVIOUS
  <1>1. CASE len <= M2_MAX_LEN /\ off <= M2_MAX_OFFSET
    BY <1>1, NearWritten
  <1>2. CASE ~(len <= M2_MAX_LEN /\ off <= M2_MAX_OFFSET) /\ off <= M3_MAX_OFFSET
    <2>1. MatchCode(len, off) = FarCode(M3_MARKER, M3_MAX_LEN, len, off - 1)
      BY <1>0, <1>2, MiddleCodeIs
    <2>2. Ends(FarCode(M3_MARKER, M3_MAX_LEN, len, off - 1), p, q)
      BY <2>1
    <2> QED BY <1>2, <2>2, MiddleWritten
  <1>3. CASE ~(len <= M2_MAX_LEN /\ off <= M2_MAX_OFFSET) /\ ~(off <= M3_MAX_OFFSET)
    <2> DEFINE code == FarCode(M4_MARKER + 8 * (((off - M3_MAX_OFFSET) \div 16384) % 2), M4_MAX_LEN,
                               len, off - M3_MAX_OFFSET)
    <2>1. MatchCode(len, off) = code
      BY <1>0, <1>3, FarCodeIs
    <2>2. Ends(code, p, q)
      <3> HIDE DEF code
      <3> QED BY <2>1
    <2> QED BY <1>3, <2>2, FarthestWritten
  <1> QED BY <1>1, <1>2, <1>3

\* The code of a match is made of bytes, two or more of them.
LEMMA MatchCodeBytes ==
    ASSUME NEW len \in Nat, len >= 4, NEW off \in Nat, off >= 1, off < MAX_BLOCK
    PROVE  MatchCode(len, off) \in Seq(Bytes) /\ Len(MatchCode(len, off)) >= 2
  <1>0. len \in Int /\ off \in Int
    OBVIOUS
  <1>1. ASSUME NEW marker \in Nat, marker <= 32, NEW max \in Nat, max >= 9, max <= 33, NEW x \in Nat
        PROVE  FarCode(marker, max, len, x) \in Seq(Bytes) /\ Len(FarCode(marker, max, len, x)) >= 2
    <2> DEFINE count == Count(marker, max, len)
               offset == Offset(x)
    <2>1. count \in Seq(Bytes)
      BY <1>1, CountBytes
    <2>2. offset \in Seq(Bytes) /\ Len(offset) = 2
      BY OffsetBytes
    <2>3. FarCode(marker, max, len, x) = count \o offset
      BY DEF FarCode
    <2> HIDE DEF count, offset
    <2>4. count \o offset \in Seq(Bytes)
      BY <2>1, <2>2, Extended
    <2>5. Len(count \o offset) = Len(count) + Len(offset)
      BY <2>1, <2>2, Extended
    <2>6. Len(count) \in Nat
      BY <2>1
    <2> QED BY <2>2, <2>3, <2>4, <2>5, <2>6
  <1>2. CASE len <= M2_MAX_LEN /\ off <= M2_MAX_OFFSET
    <2> DEFINE x == off - 1
               y == (len - 1) * 32 + (x % 8) * 4
               w == Byte(x \div 8)
    <2>1. x \in Nat /\ x <= 2047 /\ len <= 8
      BY <1>2, MiniLZOAssumption, FormatAssumption DEF M2_MAX_LEN
    <2>2. MatchCode(len, off) = <<y, w>>
      BY <1>0, <1>2, NearCodeIs
    <2> HIDE DEF x
    <2>3. y \in 64..255
      BY <2>1, NearBits
    <2>4. y \in Bytes
      BY <2>3 DEF Bytes
    <2>6. w \in Bytes
      <3>1. \A i \in Int : Byte(i) \in Bytes
        BY DEF Byte, Bytes
      <3> QED BY <2>1, <3>1
    <2> HIDE DEF y, w
    <2>5. <<y, w>> \in Seq(Bytes) /\ Len(<<y, w>>) = 2
      BY <2>4, <2>6
    <2> QED BY <2>2, <2>5
  <1>3. CASE ~(len <= M2_MAX_LEN /\ off <= M2_MAX_OFFSET) /\ off <= M3_MAX_OFFSET
    <2>1. MatchCode(len, off) = FarCode(M3_MARKER, M3_MAX_LEN, len, off - 1)
      BY <1>0, <1>3, MiddleCodeIs
    <2>2. M3_MARKER \in Nat /\ M3_MARKER <= 32 /\ M3_MAX_LEN \in Nat /\ M3_MAX_LEN >= 9
          /\ M3_MAX_LEN <= 33 /\ off - 1 \in Nat
      BY DEF M3_MARKER, M3_MAX_LEN
    <2> QED BY <1>1, <2>1, <2>2
  <1>4. CASE ~(len <= M2_MAX_LEN /\ off <= M2_MAX_OFFSET) /\ ~(off <= M3_MAX_OFFSET)
    <2> DEFINE far == off - M3_MAX_OFFSET
               high == (far \div 16384) % 2
               marker == M4_MARKER + 8 * high
    <2>1. MatchCode(len, off) = FarCode(marker, M4_MAX_LEN, len, far)
      BY <1>0, <1>4, FarCodeIs
    <2>2. far \in Nat
      BY <1>4, MiniLZOAssumption
    <2> HIDE DEF far
    <2>3. high \in Nat /\ high <= 1
      BY <2>2
    <2> HIDE DEF high
    <2>4. /\ marker \in Nat /\ marker <= 32
          /\ M4_MAX_LEN \in Nat /\ M4_MAX_LEN >= 9 /\ M4_MAX_LEN <= 33
      BY <2>3 DEF M4_MARKER, M4_MAX_LEN
    <2> HIDE DEF marker
    <2> QED BY <1>1, <2>1, <2>2, <2>4
  <1> QED BY <1>2, <1>3, <1>4

\* p and o have their first m elements in common.
Same(o, p, m) == m =< Len(o) /\ m =< Len(p) /\ \A k \in 1..m : p[k] = o[k]

\* So they have but for the low bits of the last but one.
Kept(o, p, m) ==
    /\ m =< Len(o) /\ m =< Len(p)
    /\ \A k \in 1..m : k # m - 1 => p[k] = o[k]
    /\ m >= 2 => p[m - 1] \div 4 = o[m - 1] \div 4

\* A length in what they have in common.
LEMMA LengthKept ==
    ASSUME NEW o, NEW p, NEW m \in Nat, Same(o, p, m), NEW i \in Nat, NEW base, NEW l, NEW e,
           e =< m, LengthBytes(o, i, base, l, e)
    PROVE  LengthBytes(p, i, base, l, e)
  <1>1. /\ m =< Len(p) /\ \A k \in 1..m : p[k] = o[k]
    BY DEF Same
  <1>2. PICK z \in Nat : /\ e = i + z + 1 /\ e =< Len(o)
                         /\ \A k \in 1..z : o[i + k] = 0
                         /\ o[e] # 0 /\ l = 255 * z + base + o[e]
    BY DEF LengthBytes
  <1>3. e \in 1..m /\ \A k \in 1..z : i + k \in 1..m
    BY <1>2
  <1>4. p[e] = o[e] /\ \A k \in 1..z : p[i + k] = 0
    BY <1>1, <1>2, <1>3
  <1>5. i + z + 1 =< Len(p)
    BY <1>1, <1>2
  <1> QED BY <1>2, <1>4, <1>5, SMTT(30) DEF LengthBytes

\* A run of literals in what they have in common.
LEMMA RunKept ==
    ASSUME NEW o, NEW p, NEW m \in Nat, Same(o, p, m), NEW r \in Nat, NEW t, NEW e \in Nat,
           e =< m, RunAt(o, r, t, e)
    PROVE  RunAt(p, r, t, e)
  <1>1. \A k \in 1..m : p[k] = o[k]
    BY DEF Same
  <1>2. CASE o[r + 1] \in 1..15 /\ t = o[r + 1] + 3 /\ e = r + 1
    <2>1. p[r + 1] = o[r + 1]
      <3>1. r + 1 \in 1..m
        BY <1>2
      <3> QED BY <1>1, <3>1
    <2> QED BY <1>2, <2>1 DEF RunAt
  <1>3. CASE o[r + 1] = 0 /\ LengthBytes(o, r + 1, 15, t - 3, e)
    <2>1. e >= r + 1
      BY <1>3 DEF LengthBytes
    <2>2. p[r + 1] = o[r + 1]
      <3>1. r + 1 \in 1..m
        BY <2>1
      <3> QED BY <1>1, <3>1
    <2>3. LengthBytes(p, r + 1, 15, t - 3, e)
      <3>1. r + 1 \in Nat
        OBVIOUS
      <3> QED BY <1>3, <3>1, LengthKept
    <2> QED BY <1>3, <2>2, <2>3 DEF RunAt
  <1> QED BY <1>2, <1>3 DEF RunAt

\* Literals in what they have in common.
LEMMA LiteralsKept ==
    ASSUME NEW o, NEW p, Len(o) \in Nat, Len(p) \in Nat, NEW s, NEW a \in Mark,
           NEW t \in Nat, NEW q \in Nat, q >= 1, q + 2 =< Len(p), Same(o, p, q),
           LiteralsAt(o, s, a, t, q)
    PROVE  LiteralsAt(p, s, a, t, q)
  <1>0. a.r \in Nat /\ a.n \in Nat
    BY DEF Mark
  <1>1. \A k \in 1..q : p[k] = o[k]
    BY DEF Same
  <1>2. /\ q + 2 =< Len(o) /\ a.n + t =< Len(s) /\ t =< q
        /\ \A k \in 1..t : o[q - t + k] = s[a.n + k]
    BY DEF LiteralsAt
  <1>3. \A k \in 1..t : p[q - t + k] = s[a.n + k]
    <2> TAKE k \in 1..t
    <2>1. q - t + k \in 1..q
      BY <1>2
    <2> QED BY <1>1, <1>2, <2>1
  <1>4. CASE a.r >= 2 /\ t \in 1..3 /\ q = a.r + t /\ o[a.r - 1] % 4 = t
    <2>1. a.r - 1 \in 1..q
      BY <1>0, <1>4, SMTT(30)
    <2>2. p[a.r - 1] % 4 = t
      BY <1>1, <1>4, <2>1
    <2> QED BY <1>2, <1>3, <1>4, <2>2 DEF LiteralsAt
  <1>5. CASE (a.r = 0 \/ (a.r >= 2 /\ o[a.r - 1] % 4 = 0)) /\ t >= 4 /\ RunAt(o, a.r, t, q - t)
    <2>1. RunAt(p, a.r, t, q - t)
      <3>1. q - t \in Nat /\ q - t =< q
        BY <1>2
      <3> QED BY <1>0, <1>5, <3>1, RunKept
    <2>2. a.r =< q - t
      <3>1. q - t = a.r + 1 \/ LengthBytes(o, a.r + 1, 15, t - 3, q - t)
        BY <1>5 DEF RunAt
      <3> QED BY <1>0, <1>2, <3>1 DEF LengthBytes
    <2>3. a.r = 0 \/ (a.r >= 2 /\ p[a.r - 1] % 4 = 0)
      <3>1. CASE a.r >= 2
        <4>1. a.r - 1 \in 1..q
          BY <1>0, <1>2, <2>2, <3>1
        <4>2. p[a.r - 1] = o[a.r - 1] /\ o[a.r - 1] % 4 = 0
          BY <1>0, <1>1, <1>5, <3>1, <4>1
        <4> QED BY <3>1, <4>2
      <3> QED BY <1>5, <3>1
    <2> QED BY <1>2, <1>3, <1>5, <2>1, <2>3 DEF LiteralsAt
  <1>6. CASE a.r >= 2 /\ t = 0 /\ q = a.r /\ o[a.r - 1] % 4 = 0
    <2>1. a.r - 1 \in 1..q
      BY <1>0, <1>6
    <2>2. p[a.r - 1] % 4 = 0
      BY <1>1, <1>6, <2>1
    <2> QED BY <1>2, <1>3, <1>6, <2>2 DEF LiteralsAt
  <1>7. CASE a.r = 0 /\ t \in 1..238 /\ q = 1 + t /\ o[1] = 17 + t
    <2>1. p[1] = o[1]
      BY <1>1, <1>7
    <2> QED BY <1>2, <1>3, <1>7, <2>1 DEF LiteralsAt
  <1> QED BY <1>4, <1>5, <1>6, <1>7 DEF LiteralsAt

\* The length of a match in what they have in common.
LEMMA MatchLengthKept ==
    ASSUME NEW o, NEW p, NEW m \in Nat, Same(o, p, m), NEW q \in Nat, NEW mask, NEW len,
           NEW e, e =< m, MatchLengthAt(o, q, mask, len, e)
    PROVE  MatchLengthAt(p, q, mask, len, e) /\ p[q + 1] = o[q + 1]
  <1>1. \A k \in 1..m : p[k] = o[k]
    BY DEF Same
  <1>2. CASE o[q + 1] % (mask + 1) # 0 /\ len = (o[q + 1] % (mask + 1)) + 2 /\ e = q + 1
    <2>1. p[q + 1] = o[q + 1]
      <3>1. q + 1 \in 1..m
        BY <1>2
      <3> QED BY <1>1, <3>1
    <2> QED BY <1>2, <2>1 DEF MatchLengthAt
  <1>3. CASE o[q + 1] % (mask + 1) = 0 /\ LengthBytes(o, q + 1, mask, len - 2, e)
    <2>1. e >= q + 1
      BY <1>3 DEF LengthBytes
    <2>2. p[q + 1] = o[q + 1]
      <3>0. e \in Int
        BY <1>3 DEF LengthBytes
      <3>1. q + 1 \in 1..m
        BY <2>1, <3>0
      <3> QED BY <1>1, <3>1
    <2>3. LengthBytes(p, q + 1, mask, len - 2, e)
      <3>1. q + 1 \in Nat
        OBVIOUS
      <3> QED BY <1>3, <3>1, LengthKept
    <2> QED BY <1>3, <2>2, <2>3 DEF MatchLengthAt
  <1> QED BY <1>2, <1>3 DEF MatchLengthAt

\* What the high bits of a byte say.
LEMMA HighBits ==
    ASSUME NEW x \in Nat, NEW y \in Nat, x \div 4 = y \div 4
    PROVE  /\ x >= 64 => y >= 64
           /\ x \div 32 = y \div 32
  <1>1. x \div 32 = (x \div 4) \div 8 /\ y \div 32 = (y \div 4) \div 8
    OBVIOUS
  <1>2. x >= 64 => y >= 64
    OBVIOUS
  <1> QED BY <1>1, <1>2

\* A match in what they have in common.
LEMMA MatchKept ==
    ASSUME NEW o \in Seq(Bytes), NEW p \in Seq(Bytes), NEW r \in Nat, Kept(o, p, r), NEW q \in Nat,
           q + 2 =< r, NEW len, NEW off, MatchAt(o, q, len, off, r)
    PROVE  MatchAt(p, q, len, off, r)
  <1>1. /\ r =< Len(o) /\ r =< Len(p) /\ r >= 2
        /\ \A k \in 1..r : k # r - 1 => p[k] = o[k]
        /\ p[r - 1] \div 4 = o[r - 1] \div 4
    BY DEF Kept
  <1>2. p[r] = o[r]
    <2>1. r \in 1..r /\ r # r - 1
      BY <1>1
    <2> QED BY <1>1, <2>1
  <1>3. Same(o, p, r - 2)
    <2>1. \A k \in 1..(r - 2) : k \in 1..r /\ k # r - 1
      OBVIOUS
    <2>2. r - 2 =< Len(o) /\ r - 2 =< Len(p)
      BY <1>1
    <2> QED BY <1>1, <2>1, <2>2 DEF Same
  <1>4. r - 2 \in Nat
    BY <1>1
  <1>5. CASE /\ o[q + 1] >= 64 /\ r = q + 2
             /\ len = o[q + 1] \div 32 + 1
             /\ off = 1 + ((o[q + 1] \div 4) % 8) + o[q + 2] * 8
    <2> DEFINE x == o[q + 1]
               y == p[q + 1]
    <2>1. x \in Nat /\ y \in Nat
      <3>1. q < Len(o) /\ q < Len(p)
        BY <1>1, <1>5
      <3>2. x \in Bytes /\ y \in Bytes
        BY <3>1, ElementOf
      <3>3. \A i \in Bytes : i \in Nat
        BY DEF Bytes
      <3> HIDE DEF x, y
      <3> QED BY <3>2, <3>3
    <2>2. x \div 4 = y \div 4
      <3>1. r - 1 = q + 1
        BY <1>5
      <3> QED BY <1>1, <3>1
    <2>3. x >= 64 /\ len = x \div 32 + 1 /\ off = 1 + ((x \div 4) % 8) + p[q + 2] * 8
      BY <1>2, <1>5
    <2> HIDE DEF x, y
    <2>4. y >= 64 /\ len = y \div 32 + 1 /\ off = 1 + ((y \div 4) % 8) + p[q + 2] * 8
      BY <2>1, <2>2, <2>3, HighBits
    <2> QED BY <1>5, <2>4 DEF MatchAt, y
  <1>6. CASE /\ o[q + 1] \in 32..63
             /\ MatchLengthAt(o, q, 31, len, r - 2)
             /\ off = 1 + o[r - 1] \div 4 + o[r] * 64
    <2>1. MatchLengthAt(p, q, 31, len, r - 2) /\ p[q + 1] = o[q + 1]
      BY <1>3, <1>4, <1>6, MatchLengthKept
    <2>2. off = 1 + p[r - 1] \div 4 + p[r] * 64
      BY <1>1, <1>2, <1>6
    <2> QED BY <1>6, <2>1, <2>2 DEF MatchAt
  <1>7. CASE /\ o[q + 1] \in 16..31
             /\ MatchLengthAt(o, q, 7, len, r - 2)
             /\ off > M3_MAX_OFFSET
             /\ off = ((o[q + 1] \div 8) % 2) * 16384 + o[r - 1] \div 4 + o[r] * 64 + M3_MAX_OFFSET
    <2>1. MatchLengthAt(p, q, 7, len, r - 2) /\ p[q + 1] = o[q + 1]
      BY <1>3, <1>4, <1>7, MatchLengthKept
    <2>2. off = ((p[q + 1] \div 8) % 2) * 16384 + p[r - 1] \div 4 + p[r] * 64 + M3_MAX_OFFSET
      BY <1>1, <1>2, <1>7, <2>1
    <2> QED BY <1>7, <2>1, <2>2 DEF MatchAt
  <1> QED BY <1>5, <1>6, <1>7 DEF MatchAt

\* Literals and the match behind them in what they have in common.
LEMMA UnitKept ==
    ASSUME NEW o \in Seq(Bytes), NEW p \in Seq(Bytes), NEW s, NEW a \in Mark, NEW b \in Mark,
           Kept(o, p, b.r), Unit(o, s, a, b)
    PROVE  Unit(p, s, a, b)
  <1>1. PICK t \in Nat, q \in Nat : /\ q >= 1 /\ LiteralsAt(o, s, a, t, q)
                                    /\ MatchTo(o, s, q, a.n + t, b)
    BY DEF Unit
  <1>2. PICK len \in Nat, off \in 1..(a.n + t) :
           /\ MatchAt(o, q, len, off, b.r) /\ q + 2 =< b.r
           /\ b.n = a.n + t + len /\ Repeats(s, a.n + t, len, off)
    BY <1>1 DEF MatchTo
  <1>3. b.r \in Nat /\ Len(o) \in Nat /\ Len(p) \in Nat
    BY DEF Mark
  <1>4. MatchAt(p, q, len, off, b.r)
    BY <1>2, <1>3, MatchKept
  <1>5. Same(o, p, q) /\ q + 2 =< Len(p)
    <2>1. /\ b.r =< Len(o) /\ b.r =< Len(p)
          /\ \A k \in 1..b.r : k # b.r - 1 => p[k] = o[k]
      BY DEF Kept
    <2>2. \A k \in 1..q : k \in 1..b.r /\ k # b.r - 1
      BY <1>2, <1>3
    <2>3. q =< Len(o) /\ q =< Len(p) /\ q + 2 =< Len(p)
      BY <1>2, <1>3, <2>1
    <2> QED BY <2>1, <2>2, <2>3 DEF Same
  <1>6. LiteralsAt(p, s, a, t, q)
    BY <1>1, <1>3, <1>5, LiteralsKept
  <1>7. MatchTo(p, s, q, a.n + t, b)
    BY <1>2, <1>4 DEF MatchTo
  <1> QED BY <1>1, <1>6, <1>7 DEF Unit

\* Two strings of bytes, one behind the other.
LEMMA Joined ==
    ASSUME NEW a \in Seq(Bytes), NEW b \in Seq(Bytes)
    PROVE  /\ a \o b \in Seq(Bytes) /\ Len(a \o b) = Len(a) + Len(b)
           /\ Len(a) \in Nat /\ Len(b) \in Nat
           /\ Same(a, a \o b, Len(a)) /\ Spells(b, a \o b, Len(a))
  <1>1. a \o b \in Seq(Bytes) /\ Len(a \o b) = Len(a) + Len(b) /\ Len(a) \in Nat /\ Len(b) \in Nat
    OBVIOUS
  <1>2. /\ \A k \in 1..Len(a) : (a \o b)[k] = a[k]
        /\ \A k \in 1..Len(b) : (a \o b)[Len(a) + k] = b[k]
    OBVIOUS
  <1>3. Same(a, a \o b, Len(a))
    <2>1. Len(a) =< Len(a) /\ Len(a) =< Len(a \o b)
      BY <1>1
    <2> QED BY <1>2, <2>1 DEF Same
  <1>4. Spells(b, a \o b, Len(a))
    BY <1>2 DEF Spells
  <1> QED BY <1>1, <1>3, <1>4

\* What the compressor has written leaves room for a count of literals.
Room(o) == o = <<>> \/ (Len(o) >= 2 /\ o[Len(o) - 1] % 4 = 0)

\* h is o with the count of t literals behind it.
Counts(o, h, t) ==
    /\ Kept(o, h, Len(o)) /\ Len(h) >= Len(o)
    /\ \/ Len(o) >= 2 /\ t \in 0..3 /\ Len(h) = Len(o) /\ h[Len(o) - 1] % 4 = t
       \/ /\ t >= 4 /\ RunAt(h, Len(o), t, Len(h))
          /\ Len(o) = 0 \/ (Len(o) >= 2 /\ h[Len(o) - 1] % 4 = 0)

\* What is the same is kept.
LEMMA SameKept == ASSUME NEW o, NEW p, NEW m \in Nat, Same(o, p, m) PROVE Kept(o, p, m)
  <1>1. m =< Len(o) /\ m =< Len(p) /\ \A k \in 1..m : p[k] = o[k]
    BY DEF Same
  <1>2. m >= 2 => p[m - 1] = o[m - 1]
    BY <1>1
  <1> QED BY <1>1, <1>2 DEF Kept

\* Up to three literals are counted in a byte that is there.
LEMMA FewCounted ==
    ASSUME NEW o \in Seq(Bytes), Len(o) >= 2, o[Len(o) - 1] % 4 = 0, NEW t \in Nat, t >= 1, t <= 3,
           NEW last, last = Len(o) - 1
    PROVE  LET h == [o EXCEPT ![last] = (o[last] - (o[last] % 4)) + Or2(o[last] % 4, t)]
           IN  h \in Seq(Bytes) /\ Len(h) = Len(o) /\ Counts(o, h, t)
  <1> DEFINE x == o[last]
             v == (x - (x % 4)) + Or2(x % 4, t)
             h == [o EXCEPT ![last] = v]
  <1>1. Len(o) \in Nat /\ last \in 1..Len(o) /\ last \in Nat
    OBVIOUS
  <1>2. x \in Bytes
    BY <1>1
  <1>3. x % 4 = 0
    OBVIOUS
  <1> HIDE DEF x
  <1>4. v = x + t
    <2>1. x \in 0..255
      BY <1>2 DEF Bytes
    <2>2. Or2(0, 1) = 1 /\ Or2(0, 2) = 2 /\ Or2(0, 3) = 3
      BY DEF Or2
    <2>3. t = 1 \/ t = 2 \/ t = 3
      OBVIOUS
    <2>4. Or2(0, t) = t
      BY <2>2, <2>3, Zenon
    <2>5. v = (x - 0) + t
      BY <1>3, <2>4
    <2> QED BY <2>1, <2>5
  <1>5. v \in Bytes /\ v % 4 = t /\ v \div 4 = x \div 4
    <2>1. x \in 0..255
      BY <1>2 DEF Bytes
    <2> HIDE DEF v
    <2>2. x + t \in 0..255 /\ (x + t) % 4 = t /\ (x + t) \div 4 = x \div 4
      BY <1>3, <2>1
    <2> QED BY <1>4, <2>2 DEF Bytes
  <1> HIDE DEF v
  <1>6. h \in Seq(Bytes) /\ Len(h) = Len(o) /\ h[last] = v
        /\ \A k \in 1..Len(o) : k # last => h[k] = o[k]
    BY <1>1, <1>5
  <1> HIDE DEF h
  <1>7. Kept(o, h, Len(o))
    <2>1. h[Len(o) - 1] \div 4 = o[Len(o) - 1] \div 4
      BY <1>5, <1>6 DEF x
    <2>2. Len(o) =< Len(o) /\ Len(o) =< Len(h)
      BY <1>1, <1>6
    <2> QED BY <1>6, <2>1, <2>2 DEF Kept
  <1>8. h[Len(o) - 1] % 4 = t
    BY <1>5, <1>6
  <1>9. Counts(o, h, t)
    BY <1>1, <1>6, <1>7, <1>8 DEF Counts
  <1> QED BY <1>6, <1>9 DEF h, v, x

\* A run of four to eighteen literals has its count in a byte of its own.
LEMMA SomeCounted ==
    ASSUME NEW o \in Seq(Bytes), Room(o), NEW t \in Nat, t >= 4, t <= 18
    PROVE  o \o <<t - 3>> \in Seq(Bytes) /\ Counts(o, o \o <<t - 3>>, t)
  <1> DEFINE v == t - 3
             b == <<v>>
             h == o \o b
  <1>1. v \in Bytes /\ v \in 1..15 /\ t = v + 3
    BY DEF Bytes
  <1> HIDE DEF v
  <1>2. b \in Seq(Bytes) /\ Len(b) = 1 /\ b[1] = v
    BY <1>1
  <1> HIDE DEF b
  <1>3. /\ h \in Seq(Bytes) /\ Len(h) = Len(o) + 1 /\ Len(o) \in Nat
        /\ Same(o, h, Len(o)) /\ Spells(b, h, Len(o))
    BY <1>2, Joined
  <1> HIDE DEF h
  <1>4. h[Len(o) + 1] = v
    BY <1>2, <1>3 DEF Spells
  <1>5. RunAt(h, Len(o), t, Len(h))
    BY <1>1, <1>3, <1>4 DEF RunAt
  <1>6. Len(o) = 0 \/ (Len(o) >= 2 /\ h[Len(o) - 1] % 4 = 0)
    <2>1. Len(o) >= 2 => h[Len(o) - 1] = o[Len(o) - 1]
      BY <1>3 DEF Same
    <2> QED BY <2>1 DEF Room
  <1>7. Kept(o, h, Len(o))
    BY <1>3, SameKept
  <1>8. Counts(o, h, t)
    BY <1>3, <1>5, <1>6, <1>7 DEF Counts
  <1> QED BY <1>3, <1>8 DEF h, b, v

\* A longer one has it in several.
LEMMA ManyCounted ==
    ASSUME NEW o \in Seq(Bytes), Room(o), NEW t \in Nat, t > 18
    PROVE  /\ o \o <<0>> \o LongLength(t - 18) \in Seq(Bytes)
           /\ Counts(o, o \o <<0>> \o LongLength(t - 18), t)
  <1> DEFINE n == t - 18
             b == <<0>>
             long == LongLength(n)
             g == o \o b
             h == g \o long
  <1>1. n \in Nat \ {0} /\ n + 15 = t - 3
    OBVIOUS
  <1> HIDE DEF n
  <1>2. b \in Seq(Bytes) /\ Len(b) = 1 /\ b[1] = 0
    BY DEF Bytes
  <1>3. long \in Seq(Bytes)
    BY <1>1, LongLengthBytes
  <1> HIDE DEF b
  <1>4. /\ g \in Seq(Bytes) /\ Len(g) = Len(o) + 1 /\ Len(o) \in Nat
        /\ Same(o, g, Len(o)) /\ Spells(b, g, Len(o))
    BY <1>2, Joined
  <1> HIDE DEF g
  <1>5. /\ h \in Seq(Bytes) /\ Len(h) = Len(g) + Len(long) /\ Len(long) \in Nat
        /\ Same(g, h, Len(g)) /\ Spells(long, h, Len(g))
    <2> HIDE DEF long
    <2> QED BY <1>3, <1>4, Joined
  <1> HIDE DEF h
  <1>6. Same(o, h, Len(o)) /\ h[Len(o) + 1] = 0
    <2>1. \A k \in 1..Len(g) : h[k] = g[k]
      BY <1>5 DEF Same
    <2>2. \A k \in 1..Len(o) : g[k] = o[k]
      BY <1>4 DEF Same
    <2>3. g[Len(o) + 1] = 0
      BY <1>2, <1>4 DEF Spells
    <2>4. \A k \in 1..Len(o) : h[k] = o[k]
      BY <1>4, <2>1, <2>2
    <2>5. h[Len(o) + 1] = 0
      BY <1>4, <2>1, <2>3
    <2>6. Len(o) =< Len(o) /\ Len(o) =< Len(h)
      BY <1>4, <1>5
    <2> QED BY <2>4, <2>5, <2>6 DEF Same
  <1>7. RunAt(h, Len(o), t, Len(h))
    <2> DEFINE i == Len(o) + 1
    <2>1. i \in Nat /\ i + Len(long) = Len(h) /\ Spells(long, h, i) /\ Len(h) \in Nat
      BY <1>4, <1>5
    <2> HIDE DEF i
    <2>2. LengthBytes(h, i, 15, n + 15, i + Len(long))
      <3>1. i + Len(long) =< Len(h)
        BY <2>1
      <3> QED BY <1>1, <2>1, <3>1, LongLengthWritten
    <2>3. LengthBytes(h, Len(o) + 1, 15, t - 3, Len(h))
      BY <1>1, <2>1, <2>2 DEF i
    <2> QED BY <1>6, <2>3 DEF RunAt
  <1>8. Len(o) = 0 \/ (Len(o) >= 2 /\ h[Len(o) - 1] % 4 = 0)
    <2>1. Len(o) >= 2 => h[Len(o) - 1] = o[Len(o) - 1]
      BY <1>4, <1>6 DEF Same
    <2> QED BY <2>1 DEF Room
  <1>9. Kept(o, h, Len(o)) /\ Len(h) >= Len(o)
    BY <1>4, <1>5, <1>6, SameKept
  <1>10. Counts(o, h, t)
    BY <1>7, <1>8, <1>9 DEF Counts
  <1> QED BY <1>5, <1>10 DEF h, g, b, long, n

\* A run of literals has its count before it, unless it is the start of a stream
\* with up to three.
LEMMA LiteralsCounted ==
    ASSUME NEW o \in Seq(Bytes), Room(o), NEW run \in Seq(Bytes), o = <<>> => Len(run) >= 4
    PROVE  \E h \in Seq(Bytes) : Literals(o, run) = h \o run /\ Counts(o, h, Len(run))
  <1> DEFINE t == Len(run)
             last == Len(o) - 1
  <1>0. t \in Nat /\ Len(o) \in Nat /\ (t <= 3 => Len(o) >= 2 /\ o[Len(o) - 1] % 4 = 0)
    BY DEF Room
  <1> HIDE DEF t
  <1>1. CASE t = 0
    <2>1. Literals(o, run) = o
      BY <1>1 DEF Literals, t
    <2>2. run = <<>>
      BY <1>1 DEF t
    <2>3. o = o \o run
      BY <2>2
    <2>4. Same(o, o, Len(o))
      BY <1>0 DEF Same
    <2>5. Kept(o, o, Len(o))
      BY <1>0, <2>4, SameKept
    <2>6. Counts(o, o, t)
      BY <1>0, <1>1, <2>5 DEF Counts
    <2> QED BY <2>1, <2>3, <2>6 DEF t
  <1>2. CASE t \in 1..3
    <2>1. t # 0 /\ t >= 1 /\ t <= 3 /\ last = Len(o) - 1
      BY <1>2
    <2> HIDE DEF last
    <2> DEFINE h == [o EXCEPT ![last] = (o[last] - (o[last] % 4)) + Or2(o[last] % 4, t)]
    <2>2. Literals(o, run) = h \o run
      <3>1. t \notin 4..18
        BY <1>2
      <3> QED BY <1>2, <2>1, <3>1, Zenon DEF Literals, t, last
    <2>3. h \in Seq(Bytes) /\ Counts(o, h, t)
      BY <1>0, <2>1, FewCounted
    <2> HIDE DEF h
    <2> QED BY <2>2, <2>3 DEF t
  <1>3. CASE t \in 4..18
    <2>1. t # 0 /\ t \notin 1..3 /\ t >= 4 /\ t <= 18
      BY <1>3
    <2> DEFINE h == o \o <<t - 3>>
    <2>2. Literals(o, run) = h \o run
      BY <1>3, <2>1, Zenon DEF Literals, t
    <2>3. h \in Seq(Bytes) /\ Counts(o, h, t)
      BY <1>0, <2>1, SomeCounted
    <2> HIDE DEF h
    <2> QED BY <2>2, <2>3 DEF t
  <1>4. CASE t > 18
    <2>1. t # 0 /\ t \notin 1..3 /\ t \notin 4..18
      BY <1>0, <1>4
    <2> DEFINE h == o \o <<0>> \o LongLength(t - 18)
    <2>2. Literals(o, run) = h \o run
      BY <2>1, Zenon DEF Literals, t
    <2>3. h \in Seq(Bytes) /\ Counts(o, h, t)
      BY <1>0, <1>4, ManyCounted
    <2> HIDE DEF h
    <2> QED BY <2>2, <2>3 DEF t
  <1>5. t = 0 \/ t \in 1..3 \/ t \in 4..18 \/ t > 18
    BY <1>0
  <1> QED BY <1>1, <1>2, <1>3, <1>4, <1>5, Zenon

\* What is behind n bytes of s in the output: the count of the literals, the
\* literals themselves, and a code behind them.
Goes(o, p, s, n, t, q, c) ==
    /\ p \in Seq(Bytes) /\ Ends(c, p, q) /\ Kept(o, p, Len(o))
    /\ LiteralsAt(p, s, [r |-> Len(o), n |-> n], t, q)
    /\ q \in Nat /\ q >= Len(o)

\* Literals are written with their count.
LEMMA LiteralsWritten ==
    ASSUME NEW o \in Seq(Bytes), Room(o), NEW run \in Seq(Bytes), o = <<>> => Len(run) >= 4,
           NEW c \in Seq(Bytes), Len(c) >= 2,
           NEW s, Len(s) \in Nat, NEW n \in Nat, n + Len(run) =< Len(s), Spells(run, s, n)
    PROVE  /\ Goes(o, Literals(o, run) \o c, s, n, Len(run), Len(Literals(o, run)), c)
           /\ Len(Literals(o, run)) >= 1
  <1>1. PICK h \in Seq(Bytes) : Literals(o, run) = h \o run /\ Counts(o, h, Len(run))
    BY LiteralsCounted
  <1> DEFINE t == Len(run)
             g == h \o run
             p == g \o c
             q == Len(g)
             a == [r |-> Len(o), n |-> n]
  <1>2. /\ g \in Seq(Bytes) /\ q = Len(h) + t
        /\ Len(h) \in Nat /\ t \in Nat
        /\ Same(h, g, Len(h)) /\ Spells(run, g, Len(h))
    BY Joined
  <1> HIDE DEF g
  <1>3. /\ p \in Seq(Bytes) /\ Len(p) = q + Len(c)
        /\ q \in Nat /\ Len(c) \in Nat
        /\ Same(g, p, q) /\ Spells(c, p, q)
    BY <1>2, Joined
  <1> HIDE DEF p
  <1>4. Same(h, p, Len(h)) /\ \A k \in 1..t : p[Len(h) + k] = run[k]
    <2>1. /\ \A k \in 1..q : p[k] = g[k]
          /\ \A k \in 1..Len(h) : g[k] = h[k]
          /\ \A k \in 1..t : run[k] = g[Len(h) + k]
      BY <1>2, <1>3 DEF Same, Spells
    <2> HIDE DEF q, t
    <2>2. \A k \in 1..t : Len(h) + k \in 1..q
      BY <1>2, <1>3
    <2>3. \A k \in 1..Len(h) : k \in 1..q
      BY <1>2
    <2>4. Len(h) =< Len(h) /\ Len(h) =< Len(p)
      BY <1>2, <1>3
    <2> QED BY <2>1, <2>2, <2>3, <2>4 DEF Same
  <1>5. Kept(o, h, Len(o)) /\ Len(h) >= Len(o) /\ Len(o) \in Nat
    BY <1>1 DEF Counts
  <1>6. Kept(o, p, Len(o))
    <2>1. /\ \A k \in 1..Len(o) : k # Len(o) - 1 => h[k] = o[k]
          /\ Len(o) >= 2 => h[Len(o) - 1] \div 4 = o[Len(o) - 1] \div 4
      BY <1>5 DEF Kept
    <2>2. \A k \in 1..Len(o) : p[k] = h[k]
      BY <1>2, <1>4, <1>5 DEF Same
    <2>3. Len(o) >= 2 => p[Len(o) - 1] = h[Len(o) - 1]
      BY <1>5, <2>2
    <2>4. Len(o) =< Len(o) /\ Len(o) =< Len(p)
      BY <1>2, <1>3, <1>5
    <2> QED BY <2>1, <2>2, <2>3, <2>4 DEF Kept
  <1>7. \A k \in 1..t : p[q - t + k] = s[n + k]
    <2>1. \A k \in 1..t : run[k] = s[n + k]
      BY DEF Spells
    <2>2. q - t = Len(h)
      BY <1>2
    <2> QED BY <1>4, <2>1, <2>2
  <1>8. LiteralsAt(p, s, a, t, q)
    <2>1. q + 2 =< Len(p) /\ n + t =< Len(s) /\ t =< q /\ q - t = Len(h)
      BY <1>2, <1>3
    <2>2. a.r = Len(o) /\ a.n = n
      BY Zenon
    <2>3. CASE Len(o) >= 2 /\ t \in 0..3 /\ Len(h) = Len(o) /\ h[Len(o) - 1] % 4 = t
      <3>1. p[Len(o) - 1] = h[Len(o) - 1]
        BY <1>2, <1>4, <2>3 DEF Same
      <3> HIDE DEF a, q, t
      <3>2. q = Len(o) + t /\ p[Len(o) - 1] % 4 = t /\ (t = 0 => q = Len(o))
        BY <1>2, <1>5, <2>3, <3>1
      <3>3. t = 0 \/ t \in 1..3
        BY <2>3
      <3> QED BY <1>7, <2>1, <2>2, <2>3, <3>2, <3>3, ZenonT(30) DEF LiteralsAt
    <2>4. CASE /\ t >= 4 /\ RunAt(h, Len(o), t, Len(h))
               /\ Len(o) = 0 \/ (Len(o) >= 2 /\ h[Len(o) - 1] % 4 = 0)
      <3>1. RunAt(p, Len(o), t, Len(h))
        <4>1. Len(h) =< Len(h)
          BY <1>2
        <4> QED BY <1>2, <1>4, <1>5, <2>4, <4>1, RunKept
      <3>2. Len(o) >= 2 => p[Len(o) - 1] = h[Len(o) - 1]
        BY <1>2, <1>4, <1>5 DEF Same
      <3> HIDE DEF a, q, t
      <3> QED BY <1>7, <2>1, <2>2, <2>4, <3>1, <3>2 DEF LiteralsAt
    <2> QED BY <1>1, <2>3, <2>4 DEF Counts
  <1>9. q >= Len(o) /\ q >= 1 /\ Ends(c, p, q)
    <2>1. Len(o) >= 2 \/ t >= 4
      BY <1>1 DEF Counts
    <2> QED BY <1>2, <1>3, <1>5, <2>1, SMTT(30) DEF Ends
  <1>10. Goes(o, p, s, n, t, q, c) /\ q >= 1
    BY <1>3, <1>6, <1>8, <1>9 DEF Goes
  <1> QED BY <1>1, <1>10 DEF p, g

\* At the start of a stream, few literals are counted in the first byte.
LEMMA FirstLiteralsWritten ==
    ASSUME NEW run \in Seq(Bytes), NEW s, Len(s) \in Nat, Len(run) \in 1..238,
           Len(run) =< Len(s), Spells(run, s, 0),
           NEW c \in Seq(Bytes), Len(c) >= 2
    PROVE  Goes(<<>>, <<17 + Len(run)>> \o run \o c, s, 0, Len(run), 1 + Len(run), c)
  <1> DEFINE t == Len(run)
             v == 17 + t
             h == <<v>>
             g == h \o run
             p == g \o c
             q == 1 + t
  <1>1. t \in 1..238 /\ t \in Nat /\ v \in Bytes
    <2>1. t \in 1..238
      OBVIOUS
    <2> HIDE DEF t
    <2> QED BY <2>1 DEF Bytes
  <1> HIDE DEF v
  <1>2. h \in Seq(Bytes) /\ Len(h) = 1 /\ h[1] = v
    BY <1>1
  <1> HIDE DEF h
  <1>3. g \in Seq(Bytes) /\ Len(g) = q /\ Same(h, g, Len(h)) /\ Spells(run, g, Len(h))
    BY <1>2, Joined
  <1> HIDE DEF g
  <1>4. /\ p \in Seq(Bytes) /\ Len(p) = q + Len(c) /\ Len(c) \in Nat
        /\ Same(g, p, q) /\ Spells(c, p, q)
    BY <1>3, Joined, ZenonT(30)
  <1> HIDE DEF p
  <1>5. p[1] = v /\ \A k \in 1..t : p[q - t + k] = s[0 + k]
    <2>1. /\ \A k \in 1..q : p[k] = g[k]
          /\ \A k \in 1..1 : g[k] = h[k]
          /\ \A k \in 1..t : run[k] = g[1 + k]
          /\ \A k \in 1..t : run[k] = s[0 + k]
      BY <1>2, <1>3, <1>4 DEF Same, Spells
    <2> HIDE DEF t
    <2>2. \A k \in 1..t : 1 + k \in 1..q /\ q - t + k = 1 + k
      BY <1>1
    <2>3. 1 \in 1..q /\ 1 \in 1..1
      BY <1>1
    <2>4. p[1] = v
      BY <1>2, <2>1, <2>3
    <2>5. \A k \in 1..t : p[q - t + k] = s[0 + k]
      <3> HIDE DEF q
      <3> QED BY <2>1, <2>2
    <2> QED BY <2>4, <2>5
  <1>6. LiteralsAt(p, s, Start, t, q)
    <2>1. q + 2 =< Len(p) /\ 0 + t =< Len(s) /\ t =< q
      BY <1>1, <1>4
    <2>2. Start.r = 0 /\ Start.n = 0
      BY DEF Start
    <2>3. p[1] = 17 + t
      BY <1>5 DEF v
    <2> HIDE DEF t
    <2> QED BY <1>1, <1>5, <2>1, <2>2, <2>3 DEF LiteralsAt
  <1>7. Len(<<>>) = 0 /\ Start = [r |-> Len(<<>>), n |-> 0]
    BY DEF Start
  <1>8. Kept(<<>>, p, Len(<<>>))
    BY <1>1, <1>4, <1>7 DEF Kept
  <1>9. Goes(<<>>, p, s, 0, t, q, c)
    <2>1. q \in Nat /\ q >= Len(<<>>) /\ Ends(c, p, q)
      BY <1>1, <1>4, <1>7 DEF Ends
    <2>2. LiteralsAt(p, s, [r |-> Len(<<>>), n |-> 0], t, q)
      BY <1>6, <1>7
    <2> QED BY <1>4, <1>8, <2>1, <2>2 DEF Goes
  <1> QED BY <1>9 DEF p, g, h, v

\* A stream without a byte is its end code.
LEMMA NoLiteralsWritten ==
    ASSUME NEW s, Len(s) = 0
    PROVE  Goes(<<>>, EndCode, s, 0, 0, 0, EndCode)
  <1>1. EndCode \in Seq(Bytes) /\ Len(EndCode) = 3 /\ EndCode[1] = 17
    BY DEF EndCode, M4_MARKER, Bytes
  <1>2. Start.r = 0 /\ Start.n = 0 /\ Start = [r |-> Len(<<>>), n |-> 0] /\ Len(<<>>) = 0
    BY DEF Start
  <1>3. LiteralsAt(EndCode, s, Start, 0, 0)
    BY <1>1, <1>2 DEF LiteralsAt
  <1>4. Kept(<<>>, EndCode, 0)
    BY <1>1 DEF Kept
  <1>5. Ends(EndCode, EndCode, 0)
    BY <1>1 DEF Ends, Spells
  <1> QED BY <1>1, <1>2, <1>3, <1>4, <1>5 DEF Goes

\* o encodes the first n bytes of s, up to the last of its marks.
Written(o, s, n, P) ==
    /\ Start \in P /\ [r |-> Len(o), n |-> n] \in P
    /\ \A a \in P : /\ a \in Mark
                    /\ \/ a = [r |-> Len(o), n |-> n]
                       \/ a.r + 2 =< Len(o) /\ \E b \in P : Unit(o, s, a, b)

\* What has been written before stays as it was read.
LEMMA UnitsKept ==
    ASSUME NEW o \in Seq(Bytes), NEW p \in Seq(Bytes), NEW s, NEW n, NEW P, Written(o, s, n, P),
           Kept(o, p, Len(o)), NEW a \in P, NEW b \in P, Unit(o, s, a, b)
    PROVE  Unit(p, s, a, b)
  <1>1. a \in Mark /\ b \in Mark /\ (b = [r |-> Len(o), n |-> n] \/ b.r + 2 =< Len(o))
    BY DEF Written
  <1>2. b.r \in Nat /\ Len(o) \in Nat
    BY <1>1 DEF Mark
  <1>3. Kept(o, p, b.r)
    <2>1. CASE b.r = Len(o)
      BY <2>1
    <2>2. CASE b.r + 2 =< Len(o)
      <3>1. \A k \in 1..b.r : k \in 1..Len(o) /\ k # Len(o) - 1
        BY <1>2, <2>2
      <3>2. Len(o) =< Len(p) /\ \A k \in 1..Len(o) : k # Len(o) - 1 => p[k] = o[k]
        BY DEF Kept
      <3>3. \A k \in 1..b.r : p[k] = o[k]
        BY <3>1, <3>2
      <3>4. b.r =< Len(o) /\ b.r =< Len(p)
        BY <1>2, <2>2, <3>2
      <3>5. Same(o, p, b.r)
        BY <3>3, <3>4 DEF Same
      <3> QED BY <1>2, <3>5, SameKept
    <2>3. b = [r |-> Len(o), n |-> n] => b.r = Len(o)
      OBVIOUS
    <2> QED BY <1>1, <2>1, <2>2, <2>3
  <1> QED BY <1>1, <1>3, UnitKept

\* Literals and a match behind what has been written end at one more mark.
LEMMA MarkedOn ==
    ASSUME NEW o \in Seq(Bytes), NEW p, NEW s, NEW n \in Nat, NEW P, Written(o, s, n, P),
           NEW t \in Nat, NEW q, q >= 1, NEW c, Goes(o, p, s, n, t, q, c), NEW m \in Nat,
           MatchTo(p, s, q, n + t, [r |-> Len(p), n |-> m])
    PROVE  Written(p, s, m, P \cup {[r |-> Len(p), n |-> m]})
  <1> DEFINE a == [r |-> Len(o), n |-> n]
             b == [r |-> Len(p), n |-> m]
             Q == P \cup {b}
  <1>1. /\ p \in Seq(Bytes) /\ Kept(o, p, Len(o)) /\ q \in Nat /\ q >= Len(o)
        /\ LiteralsAt(p, s, a, t, q)
    BY DEF Goes
  <1>2. q + 2 =< b.r
    BY DEF MatchTo
  <1>3. Len(o) \in Nat /\ Len(p) \in Nat /\ Len(o) + 2 =< Len(p)
    <2>1. b.r = Len(p)
      OBVIOUS
    <2> HIDE DEF b
    <2> QED BY <1>1, <1>2, <2>1
  <1>4. b \in Mark
    BY <1>3 DEF Mark
  <1>5. Unit(p, s, a, b)
    <2>1. a.n = n
      OBVIOUS
    <2> HIDE DEF a
    <2> QED BY <1>1, <2>1 DEF Unit
  <1>6. ASSUME NEW x \in P
        PROVE  x \in Mark /\ x.r + 2 =< Len(p) /\ \E y \in Q : Unit(p, s, x, y)
    <2>1. x \in Mark /\ (x = a \/ (x.r + 2 =< Len(o) /\ \E y \in P : Unit(o, s, x, y)))
      BY DEF Written
    <2>2. CASE x = a
      <3>1. x.r + 2 =< Len(p)
        BY <1>3, <2>2
      <3> HIDE DEF a, b
      <3> QED BY <1>5, <2>1, <2>2, <3>1
    <2>3. CASE x.r + 2 =< Len(o) /\ \E y \in P : Unit(o, s, x, y)
      <3>1. PICK y \in P : Unit(o, s, x, y)
        BY <2>3
      <3>2. Unit(p, s, x, y)
        BY <1>1, <3>1, UnitsKept
      <3>3. x.r \in Nat
        BY <2>1 DEF Mark
      <3>4. x.r + 2 =< Len(p)
        BY <1>3, <2>3, <3>3
      <3> HIDE DEF b
      <3> QED BY <2>1, <3>2, <3>4
    <2> QED BY <2>1, <2>2, <2>3
  <1>7. Start \in Q /\ b \in Q
    BY DEF Written
  <1>8. \A x \in Q : x \in P \/ x = b
    OBVIOUS
  <1> HIDE DEF Q
  <1>9. \A x \in Q : x \in Mark /\ (x = b \/ (x.r + 2 =< Len(p) /\ \E y \in Q : Unit(p, s, x, y)))
    <2> HIDE DEF b
    <2> QED BY <1>4, <1>6, <1>8
  <1>10. Written(p, s, m, Q)
    BY <1>7, <1>9 DEF Written
  <1> QED BY <1>10 DEF Q

\* With the last literals and the end code behind it, it encodes all of s.
LEMMA MarkedTo ==
    ASSUME NEW o \in Seq(Bytes), NEW p, NEW s, Len(s) \in Nat, NEW n \in Nat, NEW P,
           Written(o, s, n, P), NEW t \in Nat, NEW q, Goes(o, p, s, n, t, q, EndCode),
           n + t = Len(s)
    PROVE  Encodes(p, s, P)
  <1> DEFINE a == [r |-> Len(o), n |-> n]
  <1>1. /\ p \in Seq(Bytes) /\ Kept(o, p, Len(o)) /\ q \in Nat /\ q >= Len(o)
        /\ LiteralsAt(p, s, a, t, q) /\ Ends(EndCode, p, q)
    BY DEF Goes
  <1>2. EndCode = <<17, 0, 0>>
    BY DEF EndCode, M4_MARKER
  <1>3. Len(p) = q + 3 /\ p[q + 1] = 17 /\ p[q + 2] = 0 /\ p[q + 3] = 0
    BY <1>1, <1>2 DEF Ends, Spells
  <1>4. EndAt(p, s, q, n + t)
    BY <1>3 DEF EndAt
  <1>5. Len(o) \in Nat
    OBVIOUS
  <1>6. ASSUME NEW x \in P
        PROVE  /\ x \in Mark /\ x.r + 3 =< Len(p) /\ x.n =< Len(s)
               /\ \E i, j \in Nat : LiteralsAt(p, s, x, i, j) /\ GoesOn(p, s, P, j, x.n + i)
    <2>1. x \in Mark /\ (x = a \/ (x.r + 2 =< Len(o) /\ \E y \in P : Unit(o, s, x, y)))
      BY DEF Written
    <2>2. CASE x = a
      <3>1. x.r + 3 =< Len(p) /\ x.n =< Len(s) /\ x.n = n
        BY <1>1, <1>3, <1>5, <2>2
      <3> HIDE DEF a
      <3> QED BY <1>1, <1>4, <2>1, <2>2, <3>1 DEF GoesOn
    <2>3. CASE x.r + 2 =< Len(o) /\ \E y \in P : Unit(o, s, x, y)
      <3>1. PICK y \in P : Unit(o, s, x, y)
        BY <2>3
      <3>2. Unit(p, s, x, y)
        BY <1>1, <3>1, UnitsKept
      <3>3. PICK i \in Nat, j \in Nat : LiteralsAt(p, s, x, i, j) /\ MatchTo(p, s, j, x.n + i, y)
        BY <3>2 DEF Unit
      <3>4. x.r \in Nat /\ x.n \in Nat
        BY <2>1 DEF Mark
      <3>5. x.r + 3 =< Len(p)
        BY <1>1, <1>3, <1>5, <2>3, <3>4, SMTT(30)
      <3>6. x.n + i =< Len(s)
        BY <3>3 DEF LiteralsAt
      <3>7. x.n =< Len(s)
        BY <3>4, <3>6
      <3> QED BY <2>1, <3>3, <3>5, <3>7 DEF GoesOn
    <2> QED BY <2>1, <2>2, <2>3
  <1>7. Start \in P
    BY DEF Written
  <1> QED BY <1>6, <1>7 DEF Encodes

\* What the dictionary holds is before the next byte to look at; a block is not
\* longer than the code of a match can say; the first four bytes are no match,
\* so that the run of literals at the start of a stream is not a short one.
BlockInv ==
    /\ block.end - block.from =< MAX_BLOCK /\ block.from =< ip
    /\ \A h \in 0..(D_SIZE - 1) : block.from + dict[h] =< ip
    /\ label = "next" => \A h \in 0..(D_SIZE - 1) : block.from + dict[h] < ip
    /\ out = <<>> => ip - (ii - ti) >= 4

\* What the compressor has written encodes what it has encoded.
Encoding == \E P : Written(out, in, Encoded, P)

EncodeInv ==
    /\ CompressInv
    /\ label \in {"idle", "block", "literal", "next"} =>
          out \in Seq(Bytes) /\ Room(out) /\ Encoding
    /\ label \in {"literal", "next"} => BlockInv

\* Nothing has been written for nothing.
LEMMA NothingWritten == ASSUME NEW s PROVE Written(<<>>, s, 0, {Start})
  <1>1. Start = [r |-> Len(<<>>), n |-> 0] /\ Start \in Mark
    BY DEF Start, Mark
  <1> QED BY <1>1 DEF Written

\* Without an output nothing has been encoded.
LEMMA NothingEncoded ==
    ASSUME NEW s, NEW n, NEW P, Written(<<>>, s, n, P)
    PROVE  n = 0
  <1>1. Start = [r |-> Len(<<>>), n |-> n] \/ Start.r + 2 =< Len(<<>>)
    BY DEF Written
  <1>2. Start.r = 0 /\ Start.n = 0 /\ Len(<<>>) = 0
    BY DEF Start
  <1>3. [r |-> Len(<<>>), n |-> n].n = n
    OBVIOUS
  <1> QED BY <1>1, <1>2, <1>3

\* The first block starts with four bytes or more that are no match.
LEMMA StartBlockEncodes == ASSUME EncodeInv, StartBlock PROVE EncodeInv'
  <1>1. /\ block.from \in Nat /\ block.end \in Nat /\ block.end =< Len(in)
        /\ ti \in Nat /\ in \in Seq(0..255)
    BY DEF EncodeInv, CompressInv, CompressLabels, StartBlock
  <1>2. /\ label = "block" /\ label' = "literal" /\ UNCHANGED <<in, out, top, ti>>
        /\ block' = [from |-> block.end,
                     end |-> block.end + Smaller(Len(in) - block.end, MAX_BLOCK)]
        /\ ii' = block.end
        /\ ip' = block.end + (IF ti < 4 THEN 4 - ti ELSE 0)
        /\ dict' = [h \in 0..(D_SIZE - 1) |-> 0]
    BY DEF StartBlock
  <1>3. CompressInv'
    BY StartBlockInv DEF EncodeInv
  <1>4. /\ block'.from = block.end
        /\ block'.end = block.end + Smaller(Len(in) - block.end, MAX_BLOCK)
    BY <1>2
  <1>5. block'.end - block'.from =< MAX_BLOCK
    BY <1>1, <1>4, MiniLZOAssumption DEF Smaller
  <1>6. block'.from =< ip' /\ ip' - (ii' - ti') >= 4 /\ ip' \in Nat
    BY <1>1, <1>2, <1>4, SMTT(30)
  <1>7. \A h \in 0..(D_SIZE - 1) : block'.from + dict'[h] =< ip'
    BY <1>1, <1>2, <1>4, <1>6
  <1>8. BlockInv'
    BY <1>2, <1>5, <1>6, <1>7 DEF BlockInv
  <1>9. Encoded' = Encoded
    BY <1>2 DEF Encoded
  <1>10. (out \in Seq(Bytes) /\ Room(out) /\ Encoding)'
    BY <1>2, <1>9 DEF EncodeInv, Encoding
  <1> QED BY <1>2, <1>3, <1>8, <1>10 DEF EncodeInv

\* What EncodeInv says within a block.
LEMMA InBlock ==
    ASSUME EncodeInv, label \in {"literal", "next"}
    PROVE  /\ CompressInv /\ BlockInv /\ out \in Seq(Bytes) /\ Room(out)
           /\ \E P : Written(out, in, ii - ti, P)
  BY DEF EncodeInv, Encoding, Encoded

\* No byte is encoded by the step to the next position.
LEMMA SkipLiteralEncodes == ASSUME EncodeInv, SkipLiteral PROVE EncodeInv'
  <1>1. /\ label = "literal" /\ label' = "next" /\ ip' = ip + 1 + (ip - ii) \div 32
        /\ UNCHANGED <<in, out, top, block, ii, ti, dict>>
    BY DEF SkipLiteral
  <1>2. /\ CompressInv /\ BlockInv
        /\ ii \in Nat /\ ip \in Nat /\ ti \in Nat /\ ii =< ip
        /\ block.from \in Nat /\ dict \in [0..(D_SIZE - 1) -> Nat]
    BY <1>1, InBlock, WithinBlock
  <1>3. ip' \in Nat /\ ip' > ip
    BY <1>1, <1>2, SMTT(30)
  <1>4. \A h \in 0..(D_SIZE - 1) : block.from + dict[h] =< ip /\ block.from + dict[h] \in Nat
    BY <1>2 DEF BlockInv
  <1>5. \A h \in 0..(D_SIZE - 1) : block.from + dict[h] < ip' /\ block.from + dict[h] =< ip'
    BY <1>2, <1>3, <1>4
  <1>6. block.from =< ip' /\ (out = <<>> => ip' - (ii - ti) >= 4)
    <2>1. block.from =< ip /\ (out = <<>> => ip - (ii - ti) >= 4)
      BY <1>2 DEF BlockInv
    <2>2. ip \in Int /\ ii - ti \in Int /\ block.from \in Int /\ ip' \in Int /\ ip' > ip
      BY <1>2, <1>3
    <2>3. \A x, y, z, f \in Int : y > x /\ f =< x => f =< y /\ (x - z >= 4 => y - z >= 4)
      OBVIOUS
    <2> QED BY <2>1, <2>2, <2>3
  <1>7. BlockInv'
    BY <1>1, <1>2, <1>5, <1>6 DEF BlockInv
  <1>8. CompressInv'
    BY <1>2, SkipLiteralInv
  <1>9. Encoded' = Encoded
    BY <1>1 DEF Encoded
  <1>10. (out \in Seq(Bytes) /\ Room(out) /\ Encoding)'
    BY <1>1, <1>9 DEF EncodeInv, Encoding
  <1> QED BY <1>1, <1>7, <1>8, <1>10 DEF EncodeInv

\* Nor by the end of a block.
LEMMA EndBlockEncodes == ASSUME EncodeInv, EndBlock PROVE EncodeInv'
  <1>1. /\ label = "next" /\ label' = "block" /\ ti' = block.end - (ii - ti)
        /\ UNCHANGED <<in, out, top, block, ip, ii, dict>>
    BY DEF EndBlock
  <1>2. CompressInv'
    BY EndBlockInv DEF EncodeInv
  <1>3. Encoded' = Encoded
    <2>1. ii \in Nat /\ ti \in Nat /\ block.end \in Nat
      BY <1>1, InBlock, WithinBlock
    <2> QED BY <1>1, <2>1, SMTT(30) DEF Encoded
  <1>4. (out \in Seq(Bytes) /\ Room(out) /\ Encoding)'
    BY <1>1, <1>3 DEF EncodeInv, Encoding
  <1> QED BY <1>1, <1>2, <1>4 DEF EncodeInv


\* A run of literals is what it is in the input.
LEMMA RunOf ==
    ASSUME in \in Seq(0..255), NEW n \in Nat, NEW end \in Nat, n =< end, end =< Len(in)
    PROVE  /\ Slice(in, n, end) \in Seq(Bytes) /\ Len(Slice(in, n, end)) = end - n
           /\ Spells(Slice(in, n, end), in, n)
  <1> DEFINE t == end - n
             run == Slice(in, n, n + t)
  <1>1. t \in Nat /\ n + t = end /\ n + t =< Len(in)
    OBVIOUS
  <1>2. in \in Seq(Bytes)
    BY DEF Bytes
  <1> HIDE DEF t
  <1>3. run \in Seq(Bytes) /\ Len(run) = t /\ \A k \in 1..t : run[k] = in[n + k]
    <2>1. run \in Seq(Bytes) /\ Len(run) = t
      BY <1>1, <1>2, SliceOf
    <2>2. \A k \in 1..t : run[k] = in[n + k]
      BY <1>1, <1>2, SliceElements
    <2> QED BY <2>1, <2>2
  <1>4. run = Slice(in, n, end)
    BY <1>1
  <1> HIDE DEF run
  <1>5. Spells(run, in, n)
    BY <1>3 DEF Spells
  <1> QED BY <1>3, <1>4, <1>5 DEF t

\* A match is written with the literals before it.
LEMMA MatchEncoded ==
    ASSUME in \in Seq(0..255), NEW o \in Seq(Bytes), Room(o), NEW n \in Nat, NEW i \in Nat,
           n =< i, i =< Len(in), o = <<>> => i - n >= 4,
           NEW P, Written(o, in, n, P),
           NEW len \in Nat, len >= 4, i + len =< Len(in),
           NEW off \in Nat, off >= 1, off < MAX_BLOCK, off =< i, Repeats(in, i, len, off)
    PROVE  LET p == Literals(o, Slice(in, n, i)) \o MatchCode(len, off)
           IN  p \in Seq(Bytes) /\ p # <<>> /\ Room(p) /\ \E Q : Written(p, in, i + len, Q)
  <1> DEFINE run == Slice(in, n, i)
             code == MatchCode(len, off)
             p == Literals(o, run) \o code
             q == Len(Literals(o, run))
             t == i - n
             b == [r |-> Len(p), n |-> i + len]
             Q == P \cup {b}
  <1>0. t \in Nat /\ n + t = i
    OBVIOUS
  <1>1. run \in Seq(Bytes) /\ Len(run) = t /\ Spells(run, in, n)
    BY RunOf
  <1>2. code \in Seq(Bytes) /\ Len(code) >= 2
    BY MatchCodeBytes
  <1>3. Len(in) \in Nat
    OBVIOUS
  <1> HIDE DEF run, code, t
  <1>4. Goes(o, p, in, n, t, q, code) /\ q >= 1
    <2>1. o = <<>> => Len(run) >= 4
      BY <1>1 DEF t
    <2>2. n + Len(run) =< Len(in)
      BY <1>0, <1>1, <1>3
    <2>3. Goes(o, p, in, n, Len(run), q, code) /\ q >= 1
      BY <1>1, <1>2, <1>3, <2>1, <2>2, LiteralsWritten
    <2> QED BY <1>1, <2>3
  <1>5. /\ p \in Seq(Bytes) /\ q \in Nat /\ Ends(code, p, q)
    BY <1>4 DEF Goes
  <1> HIDE DEF p, q
  <1>6. Len(p) \in Nat
    BY <1>5
  <1>7. MatchAt(p, q, len, off, Len(p)) /\ q + 2 =< Len(p) /\ p[Len(p) - 1] % 4 = 0
    BY <1>5, <1>6, MatchWritten DEF code
  <1>8. MatchTo(p, in, q, n + t, b)
    <2>1. b.r = Len(p) /\ b.n = i + len /\ off \in 1..i
      OBVIOUS
    <2> HIDE DEF b
    <2> QED BY <1>0, <1>7, <2>1 DEF MatchTo
  <1>9. Written(p, in, i + len, Q)
    BY <1>0, <1>4, <1>8, MarkedOn
  <1>10. Len(p) >= 2
    BY <1>5, <1>6, <1>7
  <1>11. Room(p) /\ p # <<>>
    <2>1. Len(<<>>) = 0
      OBVIOUS
    <2> QED BY <1>7, <1>10, <2>1 DEF Room
  <1> HIDE DEF Q
  <1> QED BY <1>5, <1>9, <1>11 DEF p, run, code

\* What the dictionary gives is within the block, before the next byte.
LEMMA FoundInBlock ==
    ASSUME EncodeInv, FindMatch, HashesFit
    PROVE  LET m_pos == block.from + dict[Hash(ip)]
           IN  /\ Hash(ip) \in 0..(D_SIZE - 1)
               /\ m_pos \in Nat /\ block.from =< m_pos /\ m_pos < ip
               /\ ip - m_pos < MAX_BLOCK
  <1>1. label = "next" /\ ip < IpEnd
    BY DEF FindMatch
  <1>2. CompressInv /\ BlockInv
    BY <1>1, InBlock
  <1>3. /\ in \in Seq(0..255) /\ block.from \in Nat /\ block.end \in Nat /\ block.end =< Len(in)
        /\ ip \in Nat /\ dict \in [0..(D_SIZE - 1) -> Nat]
    BY <1>1, <1>2, WithinBlock
  <1>4. ip + 20 < block.end /\ ip + 4 =< Len(in)
    BY <1>1, <1>3 DEF IpEnd
  <1>5. Hash(ip) \in 0..(D_SIZE - 1)
    <2>1. Slice(in, ip, ip + 4) \in Seq(0..255) /\ Len(Slice(in, ip, ip + 4)) = 4
      <3> DEFINE bytes == 0..255
                 n == 4
      <3>1. in \in Seq(bytes) /\ n \in Nat /\ ip + n =< Len(in)
        BY <1>3, <1>4
      <3> HIDE DEF bytes, n
      <3>2. Slice(in, ip, ip + n) \in Seq(bytes) /\ Len(Slice(in, ip, ip + n)) = n
        BY <1>3, <3>1, SliceOf
      <3> QED BY <3>2 DEF bytes, n
    <2> QED BY <2>1 DEF Hash, HashesFit
  <1> DEFINE h == Hash(ip)
             m_pos == block.from + dict[h]
  <1> HIDE DEF h
  <1>6. h \in 0..(D_SIZE - 1)
    BY <1>5 DEF h
  <1>7. m_pos \in Nat /\ block.from =< m_pos
    BY <1>3, <1>6
  <1>8. m_pos < ip
    BY <1>1, <1>2, <1>6 DEF BlockInv
  <1>9. block.end - block.from =< MAX_BLOCK
    BY <1>2 DEF BlockInv
  <1> HIDE DEF m_pos
  <1>10. ip - m_pos < MAX_BLOCK
    BY <1>3, <1>4, <1>7, <1>9, MiniLZOAssumption
  <1> QED BY <1>5, <1>7, <1>8, <1>10 DEF m_pos, h

\* A match is encoded, or its position remembered.
LEMMA FindMatchEncodes == ASSUME EncodeInv, FindMatch, HashesFit PROVE EncodeInv'
  <1> DEFINE m_pos == block.from + dict[Hash(ip)]
             m_len == MatchLength(m_pos)
             n == ii - ti
             run == Slice(in, n, ip)
             off == ip - m_pos
             encoded == Literals(out, run) \o MatchCode(m_len, off)
             position == (ip - block.from) % 65536
  <1>1. /\ label = "next" /\ ip < IpEnd /\ UNCHANGED <<in, block>>
        /\ dict' = [dict EXCEPT ![Hash(ip)] = position]
        /\ IF Slice(in, ip, ip + 4) = Slice(in, m_pos, m_pos + 4)
           THEN /\ out' = encoded
                /\ ip' = ip + m_len
                /\ ii' = ip + m_len
                /\ ti' = 0
                /\ UNCHANGED label
           ELSE /\ label' = "literal"
                /\ UNCHANGED <<out, top, ip, ii, ti>>
    BY DEF FindMatch
  <1>2. /\ CompressInv /\ BlockInv /\ out \in Seq(Bytes) /\ Room(out)
        /\ \E P : Written(out, in, ii - ti, P)
    BY <1>1, InBlock
  <1>3. /\ in \in Seq(0..255) /\ block.from \in Nat /\ block.end \in Nat /\ block.end =< Len(in)
        /\ ti \in Nat /\ ii \in Nat /\ ip \in Nat /\ ii =< ip
        /\ dict \in [0..(D_SIZE - 1) -> Nat] /\ 16 * Len(out) =< 17 * (ii - ti)
    BY <1>1, <1>2, WithinBlock
  <1>4. /\ Hash(ip) \in 0..(D_SIZE - 1)
        /\ m_pos \in Nat /\ block.from =< m_pos /\ m_pos < ip /\ off < MAX_BLOCK
    BY FoundInBlock
  <1>5. CompressInv'
    BY <1>2, FindMatchInv
  <1>6. position \in Nat /\ position =< ip - block.from
    <2> DEFINE d == ip - block.from
    <2>1. d \in Nat
      BY <1>2, <1>3 DEF BlockInv
    <2> HIDE DEF d
    <2>2. d % 65536 \in Nat /\ d % 65536 =< d
      BY <2>1
    <2> QED BY <2>2 DEF d
  <1>7. /\ block.end - block.from =< MAX_BLOCK /\ block.from =< ip
        /\ out = <<>> => ip - n >= 4
        /\ \A h \in 0..(D_SIZE - 1) : block.from + dict[h] < ip
    BY <1>1, <1>2 DEF BlockInv
  <1> HIDE DEF position
  <1>8. \A h \in 0..(D_SIZE - 1) : block.from + dict'[h] =< ip
    <2> TAKE h \in 0..(D_SIZE - 1)
    <2>1. CASE h = Hash(ip)
      <3>1. dict'[h] = position
        BY <1>1, <1>3, <2>1
      <3> QED BY <1>3, <1>6, <3>1
    <2>2. CASE h # Hash(ip)
      <3>1. dict'[h] = dict[h]
        BY <1>1, <1>3, <2>2
      <3>2. block.from + dict[h] < ip /\ dict[h] \in Nat
        BY <1>3, <1>7
      <3> QED BY <1>3, <3>1, <3>2
    <2> QED BY <2>1, <2>2
  <1>9. CASE Slice(in, ip, ip + 4) # Slice(in, m_pos, m_pos + 4)
    <2>1. label' = "literal" /\ UNCHANGED <<in, block, out, ip, ii, ti>>
      BY <1>1, <1>9
    <2>2. BlockInv'
      BY <1>7, <1>8, <2>1 DEF BlockInv
    <2>3. Encoded' = Encoded
      BY <1>1, <2>1 DEF Encoded
    <2>4. (out \in Seq(Bytes) /\ Room(out) /\ Encoding)'
      BY <1>1, <2>1, <2>3 DEF EncodeInv, Encoding
    <2> QED BY <1>5, <2>1, <2>2, <2>4 DEF EncodeInv
  <1>10. CASE Slice(in, ip, ip + 4) = Slice(in, m_pos, m_pos + 4)
    <2>1. /\ label' = "next" /\ UNCHANGED <<in, block>>
          /\ out' = encoded /\ ip' = ip + m_len /\ ii' = ip + m_len /\ ti' = 0
      BY <1>1, <1>10
    <2>2. m_len \in Nat /\ m_len >= 4 /\ ip + m_len =< block.end
      BY <1>1, <1>3, <1>4, <1>10, MatchesEndInBlock
    <2>3. Repeats(in, ip, m_len, off)
      <3>1. \A k \in 1..m_len : in[ip + k] = in[m_pos + k]
        BY <1>1, <1>3, <1>4, <1>10, MatchesEndInBlock
      <3> HIDE DEF m_pos, m_len
      <3>2. \A k \in 1..m_len : ip + k - off = m_pos + k
        BY <1>3, <1>4, <2>2
      <3> HIDE DEF off
      <3> QED BY <3>1, <3>2 DEF Repeats
    <2>4. n \in Nat /\ n =< ip
      <3>1. 17 * (ii - ti) >= 0
        BY <1>2, <1>3
      <3> QED BY <1>3, <3>1
    <2>5. off \in Nat /\ off >= 1 /\ off =< ip
      <3> HIDE DEF m_pos
      <3> QED BY <1>3, <1>4
    <2>6. Len(in) \in Nat /\ ip =< Len(in) /\ ip + m_len =< Len(in)
      <3> HIDE DEF m_len
      <3>1. Len(in) \in Nat
        BY <1>3
      <3> QED BY <1>3, <2>2, <3>1
    <2>7. PICK P : Written(out, in, n, P)
      BY <1>2
    <2> HIDE DEF m_pos, m_len, n, off
    <2>8. /\ encoded \in Seq(Bytes) /\ encoded # <<>> /\ Room(encoded)
          /\ \E Q : Written(encoded, in, ip + m_len, Q)
      <3>1. out = <<>> => ip - n >= 4
        BY <1>7
      <3> QED BY <1>2, <1>3, <1>4, <2>2, <2>3, <2>4, <2>5, <2>6, <2>7, <3>1, MatchEncoded
    <2>9. Encoded' = ip + m_len
      BY <1>3, <2>1, <2>2 DEF Encoded
    <2> HIDE DEF encoded
    <2>10. (out \in Seq(Bytes) /\ Room(out) /\ Encoding)'
      BY <2>1, <2>8, <2>9 DEF Encoding
    <2>11. BlockInv'
      <3>1. \A h \in 0..(D_SIZE - 1) : dict'[h] \in Nat
        BY <2>1, <1>5 DEF CompressInv, CompressLabels
      <3>2. \A h \in 0..(D_SIZE - 1) : block.from + dict'[h] < ip + m_len
        BY <1>3, <1>8, <2>2, <3>1
      <3>3. \A h \in 0..(D_SIZE - 1) : block.from + dict'[h] =< ip + m_len
        BY <1>3, <2>2, <3>1, <3>2
      <3>4. block.from =< ip + m_len
        BY <1>3, <1>7, <2>2
      <3>5. out' # <<>>
        BY <2>1, <2>8, SMTT(30)
      <3> QED BY <1>7, <2>1, <3>2, <3>3, <3>4, <3>5 DEF BlockInv
    <2> QED BY <1>5, <2>1, <2>10, <2>11 DEF EncodeInv
  <1> QED BY <1>9, <1>10

\* The last literals and the end code.
LEMMA LastEncoded ==
    ASSUME in \in Seq(0..255), NEW o \in Seq(Bytes), Room(o), NEW n \in Nat, n =< Len(in),
           NEW P, Written(o, in, n, P)
    PROVE  LET t == Len(in) - n
               run == Slice(in, n, Len(in))
               body == IF o = <<>> /\ t \in 1..238 THEN <<17 + t>> \o run ELSE Literals(o, run)
           IN  /\ body \o EndCode \in Seq(Bytes) /\ body \o EndCode # <<>>
               /\ Encodes(body \o EndCode, in, P)
  <1> DEFINE t == Len(in) - n
             run == Slice(in, n, Len(in))
             body == IF o = <<>> /\ t \in 1..238 THEN <<17 + t>> \o run ELSE Literals(o, run)
             p == body \o EndCode
  <1>0. Len(in) \in Nat
    OBVIOUS
  <1>1. t \in Nat /\ n + t = Len(in)
    BY <1>0
  <1>2. run \in Seq(Bytes) /\ Len(run) = t /\ Spells(run, in, n)
    <2>1. Len(in) =< Len(in)
      BY <1>0
    <2> QED BY <1>0, <2>1, RunOf
  <1>3. EndCode \in Seq(Bytes) /\ Len(EndCode) = 3
    BY DEF EndCode, M4_MARKER, Bytes
  <1>4. o = <<>> => n = 0
    BY NothingEncoded
  <1> HIDE DEF run, t
  <1>5. \E q : Goes(o, p, in, n, t, q, EndCode)
    <2>1. CASE o = <<>> /\ t \in 1..238
      <3>1. p = <<17 + t>> \o run \o EndCode
        BY <2>1, ZenonT(30)
      <3> HIDE DEF p
      <3>2. Goes(<<>>, <<17 + Len(run)>> \o run \o EndCode, in, 0, Len(run), 1 + Len(run), EndCode)
        <4>1. Len(run) \in 1..238 /\ Len(run) =< Len(in) /\ Spells(run, in, 0)
          BY <1>0, <1>1, <1>2, <1>4, <2>1
        <4>2. Len(EndCode) >= 2
          BY <1>3
        <4> QED BY <1>0, <1>2, <1>3, <4>1, <4>2, FirstLiteralsWritten
      <3> QED BY <1>2, <1>4, <2>1, <3>1, <3>2
    <2>2. CASE o = <<>> /\ t = 0
      <3>1. run = <<>> /\ Len(in) = 0
        BY <1>1, <1>2, <1>4, <2>2
      <3>2. ~(o = <<>> /\ t \in 1..238)
        BY <2>2
      <3>3. Literals(o, run) = o
        BY <1>2, <2>2 DEF Literals
      <3>4. p = EndCode
        <4>1. body = <<>>
          BY <2>2, <3>2, <3>3
        <4> HIDE DEF body
        <4>2. <<>> \o EndCode = EndCode
          BY <1>3
        <4> QED BY <4>1, <4>2
      <3> HIDE DEF p
      <3>5. Goes(<<>>, EndCode, in, 0, 0, 0, EndCode)
        BY <3>1, NoLiteralsWritten
      <3> QED BY <1>4, <2>2, <3>4, <3>5
    <2>3. CASE ~(o = <<>> /\ t =< 238)
      <3>1. ~(o = <<>> /\ t \in 1..238) /\ (o = <<>> => t >= 4)
        BY <1>1, <2>3, SMTT(30)
      <3>2. p = Literals(o, run) \o EndCode
        BY <3>1
      <3> HIDE DEF p
      <3>3. Goes(o, Literals(o, run) \o EndCode, in, n, Len(run), Len(Literals(o, run)), EndCode)
        <4>1. n + Len(run) =< Len(in) /\ Len(EndCode) >= 2 /\ (o = <<>> => Len(run) >= 4)
          BY <1>0, <1>1, <1>2, <1>3, <3>1
        <4> QED BY <1>0, <1>2, <1>3, <4>1, LiteralsWritten
      <3> QED BY <1>2, <3>2, <3>3
    <2>4. t = 0 \/ t \in 1..238 \/ ~(t =< 238)
      BY <1>1
    <2> HIDE DEF p
    <2> QED BY <2>1, <2>2, <2>3, <2>4, ZenonT(30)
  <1>6. PICK q : Goes(o, p, in, n, t, q, EndCode)
    BY <1>5
  <1> HIDE DEF p
  <1>7. Encodes(p, in, P)
    BY <1>0, <1>1, <1>6, MarkedTo
  <1>8. p \in Seq(Bytes) /\ q \in Nat /\ Len(p) = q + Len(EndCode)
    BY <1>6 DEF Goes, Ends
  <1>9. p # <<>>
    <2>1. Len(p) # 0
      BY <1>3, <1>8, SMTT(30)
    <2> QED BY <2>1
  <1> QED BY <1>7, <1>8, <1>9, ZenonT(30) DEF p, run, t

\* All of the input has been encoded at the end.
LEMMA FinishEncodes ==
    ASSUME EncodeInv, Finish
    PROVE  /\ CompressInv' /\ label' = "compressed" /\ UNCHANGED in
           /\ out' \in Seq(Bytes) /\ out' # <<>> /\ \E P : Encodes(out', in, P)
  <1> DEFINE n == block.end - ti
             m == ti + Len(in) - block.end
             t == Len(in) - n
             run == Slice(in, n, Len(in))
             body == IF out = <<>> /\ t \in 1..238 THEN <<17 + t>> \o run ELSE Literals(out, run)
  <1>1. /\ label = "block" /\ label' = "compressed" /\ UNCHANGED in
        /\ out' = (IF out = <<>> /\ m \in 1..238
                   THEN <<17 + m>> \o Slice(in, Len(in) - m, Len(in))
                   ELSE Literals(out, Slice(in, Len(in) - m, Len(in)))) \o EndCode
    BY ZenonT(30) DEF Finish
  <1>2. /\ CompressInv /\ out \in Seq(Bytes) /\ Room(out)
        /\ \E P : Written(out, in, n, P)
    BY <1>1, ZenonT(30) DEF EncodeInv, Encoding, Encoded
  <1>3. /\ in \in Seq(0..255) /\ block.end \in Nat /\ block.end =< Len(in)
        /\ ti \in Nat /\ 16 * Len(out) =< 17 * (block.end - ti)
    BY <1>1, <1>2, ZenonT(30) DEF CompressInv, CompressLabels, Encoded
  <1>4. Len(in) \in Nat /\ Len(out) \in Nat
    BY <1>2, <1>3
  <1>5. n \in Nat /\ n =< Len(in)
    <2>1. 17 * (block.end - ti) >= 0
      BY <1>3, <1>4
    <2> QED BY <1>3, <1>4, <2>1
  <1>6. m = t /\ Len(in) - m = n
    BY <1>3, <1>4, SMTT(30)
  <1>7. out' = body \o EndCode
    <2> HIDE DEF m, t, n
    <2> QED BY <1>1, <1>6, ZenonT(30)
  <1>8. PICK P : Written(out, in, n, P)
    BY <1>2
  <1> HIDE DEF n
  <1>9. body \o EndCode \in Seq(Bytes) /\ body \o EndCode # <<>> /\ Encodes(body \o EndCode, in, P)
    BY <1>2, <1>3, <1>5, <1>8, LastEncoded
  <1> HIDE DEF body
  <1>10. CompressInv'
    BY <1>2, FinishInv
  <1> QED BY <1>1, <1>7, <1>9, <1>10, ZenonT(30)

\* Before it has been called, the compressor has written nothing.
LEMMA IdleIsEmpty == ASSUME CompressInv, label = "idle" PROVE out = <<>>
  <1>1. /\ out \in Seq(Int) /\ 16 * Len(out) =< 17 * Encoded
        /\ ti = 0 /\ block = NoBlock
    BY DEF CompressInv, CompressLabels
  <1>2. Encoded = 0
    BY <1>1 DEF Encoded, NoBlock
  <1>3. Len(out) = 0
    BY <1>1, <1>2
  <1> QED BY <1>1, <1>3

\* Calling the compressor encodes nothing yet.
LEMMA CallCompressEncodes == ASSUME EncodeInv, CallCompress PROVE EncodeInv'
  <1>1. label = "idle" /\ label' = "block" /\ UNCHANGED <<out, top, block, ip, ii, ti, dict>>
    BY DEF CallCompress
  <1>2. CompressInv'
    BY CallCompressInv DEF EncodeInv
  <1>3. out = <<>>
    BY <1>1, IdleIsEmpty DEF EncodeInv
  <1>4. Encoded' = 0
    <2>1. ti = 0 /\ block = NoBlock
      BY <1>1 DEF EncodeInv, CompressInv
    <2> QED BY <1>1, <2>1 DEF Encoded, NoBlock
  <1>5. Encoding'
    <2>1. Written(<<>>, in', 0, {Start})
      BY NothingWritten
    <2> QED BY <1>1, <1>3, <1>4, <2>1 DEF Encoding
  <1>6. (out \in Seq(Bytes) /\ Room(out))'
    BY <1>1, <1>3 DEF Room
  <1> QED BY <1>1, <1>2, <1>5, <1>6 DEF EncodeInv

\* The decompressor leaves what has been compressed alone.
LEMMA DecompressEncodes == ASSUME EncodeInv, Decompress PROVE EncodeInv'
  <1>1. label' \in Labels /\ UNCHANGED <<in, out, top>>
    BY DecompressLabels DEF compressorVars
  <1>2. label' \notin CompressLabels
    BY <1>1 DEF Labels, CompressLabels
  <1>3. CompressInv'
    BY <1>1, <1>2 DEF EncodeInv, CompressInv, CompressLabels, WritesFit, maxOutSize
  <1> QED BY <1>2, <1>3 DEF EncodeInv, CompressLabels

\* The compressor has encoded its input, in the steps of the compressor; in those
\* of the decompressor, what that has written is the start of the input.
RoundInv ==
    /\ EncodeInv
    /\ label \in CompressLabels => packet = <<>> /\ size = 0 /\ rp = 0 /\ dec = <<>>
    /\ label = "compressed" => out \in Seq(Bytes) /\ out # <<>> /\ \E P : Encodes(out, in, P)
    /\ label \in Labels => DecodeInv
    /\ label \in Labels \ {"done"} /\ out # <<>> => Decodes
    /\ label = "done" /\ out # <<>> => Done

\* So it is as long as the compressor runs.
LEMMA CompressRounds == ASSUME RoundInv, Compress, HashesFit PROVE RoundInv'
  <1>1. label \in CompressLabels /\ label' \in CompressLabels \ {"idle"}
        /\ UNCHANGED <<packet, size, rp, dec>>
    <2>1. UNCHANGED <<packet, size, rp, dec>>
      <3>1. UNCHANGED decompressorVars
        <4>1. CallCompress => UNCHANGED decompressorVars
          BY Zenon DEF CallCompress
        <4>2. StartBlock => UNCHANGED decompressorVars
          BY Zenon DEF StartBlock
        <4>3. SkipLiteral => UNCHANGED decompressorVars
          BY Zenon DEF SkipLiteral
        <4>4. FindMatch => UNCHANGED decompressorVars
          BY DEF FindMatch
        <4>5. EndBlock => UNCHANGED decompressorVars
          BY Zenon DEF EndBlock
        <4>6. Finish => UNCHANGED decompressorVars
          BY Zenon DEF Finish
        <4> QED BY <4>1, <4>2, <4>3, <4>4, <4>5, <4>6 DEF Compress
      <3> QED BY <3>1 DEF decompressorVars
    <2>2. CASE CallCompress \/ StartBlock \/ SkipLiteral \/ EndBlock \/ Finish
      BY <2>1, <2>2, Zenon
         DEF CallCompress, StartBlock, SkipLiteral, EndBlock, Finish, CompressLabels
    <2>3. CASE FindMatch
      <3>1. label = "next" /\ (label' = label \/ label' = "literal")
        BY <2>3 DEF FindMatch
      <3> QED BY <2>1, <3>1 DEF CompressLabels
    <2> QED BY <2>2, <2>3 DEF Compress
  <1>2. EncodeInv
    BY DEF RoundInv
  <1>3. label' \notin Labels /\ label' # "done"
    BY <1>1 DEF Labels, CompressLabels
  <1>4. (packet = <<>> /\ size = 0 /\ rp = 0 /\ dec = <<>>)'
    BY <1>1 DEF RoundInv
  <1>5. CASE Finish
    <2>1. /\ CompressInv' /\ label' = "compressed" /\ UNCHANGED in
          /\ out' \in Seq(Bytes) /\ out' # <<>> /\ \E P : Encodes(out', in, P)
      BY <1>2, <1>5, FinishEncodes
    <2>2. EncodeInv'
      BY <2>1 DEF EncodeInv
    <2>3. in' = in
      BY <2>1
    <2> QED BY <1>3, <1>4, <2>1, <2>2, <2>3 DEF RoundInv
  <1>6. CASE CallCompress \/ StartBlock \/ SkipLiteral \/ FindMatch \/ EndBlock
    <2>1. EncodeInv'
      BY <1>2, <1>6, CallCompressEncodes, StartBlockEncodes, SkipLiteralEncodes, FindMatchEncodes,
         EndBlockEncodes
    <2>2. label' # "compressed"
      BY <1>6 DEF CallCompress, StartBlock, SkipLiteral, FindMatch, EndBlock
    <2> QED BY <1>3, <1>4, <2>1, <2>2 DEF RoundInv
  <1> QED BY <1>5, <1>6 DEF Compress

\* The decompressor starts at the first mark.
LEMMA CallDecompressRounds == ASSUME RoundInv, CallDecompress PROVE RoundInv'
  <1>1. /\ label \in {"idle", "compressed"} /\ label' = "begin"
        /\ UNCHANGED <<in, out, rp, dec, status>>
    BY DEF CallDecompress, compressorVars
  <1>2. EncodeInv /\ CompressInv /\ rp = 0 /\ dec = <<>>
    BY <1>1 DEF RoundInv, EncodeInv, CompressLabels
  <1>3. EncodeInv'
    BY <1>2, DecompressEncodes DEF Decompress
  <1>4. in \in Seq(0..255)
    BY <1>2 DEF CompressInv
  <1>5. /\ label' \notin CompressLabels /\ label' \in Labels
        /\ label' # "done" /\ label' # "compressed"
    BY <1>1 DEF CompressLabels, Labels
  <1>6. packet' \in Seq(0..255) /\ size' \in Nat
    <2>1. CASE label = "compressed"
      <3>1. packet' = out /\ size' = Len(in)
        BY <2>1 DEF CallDecompress
      <3>2. out \in Seq(0..255)
        BY <2>1 DEF RoundInv, Bytes
      <3>3. Len(in) \in Nat
        BY <1>4
      <3> QED BY <3>1, <3>2, <3>3
    <2>2. CASE label = "idle"
      <3>1. PICK f \in Foreign : packet' = f.packet /\ size' = f.size
        BY <2>2 DEF CallDecompress
      <3>2. f \in [packet : Seq(0..255), size : Nat]
        BY MiniLZOAssumption
      <3> QED BY <3>1, <3>2
    <2> QED BY <1>1, <2>1, <2>2
  <1>7. DecodeInv'
    <2>1. rp' = 0 /\ dec' = <<>>
      BY <1>1, <1>2
    <2>2. Len(packet') \in Nat
      BY <1>6
    <2> QED BY <1>1, <1>5, <1>6, <2>1, <2>2 DEF DecodeInv
  <1>8. ASSUME out # <<>> PROVE Decodes'
    <2>1. label = "compressed"
      BY <1>1, <1>2, <1>8, IdleIsEmpty
    <2>2. packet' = out /\ size' = Len(in)
      BY <2>1 DEF CallDecompress
    <2>3. PICK P : Encodes(out, in, P)
      BY <2>1 DEF RoundInv
    <2>4. Start \in P
      BY <2>3 DEF Encodes
    <2>5. PICK t \in Nat, q \in Nat :
             LiteralsAt(out, in, Start, t, q) /\ GoesOn(out, in, P, q, Start.n + t)
      BY <2>3, <2>4 DEF Encodes
    <2>6. PlaceAt(Start, t, q)'
      <3>1. Len(dec') = 0
        BY <1>1, <1>2
      <3> QED BY <1>1, <1>2, <3>1 DEF PlaceAt, DecodedTo
    <2>7. dec' \in Seq(0..255)
      BY <1>1, <1>2
    <2>8. Reading(P, Start, t, q)'
      BY <1>1, <1>4, <1>6, <2>2, <2>3, <2>4, <2>5, <2>6, <2>7 DEF Reading
    <2> QED BY <2>4, <2>8 DEF Decodes
  <1> QED BY <1>1, <1>3, <1>5, <1>7, <1>8 DEF RoundInv

\* It reads what the compressor has written, and nothing beyond it.
LEMMA DecodeRounds == ASSUME RoundInv, Decode, UNCHANGED compressorVars PROVE RoundInv'
  <1>1. label \in Labels \ {"done"} /\ UNCHANGED <<in, out>>
    BY DEF Decode, Begin, LiteralRun, FirstLiteralRun, Match, MatchDone, Labels, compressorVars
  <1>2. label' \in Labels
    BY DecompressLabels DEF Decompress
  <1>3. label' \notin CompressLabels /\ label' # "compressed"
    BY <1>2 DEF CompressLabels, Labels
  <1>4. EncodeInv'
    BY DecompressEncodes DEF RoundInv, Decompress
  <1>5. DecodeInv'
    <2>1. DecodeInv
      BY <1>1 DEF RoundInv
    <2> QED
      BY <2>1, BeginInv, LiteralRunInv, FirstLiteralRunInv, MatchInv, MatchDoneInv DEF Decode
  <1>6. ASSUME out # <<>>
        PROVE  /\ label' # "done" => Decodes'
               /\ label' = "done" => Done'
    <2>1. Decodes
      BY <1>1, <1>6 DEF RoundInv
    <2>2. Done' \/ Decodes'
      BY <1>1, <2>1, DecodeReads
    <2>3. Decodes' => label' # "done"
      BY DEF Decodes, Reading, PlaceAt
    <2>4. Done' => label' = "done"
      BY DEF Done
    <2> QED BY <2>2, <2>3, <2>4
  <1> QED BY <1>1, <1>2, <1>3, <1>4, <1>5, <1>6 DEF RoundInv

\* In every step of a call, the compressor has encoded what is behind it, and
\* the decompressor has decoded what is behind it.
THEOREM CodecInvariant == HashesFit => (LzoSpec => []RoundInv)
  <1> SUFFICES ASSUME HashesFit PROVE LzoSpec => []RoundInv
    OBVIOUS
  <1>1. LzoInit => RoundInv
    <2> SUFFICES ASSUME LzoInit PROVE RoundInv
      OBVIOUS
    <2>1. /\ label = "idle" /\ in = <<>> /\ out = <<>> /\ block = NoBlock /\ ti = 0
          /\ packet = <<>> /\ size = 0 /\ rp = 0 /\ dec = <<>>
      BY DEF LzoInit
    <2>2. CompressInv
      BY InitCompressInv
    <2>3. Encoding
      <3>1. Encoded = 0
        BY <2>1 DEF Encoded, NoBlock
      <3>2. Written(<<>>, in, 0, {Start})
        BY NothingWritten
      <3> QED BY <2>1, <3>1, <3>2 DEF Encoding
    <2>4. out \in Seq(Bytes) /\ Room(out)
      BY <2>1 DEF Room
    <2>5. label \notin Labels /\ label # "compressed" /\ label # "done"
      BY <2>1 DEF Labels
    <2>6. EncodeInv
      BY <2>1, <2>2, <2>3, <2>4 DEF EncodeInv
    <2> QED BY <2>1, <2>5, <2>6 DEF RoundInv
  <1>2. RoundInv /\ [LzoNext]_lzoVars => RoundInv'
    <2> SUFFICES ASSUME RoundInv, [LzoNext]_lzoVars PROVE RoundInv'
      OBVIOUS
    <2>1. CASE Compress
      BY <2>1, CompressRounds
    <2>2. CASE Decompress
      BY <2>2, CallDecompressRounds, DecodeRounds DEF Decompress
    <2>3. CASE UNCHANGED lzoVars
      BY <2>3 DEF lzoVars, compressorVars, decompressorVars, RoundInv, EncodeInv, CompressInv,
                  WritesFit, maxOutSize, Encoded, Encoding, BlockInv, DecodeInv, Decodes, Reading,
                  PlaceAt, DecodedTo, Done
    <2> QED BY <2>1, <2>2, <2>3 DEF LzoNext
  <1> QED BY <1>1, <1>2, PTL DEF LzoSpec

\* Whatever is compressed is decompressed to the same bytes: the literals and
\* the matches that do_compress writes, of each kind and across its blocks, are
\* what lzo1x_decompress_safe takes them for.
THEOREM CodecRoundTrips == HashesFit => (LzoSpec => []RoundTrips)
  <1>1. RoundInv => RoundTrips
    BY DEF RoundInv, RoundTrips, Done
  <1> QED BY <1>1, CodecInvariant, PTL

\* Nor does the decompressor leave its buffers when it is called after the
\* compressor, or without it.
THEOREM CodecStaysInBounds == HashesFit => (LzoSpec => []StaysInBounds)
  <1>1. RoundInv => StaysInBounds
    <2> SUFFICES ASSUME RoundInv PROVE StaysInBounds
      OBVIOUS
    <2>1. label \in CompressLabels \cup Labels
      BY DEF RoundInv, EncodeInv, CompressInv
    <2>2. CASE label \in CompressLabels
      <3>1. packet = <<>> /\ size = 0 /\ rp = 0 /\ dec = <<>>
        BY <2>2 DEF RoundInv
      <3> QED BY <3>1 DEF StaysInBounds
    <2>3. CASE label \in Labels
      BY <2>3 DEF RoundInv, DecodeInv, StaysInBounds
    <2> QED BY <2>1, <2>2, <2>3
  <1> QED BY <1>1, CodecInvariant, PTL
===============================================================================
