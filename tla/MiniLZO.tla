-------------------------------- MODULE MiniLZO --------------------------------
(***************************************************************************)
(* The compressor behind every packet (src/compression/minilzo/minilzo.c): *)
(* lzo1x_1_compress as CompressData of PacketSecurity calls it, and        *)
(* lzo1x_decompress_safe as DecompressData does, on bytes.  What is        *)
(* modelled is the build for x86-64: 16-bit dictionary entries             *)
(* (LZO_DICT_USE_PTR 0, so LZO_DETERMINISTIC), copies of 4, 8 and 16 bytes *)
(* at a time (LZO_OPT_UNALIGNED32 and 64).                                 *)
(*                                                                         *)
(* Positions count from 0, as pointers do: position i of a buffer is       *)
(* element i + 1 of its sequence.  The offsets at which the code changes   *)
(* from one kind of match to another and the size of a block are           *)
(* parameters, so that small inputs reach every kind; the layout of the    *)
(* codes is that of the source.  The multiplicative hash DINDEX is the     *)
(* parameter DINDEX.  A step is a pass through the loop of do_compress, or *)
(* the code between two labels of the decompressor.                        *)
(***************************************************************************)
EXTENDS Integers, Sequences

CONSTANTS
    Inputs,          \* the payloads that are compressed
    Foreign,         \* byte strings the decompressor gets that no compressor made,
                     \* each with the size its header promises
    DINDEX(_),       \* the hash of four bytes
    D_SIZE,          \* the hashes are the numbers below D_SIZE; 2^14 in the code
    M2_MAX_OFFSET,   \* 0x0800 in the code
    M3_MAX_OFFSET,   \* 0x4000 in the code
    MAX_BLOCK        \* the input is compressed block by block; 49152 in the code

M2_MAX_LEN == 8
M3_MAX_LEN == 33
M4_MAX_LEN == 9
M3_MARKER == 32
M4_MARKER == 16

ASSUME MiniLZOAssumption ==
    /\ M2_MAX_OFFSET \in Nat /\ M3_MAX_OFFSET \in Nat
    /\ M2_MAX_OFFSET <= M3_MAX_OFFSET
    /\ MAX_BLOCK \in Nat /\ MAX_BLOCK > 20
    /\ D_SIZE \in Nat
    /\ Inputs \subseteq Seq(0..255)
    /\ Foreign \subseteq [packet: Seq(0..255), size: Nat]

\* A match of a block is never further back than its code can say.
ASSUME FormatAssumption ==
    /\ M2_MAX_OFFSET <= 2048 /\ M3_MAX_OFFSET <= 16384
    /\ MAX_BLOCK <= M3_MAX_OFFSET + 32768

VARIABLES
    label,   \* where the code is
    in,      \* the input of the compressor
    out,     \* its output, up to op
    top,     \* the end of the furthest write into the output buffer
    block,   \* the block: from "from" to "end"
    ip, ii,  \* the next byte to look at, the first byte not yet encoded
    ti,      \* the bytes of earlier blocks not yet encoded
    dict,    \* the dictionary: positions in the block, by hash
    packet,  \* the input of the decompressor
    size,    \* the size of its output buffer
    rp,      \* ip of the decompressor
    dec,     \* its output, up to op
    status   \* what it has returned

compressorVars == <<in, out, top, block, ip, ii, ti, dict>>
decompressorVars == <<packet, size, rp, dec, status>>
lzoVars == <<label, compressorVars, decompressorVars>>

NoBlock == [from |-> 0, end |-> 0]

LzoInit ==
    /\ label = "idle"
    /\ in = <<>> /\ out = <<>> /\ top = 0
    /\ block = NoBlock /\ ip = 0 /\ ii = 0 /\ ti = 0
    /\ dict = [h \in 0..(D_SIZE - 1) |-> 0]
    /\ packet = <<>> /\ size = 0 /\ rp = 0 /\ dec = <<>> /\ status = "none"
-------------------------------------------------------------------------------
(* Codes                                                                     *)

Larger(x, y) == IF x > y THEN x ELSE y
Smaller(x, y) == IF x < y THEN x ELSE y

\* LZO_BYTE
Byte(x) == x % 256

\* The bits of x and y, both below 4.
Or2(x, y) == (IF x \div 2 = 1 \/ y \div 2 = 1 THEN 2 ELSE 0)
             + (IF x % 2 = 1 \/ y % 2 = 1 THEN 1 ELSE 0)

\* A length over its marker's range: a zero for each 255, then the rest.
LongLength(n) == [k \in 1..((n - 1) \div 255) |-> 0] \o <<n - 255 * ((n - 1) \div 255)>>

\* o followed by a run of literals: up to three are counted in the low bits of
\* the last but one byte of the match before them.
Literals(o, run) ==
    LET t == Len(run)
        last == Len(o) - 1
    IN  CASE t = 0 -> o
          [] t \in 1..3 -> [o EXCEPT ![last] = (@ - (@ % 4)) + Or2(@ % 4, t)] \o run
          [] t \in 4..18 -> o \o <<t - 3>> \o run
          [] OTHER -> o \o <<0>> \o LongLength(t - 18) \o run

\* Where the copies of a run end that starts at the end of o: a run of up to
\* three bytes is copied as four, one of up to sixteen as sixteen.
CopyEnd(o, run) ==
    LET t == Len(run)
        start == Len(Literals(o, run)) - t
    IN  CASE t = 0 -> Len(o)
          [] t \in 1..3 -> start + 4
          [] t \in 4..16 -> start + 16
          [] OTHER -> start + t

\* The code of a match of m_len bytes, m_off bytes back.
MatchCode(m_len, m_off) ==
    LET Counted(marker, max, off) ==
            (IF m_len <= max THEN <<marker + m_len - 2>>
                             ELSE <<marker>> \o LongLength(m_len - max))
            \o <<Byte(off * 4), Byte(off \div 64)>>
        far == m_off - M3_MAX_OFFSET
    IN  IF m_len <= M2_MAX_LEN /\ m_off <= M2_MAX_OFFSET
        THEN <<(m_len - 1) * 32 + ((m_off - 1) % 8) * 4, Byte((m_off - 1) \div 8)>>
        ELSE IF m_off <= M3_MAX_OFFSET
        THEN Counted(M3_MARKER, M3_MAX_LEN, m_off - 1)
        ELSE Counted(M4_MARKER + 8 * ((far \div 16384) % 2), M4_MAX_LEN, far)

EndCode == <<M4_MARKER + 1, 0, 0>>
-------------------------------------------------------------------------------
(* lzo1x_1_compress                                                          *)

Slice(s, from, end) == SubSeq(s, from + 1, end)

CallCompress ==
    /\ label = "idle"
    /\ \E input \in Inputs : in' = input
    /\ label' = "block"
    /\ UNCHANGED <<out, top, block, ip, ii, ti, dict, decompressorVars>>

\* The loop head: a block is compressed while more than 20 bytes are left.
StartBlock ==
    /\ label = "block"
    /\ Len(in) - block.end > 20
    /\ LET from == block.end
           ll == Smaller(Len(in) - from, MAX_BLOCK)
       IN  /\ block' = [from |-> from, end |-> from + ll]
           /\ ii' = from
           /\ ip' = from + (IF ti < 4 THEN 4 - ti ELSE 0)
    /\ dict' = [h \in 0..(D_SIZE - 1) |-> 0]
    /\ label' = "literal"
    /\ UNCHANGED <<in, out, top, ti, decompressorVars>>

IpEnd == block.end - 20

\* The label literal: the next byte is left to a run, and long runs are
\* searched less and less densely.
SkipLiteral ==
    /\ label = "literal"
    /\ ip' = ip + 1 + (ip - ii) \div 32
    /\ label' = "next"
    /\ UNCHANGED <<in, out, top, block, ii, ti, dict, decompressorVars>>

\* The bytes from ip that also follow position m_pos, as far as they are
\* compared: eight at a time, until a comparison starts at or after ip_end.
MatchLength(m_pos) ==
    LET rest == 0..(Len(in) - ip)
        common == CHOOSE n \in rest :
                    /\ \A k \in 1..n : in[ip + k] = in[m_pos + k]
                    /\ ip + n = Len(in) \/ in[ip + n + 1] # in[m_pos + n + 1]
        chunks == Larger(1, (IpEnd - ip - 4 + 7) \div 8)
    IN  Smaller(common, 4 + 8 * chunks)

Hash(i) == DINDEX(Slice(in, i, i + 4))

\* The label next: a match is looked up and encoded after the literals before it.
FindMatch ==
    /\ label = "next"
    /\ ip < IpEnd
    /\ dict' = [dict EXCEPT ![Hash(ip)] = (ip - block.from) % 65536]
    /\ LET m_pos == block.from + dict[Hash(ip)]
           m_len == MatchLength(m_pos)
           run == Slice(in, ii - ti, ip)
           encoded == Literals(out, run) \o MatchCode(m_len, ip - m_pos)
       IN  IF Slice(in, ip, ip + 4) = Slice(in, m_pos, m_pos + 4)
           THEN /\ out' = encoded
                /\ top' = Larger(top, Larger(CopyEnd(out, run), Len(encoded)))
                /\ ip' = ip + m_len
                /\ ii' = ip + m_len
                /\ ti' = 0
                /\ UNCHANGED label
           ELSE /\ label' = "literal"
                /\ UNCHANGED <<out, top, ip, ii, ti>>
    /\ UNCHANGED <<in, block, decompressorVars>>

\* Mutant: the bytes left over by the block before are forgotten.
EndBlockForgetful ==
    /\ label = "next"
    /\ ip >= IpEnd
    /\ ti' = block.end - ii
    /\ label' = "block"
    /\ UNCHANGED <<in, out, top, block, ip, ii, dict, decompressorVars>>

\* ip has reached ip_end: what is not encoded is left to the next block.
EndBlock ==
    /\ label = "next"
    /\ ip >= IpEnd
    /\ ti' = block.end - (ii - ti)
    /\ label' = "block"
    /\ UNCHANGED <<in, out, top, block, ip, ii, dict, decompressorVars>>

\* The bytes left over, and the end code.
Finish ==
    /\ label = "block"
    /\ Len(in) - block.end <= 20
    /\ LET t == ti + Len(in) - block.end
           run == Slice(in, Len(in) - t, Len(in))
           body == IF out = <<>> /\ t \in 1..238 THEN <<17 + t>> \o run
                                                 ELSE Literals(out, run)
       IN  /\ out' = body \o EndCode
           /\ top' = Larger(top, Len(body) + 3)
    /\ label' = "compressed"
    /\ UNCHANGED <<in, block, ip, ii, ti, dict, decompressorVars>>

Compress == CallCompress \/ StartBlock \/ SkipLiteral \/ FindMatch \/ EndBlock \/ Finish

\* Mutant: without room for what a short input adds.
tightOutSize == Len(in) + Len(in) \div 16 + 3

\* The buffer of CompressData.
maxOutSize == Len(in) + Len(in) \div 16 + 64 + 3

-------------------------------------------------------------------------------
(* lzo1x_decompress_safe                                                     *)

\* A byte beyond the end of the packet reads as zero.
At(i) == IF i < Len(packet) THEN packet[i + 1] ELSE 0

Return(result) ==
    /\ label' = "done"
    /\ status' = result
    /\ UNCHANGED <<rp, dec>>

\* The answer of DecompressData: a receiver knows the size from the header.
CallDecompress ==
    /\ \/ /\ label = "compressed"
          /\ packet' = out /\ size' = Len(in)
       \/ /\ label = "idle"
          /\ \E f \in Foreign : packet' = f.packet /\ size' = f.size
    /\ label' = "begin"
    /\ UNCHANGED <<compressorVars, rp, dec, status>>

\* Mutant: NEED_IP(n): the code that follows the literals is not counted.
TakeLiteralsUnchecked(i, n, then) ==
    IF Len(dec) + n > size THEN Return("output_overrun")
    ELSE IF i + n > Len(packet) THEN Return("input_overrun")
    ELSE /\ dec' = dec \o Slice(packet, i, i + n)
         /\ rp' = i + n
         /\ label' = then
         /\ UNCHANGED status

\* n literals from position i, under NEED_OP(n) and NEED_IP(n + 3).
TakeLiterals(i, n, then) ==
    IF Len(dec) + n > size THEN Return("output_overrun")
    ELSE IF i + n + 3 > Len(packet) THEN Return("input_overrun")
    ELSE /\ dec' = dec \o Slice(packet, i, i + n)
         /\ rp' = i + n
         /\ label' = then
         /\ UNCHANGED status

\* How many zero bytes there are from position i on.
ZerosFrom(i) ==
    {n \in 0..Len(packet) :
        /\ \A k \in 0..(n - 1) : i + k < Len(packet) /\ At(i + k) = 0
        /\ i + n >= Len(packet) \/ At(i + n) # 0}

\* The length that follows its marker at position i, and where it ends; it is
\* not all there if it ends beyond the packet.
LengthAt(i, base) ==
    {[t |-> 255 * z + base + At(i + z), end |-> i + z + 1] : z \in ZerosFrom(i)}

\* len bytes from m_off bytes back, over and over if they are fewer.
CopyOf(s, m_off, len) == [k \in 1..len |-> s[Len(s) - m_off + 1 + ((k - 1) % m_off)]]

\* The copy of a match, from what is there to where there is room.
CopyMatch(m_off, len, end) ==
    IF m_off > Len(dec) THEN Return("lookbehind_overrun")
    ELSE IF Len(dec) + len > size THEN Return("output_overrun")
    ELSE /\ dec' = dec \o CopyOf(dec, m_off, len)
         /\ rp' = end
         /\ label' = "match_done"
         /\ UNCHANGED status

\* The first byte may count literals by itself.
Begin ==
    /\ label = "begin"
    /\ IF Len(packet) < 1 THEN Return("input_overrun")
       ELSE IF At(0) <= 17 THEN label' = "loop" /\ UNCHANGED <<rp, dec, status>>
       ELSE IF At(0) - 17 < 4 THEN TakeLiterals(1, At(0) - 17, "match")
       ELSE TakeLiterals(1, At(0) - 17, "first_literal_run")
    /\ UNCHANGED <<packet, size>>

\* The head of the outer loop: a run of literals, or straight to a match.
LiteralRun ==
    /\ label = "loop"
    /\ LET t == At(rp)
       IN  IF rp + 3 > Len(packet) THEN Return("input_overrun")
           ELSE IF t >= 16 THEN label' = "match" /\ UNCHANGED <<rp, dec, status>>
           ELSE IF t > 0 THEN TakeLiterals(rp + 1, t + 3, "first_literal_run")
           ELSE \E long \in LengthAt(rp + 1, 15) :
                    IF long.end > Len(packet) THEN Return("input_overrun")
                    ELSE TakeLiterals(long.end, long.t + 3, "first_literal_run")
    /\ UNCHANGED <<packet, size>>

FirstLiteralRun ==
    /\ label = "first_literal_run"
    /\ IF At(rp) >= 16 THEN label' = "match" /\ UNCHANGED <<rp, dec, status>>
       ELSE CopyMatch(1 + M2_MAX_OFFSET + At(rp) \div 4 + At(rp + 1) * 4, 3, rp + 2)
    /\ UNCHANGED <<packet, size>>

\* eof_found: all of the packet should have been consumed by then.
EofFound(end) ==
    /\ label' = "done"
    /\ rp' = end
    /\ status' = IF end = Len(packet) THEN "ok"
                 ELSE IF end < Len(packet) THEN "input_not_consumed" ELSE "input_overrun"
    /\ UNCHANGED dec

\* The matches with a length under a mask and an offset in two bytes behind it;
\* far ones are counted from M3_MAX_OFFSET, where offset zero ends the packet.
FarMatch(t, mask, base, nearest) ==
    \E length \in (IF t % (mask + 1) = 0 THEN LengthAt(rp + 1, mask)
                   ELSE {[t |-> t % (mask + 1), end |-> rp + 1]}) :
        LET i == length.end
            m_off == base + At(i) \div 4 + At(i + 1) * 64
        IN  IF t % (mask + 1) = 0 /\ i + 2 > Len(packet) THEN Return("input_overrun")
            ELSE IF m_off = 0 THEN EofFound(i + 2)
            ELSE CopyMatch(m_off + nearest, length.t + 2, i + 2)

\* The label match.
Match ==
    /\ label = "match"
    /\ LET t == At(rp)
           near == At(rp + 1)
       IN  IF t >= 64 THEN CopyMatch(1 + ((t \div 4) % 8) + near * 8, t \div 32 + 1, rp + 2)
           ELSE IF t >= 32 THEN FarMatch(t, 31, 1, 0)
           ELSE IF t >= 16 THEN FarMatch(t, 7, ((t \div 8) % 2) * 16384, M3_MAX_OFFSET)
           ELSE CopyMatch(1 + t \div 4 + near * 4, 2, rp + 2)
    /\ UNCHANGED <<packet, size>>

\* The low bits of the last but one byte count the literals that follow.
MatchDone ==
    /\ label = "match_done"
    /\ LET t == At(rp - 2) % 4
       IN  IF t = 0 THEN label' = "loop" /\ UNCHANGED <<rp, dec, status>>
                    ELSE TakeLiterals(rp, t, "match")
    /\ UNCHANGED <<packet, size>>

Decode == Begin \/ LiteralRun \/ FirstLiteralRun \/ Match \/ MatchDone

Decompress == CallDecompress \/ (Decode /\ UNCHANGED compressorVars)

LzoNext == Compress \/ Decompress

LzoSpec == LzoInit /\ [][LzoNext]_lzoVars

LzoFairSpec == LzoSpec /\ WF_lzoVars(LzoNext)
-------------------------------------------------------------------------------
(* Properties                                                                *)

\* What has been compressed is decompressed to the same bytes, whatever the
\* kinds of its matches, the lengths of its runs and the borders of its blocks.
RoundTrips == label = "done" /\ out # <<>> => status = "ok" /\ dec = in

\* No write of the compressor, the copies that run ahead of op included, goes
\* beyond the buffer CompressData gives it.
WritesFit == top <= maxOutSize

\* No byte string makes the decompressor read beyond its end or write more than
\* the size the header promised.
StaysInBounds == rp <= Len(packet) /\ Len(dec) <= size
===============================================================================
