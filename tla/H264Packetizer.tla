--------------------------- MODULE H264Packetizer ---------------------------
(***************************************************************************)
(* RtpPacketizerH264 (rtp_format_h264.cpp) and RtpPacketizer (rtp_format): *)
(* an Annex B frame, a sequence of bytes, becomes the payloads of its      *)
(* packets: single NALUs, aggregates (STAP-A) and fragments (FU-A).  The   *)
(* limits of PayloadLimits other than the maximum are 0, as in the code.   *)
(***************************************************************************)
EXTENDS Naturals, Sequences, SequencesExt, FiniteSetsExt

CONSTANT MaxPayloadLen   \* max_payload_len, 1200

\* The size of a NALU in an aggregate takes two bytes.
ASSUME H264PacketizerAssumption ==
    MaxPayloadLen \in Nat /\ MaxPayloadLen >= 4 /\ MaxPayloadLen < 65536

Byte == 0..255

StapA == 24
FuA == 28
StartBit == 128
EndBit == 64
FuAHeaderSize == 2

TypeOf(byte) == byte % 32
WithType(byte, type) == (byte \div 32) * 32 + type

\* Where the start codes are, 0-based, by the byte they start at without a
\* leading zero: the search goes on three bytes after a byte that ends none.
StartCodes(buffer) ==
    LET B(i) == buffer[i + 1]
        search[i \in 0..Len(buffer)] ==
            IF i >= Len(buffer) - 3 \/ Len(buffer) < 3 THEN <<>>
            ELSE CASE B(i + 2) > 1 -> search[i + 3]
                   [] B(i + 2) = 1 -> (IF B(i) = 0 /\ B(i + 1) = 0 THEN <<i>> ELSE <<>>)
                                      \o search[i + 3]
                   [] OTHER -> search[i + 1]
    IN  search[0]

\* [mutant: FindNaluIndices] The zero of a 4-byte start code stays with the NALU before.
FindNaluIndicesThree(buffer) ==
    LET at == StartCodes(buffer)
        End(k) == IF k = Len(at) THEN Len(buffer) ELSE at[k + 1]
    IN  [k \in DOMAIN at |-> SubSeq(buffer, at[k] + 4, End(k))]

\* FindNaluIndices, and the NALUs that lie between the start codes.
FindNaluIndices(buffer) ==
    LET at == StartCodes(buffer)
        Start(k) == IF at[k] > 0 /\ buffer[at[k]] = 0 THEN at[k] - 1 ELSE at[k]
        End(k) == IF k = Len(at) THEN Len(buffer) ELSE Start(k + 1)
    IN  [k \in DOMAIN at |-> SubSeq(buffer, at[k] + 4, End(k))]

\* SplitAboutEqual: the sizes of the parts of size bytes, none over max.
SplitAboutEqual(size, max) ==
    LET parts == Max({2, (size + max - 1) \div max})
        larger == size % parts
        Share(left) == size \div parts + (IF left <= larger THEN 1 ELSE 0)
        Part(left, remain) ==
            IF left = 2 /\ Share(left) >= remain THEN remain - 1 ELSE Min({Share(left), remain})
        split[left \in 0..parts] ==
            [remain \in 0..size |->
                IF remain = 0 \/ left = 0 THEN <<>>
                ELSE <<Part(left, remain)>> \o split[left - 1][remain - Part(left, remain)]]
    IN  CASE max >= size -> <<size>>
          [] max < size /\ max < 1 -> <<>>
          [] OTHER -> split[parts][size]

\* PacketizeFuA and NextFragmentPacket: the payloads of one large NALU.
PacketizeFuA(nalu) ==
    LET sizes == SplitAboutEqual(Len(nalu) - 1, MaxPayloadLen - FuAHeaderSize)
        Before(k) == 1 + SumFunctionOnSet(sizes, 1..(k - 1))
        Bits(k) == (IF k = 1 THEN StartBit ELSE 0) + (IF k = Len(sizes) THEN EndBit ELSE 0)
    IN  [k \in DOMAIN sizes |->
            <<WithType(nalu[1], FuA), Bits(k) + TypeOf(nalu[1])>>
            \o SubSeq(nalu, Before(k) + 1, Before(k) + sizes[k])]

Sizes(nalus, i, k) == SumFunction([j \in i..k |-> Len(nalus[j])])

\* [mutant: AggregateSize] The header of the aggregate itself is not counted.
AggregateSizeNoHeader(nalus, i, k) ==
    Sizes(nalus, i, k) + (IF k > i THEN 4 + 2 * (k - i - 1) ELSE 0)

\* What PacketizeStapA takes the NALUs i..k to need.
AggregateSize(nalus, i, k) ==
    Sizes(nalus, i, k) + (IF k > i THEN 5 + 2 * (k - i - 1) ELSE 0)

\* The last NALU of the packet that starts with NALU i.
AggregateEnd(nalus, i) ==
    Max({k \in i..Len(nalus) :
            \A j \in i..k : AggregateSize(nalus, i, j) <= MaxPayloadLen})

\* NextPacket for a lone NALU, and NextAggregatedPacket for several.
AggregatePayload(nalus, i, k) ==
    IF i = k THEN nalus[i]
    ELSE <<WithType(nalus[i][1], StapA)>> \o
         FlattenSeq([j \in 1..(k - i + 1) |->
             LET nalu == nalus[i + j - 1]
             IN  <<Len(nalu) \div 256, Len(nalu) % 256>> \o nalu])

\* GeneratePackets, and NextPacket until it has none: payloads in order.  No
\* packet is made of a frame one of whose NALUs cannot be split.
Packetize(buffer) ==
    LET nalus == FindNaluIndices(buffer)
        generate[i \in 1..(Len(nalus) + 1)] ==
            IF i > Len(nalus) THEN <<>>
            ELSE IF Len(nalus[i]) > MaxPayloadLen
                 THEN PacketizeFuA(nalus[i]) \o generate[i + 1]
                 ELSE LET k == AggregateEnd(nalus, i)
                      IN  <<AggregatePayload(nalus, i, k)>> \o generate[k + 1]
    IN  generate[1]
=============================================================================
