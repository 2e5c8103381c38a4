------------------------- MODULE TransportFeedback -------------------------
(***************************************************************************)
(* rtcp::TransportFeedback::Parse (rtcp_packet/transport_feedback.cpp): a  *)
(* list of chunks, each the statuses of several packets, is unpacked and   *)
(* paired with the deltas that follow it.  The body is a sequence of bytes,*)
(* for only the statuses say where the chunks end and the deltas begin.    *)
(***************************************************************************)
EXTENDS Integers, Sequences, SequencesExt

WireModulus == 65536   \* 16-bit words and sequence numbers
OneBitCapacity == 14
TwoBitCapacity == 7
NoDelta == 0           \* the delta of a packet that is given none

Least(m, n) == IF m < n THEN m ELSE n

Word(bytes, i) == bytes[i] * 256 + bytes[i + 1]
Signed(word) == IF word < 32768 THEN word ELSE word - WireModulus

\* DecodeRunLength: one status, repeated.
DecodeRunLength(chunk, max) ==
    [i \in 1..Least(chunk % 8192, max) |-> (chunk \div 8192) % 4]

\* DecodeOneBit: a bit per packet, the first one highest.
DecodeOneBit(chunk, max) ==
    [i \in 1..Least(OneBitCapacity, max) |-> (chunk \div 2^(OneBitCapacity - i)) % 2]

\* [mutant: DecodeTwoBit] The first packet is taken from the lowest bits.
DecodeTwoBitLow(chunk, max) ==
    [i \in 1..Least(TwoBitCapacity, max) |-> (chunk \div 4^(i - 1)) % 4]

DecodeTwoBit(chunk, max) ==
    [i \in 1..Least(TwoBitCapacity, max) |-> (chunk \div 4^(TwoBitCapacity - i)) % 4]

\* LastChunk::Decode and AppendTo.
Decode(chunk, max) ==
    CASE chunk < 32768 -> DecodeRunLength(chunk, max)
      [] chunk \in 32768..49151 -> DecodeOneBit(chunk, max)
      [] OTHER -> DecodeTwoBit(chunk, max)

\* The sizes of the deltas of count packets, and how many bytes the chunks
\* took; fewer sizes when the bytes end before.
ReadChunks(bytes, count) ==
    LET read[i \in Nat, sizes \in Seq(0..3)] ==
            IF Len(sizes) >= count \/ i + 2 > Len(bytes)
            THEN [used |-> i, sizes |-> sizes]
            ELSE read[i + 2, sizes \o Decode(Word(bytes, i + 1), count - Len(sizes))]
    IN  read[0, <<>>]

\* The delta of a packet, at byte i of those that follow.
ReadDelta(bytes, i, size) ==
    CASE size = 1 -> bytes[i + 1]
      [] size = 2 -> Signed(Word(bytes, i + 1))
      [] OTHER -> NoDelta

\* Parse of a message: its statuses in order, or none when it is refused.
\* When the deltas are not all there, packets have arrived at unknown times.
Parse(message) ==
    LET chunks == ReadChunks(message.bytes, message.count)
        sizes == chunks.sizes
        Before(k) == FoldLeft(+, chunks.used, SubSeq(sizes, 1, k - 1))
        timed == Before(Len(sizes) + 1) <= Len(message.bytes)
        Status(k) ==
            [seq |-> (message.base + k - 1) % WireModulus, received |-> sizes[k] > 0,
             delta |-> IF timed THEN ReadDelta(message.bytes, Before(k), sizes[k]) ELSE NoDelta]
    IN  IF message.count = 0 \/ Len(message.bytes) < 2 \/ Len(sizes) < message.count
           \/ (timed /\ 3 \in ToSet(sizes))
        THEN <<>>
        ELSE [k \in DOMAIN sizes |-> Status(k)]
=============================================================================
