---------------------------- MODULE RtcpReceiver ----------------------------
(***************************************************************************)
(* RTCPReceiver (rtcp_receiver.cpp) and the packets it parses.  A compound *)
(* packet is a sequence of blocks, in the words the parsers look at:       *)
(*   whole    its header is well formed and the bytes it announces there   *)
(*   type     PT; count: RC or FMT; media: the media ssrc of a feedback    *)
(*   words    report blocks, items of a NACK, or the rest of a feedback    *)
(*   padding  words after them, announced by the padding bit               *)
(* The receiver is what it tells its observers, call by call, and the      *)
(* blocks it skipped.                                                      *)
(***************************************************************************)
EXTENDS TransportFeedback

CONSTANTS SeqSpace,      \* 2^16, RTP sequence numbers
          NtpModulus,    \* 2^32, of the compact NTP time
          NtpSecond,     \* 2^16, a second of it
          MsSecond       \* 1000, a second of rtt_ms

ASSUME RtcpReceiverAssumption ==
    /\ {SeqSpace, NtpModulus, NtpSecond, MsSecond} \subseteq Nat \ {0}
    /\ NtpModulus % 2 = 0

ReceiverReport == 201
Rtpfb == 205
NackFmt == 1
TransportFeedbackFmt == 15

\* The packets after the first one that an item of a NACK has a bit for.
MaskBits == 16

\* The bits set in the last word of 4 bytes of padding, 00 00 00 04.
PaddingWord == [pid |-> 0, mask |-> {2}]

NothingHeard == [calls |-> <<>>, skipped |-> 0]
Skip(heard) == [heard EXCEPT !.skipped = @ + 1]
Call(heard, call) == [heard EXCEPT !.calls = Append(@, call)]

\* CommonHeader::Parse: has_padding compares a masked bit with 1, so it is
\* never set, and padding stays part of the payload.
Payload(block) == block.words \o block.padding

\* CompactNtpRttToMs: a negative interval, and one that rounds to 0, give 1.
CompactNtpRttToMs(interval) ==
    LET ms == (2 * interval * MsSecond + NtpSecond) \div (2 * NtpSecond)
    IN  IF 2 * interval > NtpModulus \/ ms < 1 THEN 1 ELSE ms

\* [mutant: RttOf] The time the receiver held the report back is not taken off.
RttOfHeld(report, now) == CompactNtpRttToMs((now - report.lastSr) % NtpModulus)

RttOf(report, now) ==
    CompactNtpRttToMs((now - report.lastSr - report.delay) % NtpModulus)

\* HandleReportBlock, for a report on a stream of this host that has heard a
\* sender report.
HandleReportBlock(ssrc, now, heard, report) ==
    IF report.source # ssrc \/ report.lastSr = 0 THEN heard
    ELSE Call(heard, [to |-> "OnNetworkInfo", rtt |-> RttOf(report, now)])

HandleReceiverReport(ssrc, now, heard, block) ==
    IF Len(Payload(block)) < block.count THEN Skip(heard)
    ELSE FoldLeft(LAMBDA h, report : HandleReportBlock(ssrc, now, h, report),
                  heard, SubSeq(Payload(block), 1, block.count))

\* Nack::Unpack: the number of every item, and those its mask is ahead by.
Unpack(item) ==
    <<item.pid>> \o FlattenSeq([i \in 1..MaskBits |->
        IF i - 1 \in item.mask THEN <<(item.pid + i) % SeqSpace>> ELSE <<>>])

HandleNack(heard, block) ==
    IF Payload(block) = <<>> THEN Skip(heard)
    ELSE Call(heard, [to |-> "OnNackReceived",
                      list |-> FlattenSeq([i \in DOMAIN Payload(block) |->
                                              Unpack(Payload(block)[i])])])

\* HandleTransportFeedback, on packets of the stream of this receiver.
HandleTransportFeedback(ssrc, heard, block) ==
    LET message == Payload(block)[1] IN
    IF Parse(message) = <<>> THEN Skip(heard)
    ELSE IF block.media # ssrc THEN heard
    ELSE Call(heard, [to |-> "OnTransportFeedback", ticks |-> message.ticks,
                      statuses |-> Parse(message)])

HandleBlock(ssrc, now, heard, block) ==
    CASE block.type = ReceiverReport -> HandleReceiverReport(ssrc, now, heard, block)
      [] block.type = Rtpfb /\ block.count = NackFmt -> HandleNack(heard, block)
      [] block.type = Rtpfb /\ block.count = TransportFeedbackFmt ->
           HandleTransportFeedback(ssrc, heard, block)
      [] block.type = Rtpfb /\ block.count \notin {NackFmt, TransportFeedbackFmt} -> Skip(heard)
      [] OTHER -> heard

\* ParseCompoundPacket: what follows a malformed block is not read.
ParseCompoundPacket(ssrc, now, blocks) ==
    LET Malformed(k) == ~blocks[k].whole /\ \A j \in 1..(k - 1) : blocks[j].whole
        upTo == IF \E k \in DOMAIN blocks : Malformed(k)
                THEN (CHOOSE k \in DOMAIN blocks : Malformed(k)) - 1 ELSE Len(blocks)
        heard == FoldLeft(LAMBDA h, block : HandleBlock(ssrc, now, h, block),
                          NothingHeard, SubSeq(blocks, 1, upTo))
    IN  IF upTo \notin {0, Len(blocks)} THEN Skip(heard) ELSE heard
=============================================================================
