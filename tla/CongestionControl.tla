------------------------- MODULE CongestionControl -------------------------
(***************************************************************************)
(* From a packet that is sent to the verdict on the network: the receiver  *)
(* acknowledges packets in transport-wide feedback, encoded in chunks, and *)
(* a sender report in a receiver report; RTCPReceiver parses both out of a *)
(* compound packet, TransportFeedbackAdapter turns the feedback into send  *)
(* and arrival times, and GoogCcNetworkController hands them to            *)
(* DelayBasedBwe.  The task queue between them, which only delays, and     *)
(* feedback that repeats itself are in module TransportSend.  The unit of  *)
(* time is that of a delta.                                                *)
(***************************************************************************)
EXTENDS TransportFeedbackAdapter, RtcpReceiver, DelayBasedBwe, FiniteSetsExt

CONSTANTS FirstSeq,     \* transport_seq_ starts here, 1000
          BaseScale,    \* kBaseScaleFactor, 64 ms
          StartTime,    \* the clock of the sender when it starts
          RemoteStart,  \* the clock of the receiver then
          DefaultRtt,   \* kDefaultRtt, 200 ms
          Delays,       \* how long packets may be under way
          MaxPackets, MaxLost, MaxMessages, MaxTime   \* bounds

ASSUME CongestionControlAssumption ==
    /\ {FirstSeq, StartTime, RemoteStart, DefaultRtt, MaxPackets, MaxLost, MaxMessages,
      MaxTime} \subseteq Nat
    /\ Delays \subseteq Nat
    /\ BaseScale \in Nat \ {0} /\ WrapPeriod % BaseScale = 0
    /\ SeqModulus = WireModulus

VARIABLES now,
          sentAt,      \* when the packets were sent, in order
          arrival,     \* when they arrive, on the clock of the receiver, or
                       \* Never when they are lost
          reported,    \* receiver: how many packets it has reported on
          messages,    \* compound packets in the network
          fed,         \* how many so far
          adapter,     \* transport_feedback_adapter_
          epoch,       \* history: sender's clock minus receiver's in results
          bwe,         \* delay_base_bwe_
          rtt,         \* rtt_ of its rate_control_
          trueRtt      \* history: what it should be

network == <<arrival, reported, messages, fed>>
controller == <<adapter, epoch, bwe, rtt, trueRtt>>
vars == <<now, sentAt, network, controller>>

Stream == 1   \* the ssrc of the video
WireSeq(n) == (FirstSeq + n - 1) % WireModulus
Remote(time) == RemoteStart + time - StartTime

Init ==
    /\ now = StartTime /\ sentAt = <<>>
    /\ arrival = <<>> /\ reported = 0 /\ messages = {} /\ fed = 0
    /\ adapter = InitialAdapter /\ epoch = Never
    /\ bwe = InitialBwe /\ rtt = DefaultRtt /\ trueRtt = Never

Tick ==
    /\ now < StartTime + MaxTime
    /\ now' = now + 1
    /\ UNCHANGED <<sentAt, network, controller>>

\* OnAddPacket and, after the pacer, OnSentPacket; and how the network will
\* treat the packet.
Send(time) ==
    /\ Len(sentAt) < MaxPackets
    /\ time = Never => Cardinality({n \in DOMAIN arrival : arrival[n] = Never}) < MaxLost
    /\ sentAt' = Append(sentAt, now)
    /\ arrival' = Append(arrival, time)
    /\ LET seq == WireSeq(Len(sentAt) + 1)
       IN  adapter' = ProcessSentPacket(AddPacket(adapter, seq, now), seq, now)
    /\ UNCHANGED <<now, reported, messages, fed, epoch, bwe, rtt, trueRtt>>

-----------------------------------------------------------------------------
(* The receiver of the media, by the format of the messages.               *)

Arrived(lo, hi) ==
    {n \in lo..hi : n \in DOMAIN arrival /\ arrival[n] \in 0..Remote(now)}

\* The base time, and the deltas: from it, then from one packet to the next.
Base(lo, hi) == arrival[Min(Arrived(lo, hi))] \div BaseScale

Delta(lo, hi, n) ==
    LET before == {m \in Arrived(lo, hi) : m < n}
    IN  arrival[n] - (IF before = {} THEN Base(lo, hi) * BaseScale ELSE arrival[Max(before)])

DeltaSize(lo, hi, n) ==
    CASE n \notin Arrived(lo, hi) -> 0
      [] n \in Arrived(lo, hi) /\ Delta(lo, hi, n) \in 0..255 -> 1
      [] OTHER -> 2

DeltaBytes(lo, hi, n) ==
    LET word == Delta(lo, hi, n) % WireModulus
    IN  CASE DeltaSize(lo, hi, n) = 0 -> <<>>
          [] DeltaSize(lo, hi, n) = 1 -> <<Delta(lo, hi, n)>>
          [] OTHER -> <<word \div 256, word % 256>>

\* The chunks that can say the sizes: a run, a bit or two bits per packet.
Chunk(kind, lo, hi) ==
    LET Of(n) == DeltaSize(lo, hi, n)
        Bits(width, capacity) ==
            FoldLeft(LAMBDA sum, n : sum + Of(n) * 2^(width * (capacity - 1 - (n - lo))),
                     0, [i \in 1..(hi - lo + 1) |-> lo + i - 1])
    IN  CASE kind = "run" -> 8192 * Of(lo) + hi - lo + 1
          [] kind = "one" -> 32768 + Bits(1, OneBitCapacity)
          [] kind = "two" -> 49152 + Bits(2, TwoBitCapacity)

Encodable(kind, lo, hi) ==
    CASE kind = "run" -> lo < hi /\ \A n \in lo..hi : DeltaSize(lo, hi, n) = DeltaSize(lo, hi, lo)
      [] kind = "one" -> \A n \in lo..hi : DeltaSize(lo, hi, n) < 2
      [] kind = "two" -> TRUE

\* Feedback on the packets lo..hi.
Feedback(kind, lo, hi) ==
    LET chunk == Chunk(kind, lo, hi) IN
    [base |-> WireSeq(lo), count |-> hi - lo + 1,
     ticks |-> Base(lo, hi) % (WrapPeriod \div BaseScale),
     bytes |-> <<chunk \div 256, chunk % 256>> \o
               FlattenSeq([i \in 1..(hi - lo + 1) |-> DeltaBytes(lo, hi, lo + i - 1)])]

\* A report that answers the sender report sent with packet n.  The fields sr
\* and held are not in the message.
ReportOn(n) ==
    [source |-> Stream, lastSr |-> sentAt[n] % NtpModulus, delay |-> Remote(now) - arrival[n],
     sr |-> sentAt[n], held |-> Remote(now) - arrival[n]]

\* A message covers the packets that no message has covered, up to the last
\* one that arrived; the first one starts with a report.  The fields lo, hi and
\* got are not in it.
SendFeedback(kind) ==
    LET lo == reported + 1
        hi == Max(Arrived(lo, MaxPackets))
        report == [whole |-> TRUE, type |-> ReceiverReport, count |-> 1, media |-> 0,
                   words |-> <<ReportOn(Min(Arrived(lo, hi)))>>, padding |-> <<>>]
        block == [whole |-> TRUE, type |-> Rtpfb, count |-> TransportFeedbackFmt,
                  media |-> Stream, words |-> <<Feedback(kind, lo, hi)>>, padding |-> <<>>]
    IN  /\ fed < MaxMessages /\ Arrived(lo, MaxPackets) # {} /\ Encodable(kind, lo, hi)
        /\ messages' = messages \cup
             {[blocks |-> IF lo = 1 THEN <<report, block>> ELSE <<block>>, lo |-> lo, hi |-> hi, got |-> Arrived(lo, hi)]}
        /\ fed' = fed + 1 /\ reported' = hi
        /\ UNCHANGED <<now, sentAt, arrival, controller>>

-----------------------------------------------------------------------------

\* AimdRateControl::SetRtt, reached from the report of a round-trip time.
SetRtt(calls) == rtt' = IF calls = <<>> THEN rtt ELSE Last(calls).rtt

\* ParseCompoundPacket and what its calls lead to: OnRttUpdate, then
\* ProcessTransportFeedback and OnTransportPacketsFeedback.
OnRtcpPacketReceived(message) ==
    LET heard == ParseCompoundPacket(Stream, now, message.blocks)
        Calls(to) == SelectSeq(heard.calls, LAMBDA call : call.to = to)
        rtts == Calls("OnNetworkInfo")
        feedback == Calls("OnTransportFeedback")[1]
        done == ProcessTransportFeedback(
                    adapter, [base |-> feedback.ticks * BaseScale,
                              statuses |-> feedback.statuses], now)
    IN  /\ message \in messages
        /\ messages' = messages \ {message}
        /\ SetRtt(rtts)
        /\ trueRtt' = IF rtts = <<>> THEN trueRtt
                      ELSE now - message.blocks[1].words[1].sr - message.blocks[1].words[1].held
        /\ IF Calls("OnTransportFeedback") = <<>>
           THEN UNCHANGED <<adapter, epoch, bwe>>
           ELSE /\ adapter' = done.adapter
                /\ epoch' = IF adapter.timestamp # Never THEN epoch
                            ELSE now - (arrival[Min(message.got)] \div BaseScale) * BaseScale
                /\ \E trend \in Trends :
                      bwe' = OnTransportPacketsFeedback(bwe, done.results, now, trend)
        /\ UNCHANGED <<now, sentAt, arrival, reported, fed>>

Next ==
    \/ Tick
    \/ \E time \in {Remote(now) + d : d \in Delays} \cup {Never} : Send(time)
    \/ \E kind \in {"run", "one", "two"} : SendFeedback(kind)
    \/ \E message \in messages : OnRtcpPacketReceived(message)

Spec == Init /\ [][Next]_vars

-----------------------------------------------------------------------------

\* Whatever chunks a message is made of, parsing it gives back which packets
\* it is about, which of them arrived, and when.
FeedbackDecoded ==
    \A message \in messages :
        LET statuses == Parse(Last(message.blocks).words[1])
            Sum(k) == FoldLeft(LAMBDA sum, status : sum + status.delta, 0, SubSeq(statuses, 1, k))
            first == Min(message.got)
        IN  /\ Len(statuses) = message.hi - message.lo + 1
            /\ \A k \in DOMAIN statuses :
                  LET n == message.lo + k - 1 IN
                  /\ statuses[k].seq = WireSeq(n)
                  /\ statuses[k].received <=> n \in message.got
                  /\ statuses[k].received =>
                        Sum(k) = arrival[n] - (arrival[first] \div BaseScale) * BaseScale

\* How much longer packet n was under way than its send time says, on the
\* clocks of the results.
DelayOf(seq) ==
    LET n == seq - FirstSeq + 1 IN arrival[n] + epoch - sentAt[n]

\* The delay the detector has summed up, sample by sample, is the change of
\* the delay between packets that were really sent and really arrived then,
\* across groups, lost and late packets, messages that overtake each other,
\* wraps, pauses and resets.
AccumulatedDelayTrue ==
    bwe.detector.accumulated =
        FoldLeft(LAMBDA sum, span : sum + DelayOf(span.to) - DelayOf(span.from),
                 0, bwe.detector.spans)

\* The round-trip time is the true one, without the time the receiver kept
\* the report, and does not depend on where the clock of the reports wraps.
RttTrue ==
    trueRtt # Never =>
        \/ rtt = 1 /\ trueRtt * MsSecond <= NtpSecond
        \/ 2 * Abs(rtt * NtpSecond - trueRtt * MsSecond) <= NtpSecond
=============================================================================
