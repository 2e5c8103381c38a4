--------------------------- MODULE DelayBasedBwe ---------------------------
(***************************************************************************)
(* DelayBasedBwe, InterArrivalDelta and TrendlineEstimator (goog_cc/): the *)
(* packets that arrived, in order of arrival, become groups, the changes   *)
(* between groups samples of delay, and the samples a verdict on the use   *)
(* of the network.  The slope of the regression is a real number: where it *)
(* lies is a choice, made when the window of samples is full.  Sizes are   *)
(* left out: what is computed from them is never read.                     *)
(* The estimate of the bit rate (aimd_rate_control.cpp) does not change:   *)
(* the throughput is never given and SetStartBitrate never called, so that *)
(* MaybeUpdateEstimate finds no case to act in.                            *)
(***************************************************************************)
EXTENDS Integers, Sequences, SequencesExt

CONSTANTS GroupLength,      \* kSendTimeGroupLength, 5 ms
          BurstDelta,       \* kBurstDeltaThreshold, 5 ms
          MaxBurst,         \* kMaxBurstDuration, 100 ms
          OffsetThreshold,  \* kArrivalTimeOffsetThreshold, 3 s
          StreamTimeout,    \* kStreamTimeout, 2 s
          WindowSize,       \* kDefaultTrendlineWindowSize, 20
          OveruseTime       \* kOverUsingTimeThreshold, 10 ms

ASSUME DelayBasedBweAssumption ==
    /\ {GroupLength, BurstDelta, MaxBurst, OffsetThreshold, StreamTimeout, OveruseTime}
          \subseteq Nat
    /\ WindowSize \in Nat \ {0}

Unset == -1   \* an infinite Timestamp

\* The fields last and spans are not in the code: the packet that completed
\* the group, and below the packets that completed the first and the last
\* group since each time the groups started anew.
NoGroup == [firstSend |-> Unset, send |-> Unset, firstArrival |-> Unset,
            complete |-> Unset, system |-> Unset, last |-> Unset]

InterArrivalDelta == [current |-> NoGroup, prev |-> NoGroup]

TrendlineEstimator ==
    [samples |-> 0, accumulated |-> 0, overTime |-> Unset, overCount |-> 0,
     state |-> "normal", spans |-> <<>>]

InitialBwe ==
    [lastSeen |-> Unset, inter |-> InterArrivalDelta, detector |-> TrendlineEstimator]

-----------------------------------------------------------------------------
(* InterArrivalDelta.                                                      *)

\* Packets sent together, and packets that catch up, arrive as one.
BelongsToBurst(group, packet) ==
    LET arrivalDelta == packet.receive - group.complete
        sendDelta == packet.send - group.send
    IN  \/ sendDelta = 0
        \/ /\ arrivalDelta < sendDelta
           /\ arrivalDelta < BurstDelta
           /\ packet.receive - group.firstArrival < MaxBurst

NewTimestampGroup(group, packet) ==
    ~BelongsToBurst(group, packet) /\ packet.send - group.firstSend > GroupLength

StartGroup(packet) ==
    [NoGroup EXCEPT !.firstSend = packet.send, !.send = packet.send,
                    !.firstArrival = packet.receive]

AddToGroup(group, packet, at) ==
    [group EXCEPT !.complete = packet.receive, !.system = at, !.last = packet.seq,
                  !.send = IF packet.send > @ THEN packet.send ELSE @]

\* The arrival times have moved against the clock of this host.
OffsetChanged(inter) ==
    /\ inter.prev.complete # Unset
    /\ (inter.current.complete - inter.prev.complete) - (inter.current.system - inter.prev.system)
          >= OffsetThreshold

\* The sample of a closed group; the first closed group gives one of zeroes.
SampleOf(inter) ==
    IF inter.prev.complete = Unset
    THEN [recv |-> 0, send |-> 0, first |-> TRUE, last |-> inter.current.last]
    ELSE [recv |-> inter.current.complete - inter.prev.complete,
          send |-> inter.current.send - inter.prev.send,
          first |-> FALSE, last |-> inter.current.last]

\* [mutant: ComputeDeltas] The previous group is kept after the new one starts.
ComputeDeltasSwapped(inter, packet, at) ==
    LET current == inter.current
        started == AddToGroup(StartGroup(packet), packet, at)
    IN  CASE current.complete = Unset ->
               [inter |-> [inter EXCEPT !.current = started], samples |-> <<>>]
          [] current.complete # Unset /\ packet.send < current.send ->
               [inter |-> inter, samples |-> <<>>]
          [] current.complete # Unset /\ packet.send >= current.send
             /\ NewTimestampGroup(current, packet) ->
               [inter |-> [prev |-> started, current |-> started],
                samples |-> <<SampleOf(inter)>>]
          [] OTHER -> [inter |-> [inter EXCEPT !.current = AddToGroup(@, packet, at)],
                       samples |-> <<>>]

\* ComputeDeltas: the groups after a packet, and the sample it gives, if any.
ComputeDeltas(inter, packet, at) ==
    LET current == inter.current
        started == AddToGroup(StartGroup(packet), packet, at)
    IN  CASE current.complete = Unset ->
               [inter |-> [inter EXCEPT !.current = started], samples |-> <<>>]
          [] current.complete # Unset /\ packet.send < current.send ->
               [inter |-> inter, samples |-> <<>>]
          [] current.complete # Unset /\ packet.send >= current.send
             /\ NewTimestampGroup(current, packet) ->
               IF OffsetChanged(inter)
               THEN [inter |-> InterArrivalDelta, samples |-> <<>>]
               ELSE [inter |-> [prev |-> current, current |-> started],
                     samples |-> <<SampleOf(inter)>>]
          [] OTHER -> [inter |-> [inter EXCEPT !.current = AddToGroup(@, packet, at)],
                       samples |-> <<>>]

-----------------------------------------------------------------------------
(* TrendlineEstimator.                                                     *)

\* Where the slope lies: over the threshold, and if so whether it rises.
Trends == {"rising", "high", "normal", "low"}

\* Detect: overuse is declared when it has lasted, in two samples or more, and
\* still rises.  overTime is twice time_over_using_, which counts half of the
\* first sample.
Detect(detector, send, trend) ==
    LET time == IF detector.overTime = Unset THEN send ELSE detector.overTime + 2 * send
        count == detector.overCount + 1
        declared == trend = "rising" /\ time > 2 * OveruseTime /\ count > 1
    IN  CASE declared -> [detector EXCEPT !.overTime = 0, !.overCount = 0, !.state = "overusing"]
          [] trend \in {"rising", "high"} /\ ~declared ->
               [detector EXCEPT !.overTime = time, !.overCount = count]
          [] OTHER -> [detector EXCEPT !.overTime = Unset, !.overCount = 0,
                                       !.state = IF trend = "low" THEN "underusing" ELSE "normal"]

Spanned(spans, sample) ==
    IF sample.first THEN Append(spans, [from |-> sample.last, to |-> sample.last])
    ELSE [spans EXCEPT ![Len(spans)].to = sample.last]

\* UpdateTrendline: until the window is full the slope is taken to be 0.
UpdateTrendline(detector, sample, trend) ==
    LET samples == IF detector.samples < WindowSize THEN detector.samples + 1 ELSE WindowSize
        counted == [detector EXCEPT !.samples = samples,
                                    !.accumulated = @ + sample.recv - sample.send,
                                    !.spans = Spanned(@, sample)]
    IN  IF samples = 1 THEN [counted EXCEPT !.state = "normal"]
        ELSE Detect(counted, sample.send, IF samples < WindowSize THEN "normal" ELSE trend)

-----------------------------------------------------------------------------

\* IncomingPacketFeedback starts anew for a stream that has paused.
Refreshed(bwe, at) ==
    IF bwe.lastSeen = Unset \/ at - bwe.lastSeen > StreamTimeout
    THEN [InitialBwe EXCEPT !.lastSeen = at]
    ELSE [bwe EXCEPT !.lastSeen = at]

IncomingPacketFeedback(bwe, packet, at, trend) ==
    LET fresh == Refreshed(bwe, at)
        deltas == ComputeDeltas(fresh.inter, packet, at)
    IN  [fresh EXCEPT !.inter = deltas.inter,
                      !.detector = FoldLeft(LAMBDA d, sample : UpdateTrendline(d, sample, trend),
                                            @, deltas.samples)]

\* SortedByReceiveTime: the results of packets that arrived.
SortedByReceiveTime(results) ==
    SortSeq(SelectSeq(results, LAMBDA r : r.receive # Unset),
            LAMBDA r, s : \/ r.receive < s.receive
                          \/ r.receive = s.receive /\ r.send < s.send
                          \/ r.receive = s.receive /\ r.send = s.send /\ r.seq < s.seq)

\* IncomingPacketFeedbackVector; a slope that is at its place for all packets
\* of a message.
IncomingPacketFeedbackVector(bwe, packets, at, trend) ==
    FoldLeft(LAMBDA b, packet : IncomingPacketFeedback(b, packet, at, trend), bwe, packets)

\* GoogCcNetworkController::OnTransportPacketsFeedback.
OnTransportPacketsFeedback(bwe, results, at, trend) ==
    IF results = <<>> THEN bwe
    ELSE IncomingPacketFeedbackVector(bwe, SortedByReceiveTime(results), at, trend)
=============================================================================
