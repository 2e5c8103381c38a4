# A verification project for WebrtcSdk

TLA+ models of the push SDK under `src/xrtc`: it captures a camera and a
microphone, encodes, and pushes the media to a server over ICE, RTP and RTCP.
The models are checked by TLC on small instances, and the results that matter
most are proved by TLAPS for every value of the constants.

File names below are relative to `src/xrtc/`.

## 1. The system

### Threads

| thread | created in | what runs on it |
|---|---|---|
| UI | the application | calls of the API; most are posted to the api thread |
| `api_thread` | `base/xrtc_global.cpp` | devices, preview, pusher, chains, delivery of camera frames |
| `worker_thread` | same | HTTP callbacks: signalling, creation of the peer connection's streams |
| `network_thread` | same | ICE, packetising, RTCP in and out, timers of the RTCP sender |
| `http_thread` | `base/xrtc_http.cpp` | the curl loop |
| two encoder threads | `media/filter/*_encoder_filter.cpp` | one per encoder filter, from Start to Stop |
| pacer task queue | `rtc/modules/pacing/task_queue_paced_sender.cpp` | the packet queue, the budget, sending |
| rtp_send task queue | `rtc/pc/rtp_transport_controller_send.cpp` | send history, feedback, congestion controller |
| capture threads | libraries | `CamImpl::OnFrame`, `MicImpl::RecordedDataIsAvailable` |

### Components

*Path of the media, in order.*

**Application** (`src/examples/windows/src/basic_form.cpp`).  State: handles of
the devices, the preview and the pusher, two flags that callbacks set.  Three
buttons; each either creates and starts or stops and destroys, without waiting
for what it posted.

**Devices** (`device/cam_impl.cpp`, `device/mic_impl.cpp`).  State: `has_start_`,
the consumer list, the capture object.  Start, Stop, Destroy and (for the
camera) the consumer changes and every frame are tasks of the api thread; the
microphone walks its list under a mutex on the capture thread.  Hard: frames
already posted when a consumer leaves, destruction behind queued tasks.
Correct if no list keeps a consumer that is gone.

**Chains and pins** (`media/base`), **push pipeline** (`xrtc_pusher.cpp`,
`xrtc_push_stream.cpp`), **preview** (`xrtc_preview.cpp`) and its **render sink**
(`d3d9_render_sink.cpp`).  State: the list of media objects, the connections,
whether the chain runs.  Objects call each other directly.  Hard: a start that
fails half way, the removal of what other threads still use, StopPush that stops
nothing but the flow of frames.  Correct if a chain that is gone is in no list,
and the application is told of a failure once and of no success after it.

**Encoder filters** (`opus_encoder_filter.cpp`, `x264_encoder_filter.cpp`).
State: `running_`, the frame queue with a mutex and a condition variable, the
thread.  The capture side queues and notifies, the encoder thread takes, encodes
and pushes on, Stop clears the flag, notifies and joins.  Hard: lost wake-ups,
failures inside the thread, Start after a failure (an Opus thread that failed has
cleared `running_` and still lives when Start makes the next one).  Correct if one
thread consumes the queue, frames come out in order and once, nothing after Stop,
and Stop returns.

**Media sink and signalling** (`xrtc_media_sink.cpp`, `base/xrtc_http.cpp`).
State: the peer connection, the requests in flight, the set of live objects.
The offer is fetched and the answer sent with HTTP requests whose replies are
posted to the worker thread, which waits for the network thread to make the
streams.  Hard: replies for objects that are gone, transfers that end at once or
together, failures nobody is told of.  Correct if every request of a living sink
is answered, none twice, and the set holds the living.

**SDP** (`session_description.cpp`, `transport_controller.cpp`).  The offer is
read line by line, the answer declares what the streams are then made with.
Hard: bundling decides which ICE transports there are, and everything is sent to
the one called `audio`.

**PeerConnection** (`rtc/pc/peer_connection.cpp`).  State: `pc_state_`, sequence
numbers, the video cache, the two send streams.  ICE state, frames and RTCP
reach it on the network thread, `SendPacket` on the pacer's.  Correct if what
it sends, counts, records for feedback and caches stays one story.

**Paced sender** (`rtc/modules/pacing`).  State: a queue of packets per stream
with an index by priority, a byte budget, and the times that decide when the
next pass is due.  Any thread posts; one task queue runs.  Hard: the chain of
delayed tasks, the incremental totals, the budget's debt and widths.  Correct
if packets go out by urgency and fairly, within the budget, and all of them.

**RtpTransportControllerSend** and **TransportFeedbackAdapter**.  State: the
history of packets by unwrapped number, the clock offset, the controller.  Hard:
three threads post to it, feedback is lost, repeated, reordered and wraps.
Correct if the controller is told the truth, once.

**Congestion controller** (`congestion_controller/goog_cc`).  State: packet
groups, the regression window, the rate state.  Its result is not fed back to
the pacer, whose rate is fixed at 1000 kbps.

**RTCP sender and module** (`rtcp_sender.cpp`, `rtp_rtcp_impl.cpp`).  State: the
time of the next report, the last frame's time, the counters.  Timers cannot be
cancelled and frames send reports too.  Correct if reports never stop once
begun, and never crowd.

**H264 packetizer and RTP packets** (`rtp_format_h264.cpp`, `rtp_packet.cpp`).
Frames are searched for NALUs, which are split, aggregated or sent as they are;
a packet keeps its header, extensions and payload in one buffer, in that order.
Hard: sizes at their limits, room for an extension reserved too late.  Correct if
a receiver gets back the NALUs of the encoder.

**RTCP receiver and parsers** (`rtcp_receiver.cpp`, `rtcp_packet/`).  Compound
packets are parsed block by block and their facts handed on: NACKs,
transport-wide feedback in chunks of three kinds, the round-trip time.

**Video cache and NACK** (`peer_connection.cpp`).  The last packets, by sequence
number modulo the size of the cache.  Correct if a retransmission repeats what
the receiver asked for.

`PROJECT.json` lists every component with what is modelled of it, and every
hazard at its line, with the properties that watch it.

## 2. The modules

| module | models | EXTENDS |
|---|---|---|
| `IntervalBudget` | `interval_budget.cpp`: the budget as a record, one operator per method, ints at their width | |
| `RoundRobinPacketQueue` | `round_robin_packet_queue.cpp`: the queue as a record, Push, Pop, UpdateQueueTime | |
| `PacedSender` | `task_queue_paced_sender.cpp`, `pacing_controller.cpp` | the two above |
| `EncoderFilter` | both encoder filters | |
| `TransportFeedbackAdapter` | `transport_feedback_adapter.cpp`, the base time of `transport_feedback.cpp` | |
| `TransportSend` | `peer_connection.cpp` (video out), `rtp_transport_controller_send.cpp`, the network and the receiver | `TransportFeedbackAdapter` |
| `RtcpSender` | `rtcp_sender.cpp`, the timer of `rtp_rtcp_impl.cpp` | |
| `HttpManager` | `xrtc_http.cpp`: requests, the loop around curl, replies, live objects | |
| `Devices` | `cam_impl.cpp`, `mic_impl.cpp`, the flags of the application | |
| `PushSession` | application, pusher, push stream, preview, renderer, media sink, the life of the peer connection | `Devices`, `HttpManager` |
| `Negotiation` | `session_description.cpp`, `transport_controller.cpp`, the description methods of `peer_connection.cpp` | |
| `RtpPacket` | `rtp_packet.cpp`, `rtp_header_extension_map.cpp`: layout and extensions | |
| `H264Packetizer` | `rtp_format_h264.cpp`, `rtp_format.cpp` | |
| `TransportFeedback` | `rtcp_packet/transport_feedback.cpp`: chunks and deltas | |
| `RtcpReceiver` | `rtcp_receiver.cpp`, `common_header.cpp`, `nack.cpp`, receiver reports, `rtp_utils.cpp` | `TransportFeedback` |
| `FrameDelivery` | the abstract specification of sending video | |
| `VideoPath` | `peer_connection.cpp` from the offer to retransmissions, the network, a receiver | `Negotiation`, `RtpPacket`, `H264Packetizer`, `RtcpReceiver` |
| `DelayBasedBwe` | `delay_based_bwe.cpp`, `inter_arrival_delta.cpp`, `trendline_estimator.cpp` | |
| `CongestionControl` | from sent packets over feedback messages to the detector and `SetRtt` | `TransportFeedbackAdapter`, `RtcpReceiver`, `DelayBasedBwe` |
| `MC...` | instances for TLC; `MCPacketQueue` also drives the queue on its own | |
| `QueueLemmas` | lemmas the proofs share: queues of tasks and their order, how many of a kind they hold, lists without repetition, lists put together of others, `%`, largest elements, sums over finite sets | |
| `PacketQueueProofs` | theorems and lemmas about the packet queue | `MCPacketQueue`, `QueueLemmas` |
| `PacedSenderProofs` | theorems; takes the queue's lemmas from `PacketQueueProofs` by INSTANCE | `PacedSender`, `QueueLemmas` |
| `VideoPathProofs` | theorems about the video path, and about the packetizer, the layout of packets and the parsers it is made of | `VideoPath`, `QueueLemmas` |
| other `...Proofs` | theorems | its component |

An operator whose comment starts with `[mutant: ...]` is a plausible mistake in
the definition it stands before.  It is used by nothing; putting it in the place
of that definition makes the property that watches it fail.

### How state and actions correspond to the code

*PacedSender.*  `taskQueue` is the FIFO of posted tasks, `delayed` the delayed
ones with the time that was captured in their lambda.  One call of
`MaybeProcessPackets` is one action up to the send loop, one `SendPacket` per
packet, and `EndProcessPackets` for its tail, so that posting threads and the
clock step in between; `processing` says that the thread is inside.
`granted` and `bytesSent` are history.  A stream that does not exist yet and one
that is empty with count 0 behave alike, so `streams` is a total function.

*EncoderFilter.*  `pc[t]` is the place of each thread ever created.  A critical
section is one action; `waiting` means inside `cond_var_.wait`, and only a
thread already there hears a notify.  `stop` splits `Stop` at its three effects.
Start and Stop are called by one thread.  A thread is `ending` when it has left the
loop or given up, with its encoder still to destroy: the Opus thread has then
cleared `running_` already, so that Start may make the next thread before it is
`exited`.  Encoding is a choice between pushing
the frame, giving up, dropping it, and (x264 without output) pushing an empty
frame.

*TransportSend.*  `SendEncodedImage` is split where it posts, since the pacer's
thread and the rtp_send queue run meanwhile; the network thread does nothing
else until the frame is done.  `SendPacket` on the pacer's thread is split
between the send and the task that records it.  The pacer is a FIFO here, which
it is for one stream of one type.  Packets and messages that stay in `onWire`
and `messages` for ever are lost ones.  `epoch`, `exact`, `sentAt`, `madeAt` (when
a packet was created) and `lastAdd` (when the one that was added last was) are
history.

*RtcpSender.*  Everything runs on the network thread, so each call is one
action.  `delayed` holds the times delayed tasks are to act at; a task that
wakes up early posts itself again, which changes nothing.

*PushSession.*  The api, worker and network threads are FIFOs of tasks; a task
that waits for another thread (`Invoke`, the mutex of the microphone) is cut
there (`apiAt`, `workerAt`).  A sink lives in its pusher, so that one `life` says
both; it is `dying` while its destructor waits.  A reply is a choice: no use, a
description that is refused, one that is taken.  When a thread would use an
object that is gone, `crash` says which kind and nothing else happens: what
undefined behaviour does after that is not modelled.  It is reachable for a
device (the comment at `xrtc_push_stream.cpp:126` says so), a consumer of the
camera, an encoder, a queued frame, a reply and a render task.

*Negotiation, VideoPath.*  A line of a description is the kind its prefix has in
the parser and its fields.  A packet is a record of its fields with its header
extensions in their layout; payloads are sequences of bytes.  The maximum sizes,
the cache and the range of sequence numbers are small constants.  The receiver is a reference, written
from the formats: it knows numbers without wrap, which the sender does not.
Only the extension TransportSequenceNumber is ever registered, with id 1 and two
bytes, so the two-byte form of headers does not occur in a run.  A picture is
one slice, as the encoder is set up (`i_slice_count = 1`).

*CongestionControl.*  `OnRtcpPacketReceived` parses and hands on in one action:
the task queue in between only delays, and `TransportSend` models it.  The slope
of the trend line and its adaptive threshold are real numbers: where one lies to
the other is one choice per message.  `spans` of the detector, `epoch`,
`trueRtt` are history.

## 3. What the runs check

| run | question | bounds | distinct states |
|---|---|---|---|
| `packet_queue` | does the queue's incremental state stay true, and is it urgent and fair? | 2 streams, 2 priorities, 7 packets of one size, 2 instants, symmetric streams | 527,586 |
| `paced_sender` | does the pacer live, spend what it has and send all? | 1 stream, 2 sizes, 3 packets, 1 extra EnsureStarted, 14 ms, 1 ms late at most | 95,105 |
| `encoder_filter` | is there one consumer, are frames in order, is Stop silent, does the queue drain? | both filters, 3 frames, 2 threads | 2,748 |
| `encoder_stop` | does Stop return? | same | violated |
| `encoder_running` | is there a thread when the filter counts as running? | same | violated |
| `transport_send` | is what the controller is told true, once, and is it there? | 2 packets, 2 ICE signals, 2 messages, 1 receiver report, 2 instants; modulus 8 and period 8 so that both wrap | 2,573,251 |
| `receive_times` | is every arrival time true? | same | violated |
| `rtcp_sender` | do reports go on, keep their distance, wait for a frame? | audio and video, interval 4, 3 packets, 3 connection changes, 10 instants, tasks 2 late | 594,484 |
| `push_session` | who may still call whom, is every request answered, once, what is the application told? | 1 camera, microphone, preview, 2 pushers; 4 clicks, 1 frame, 1 ICE signal; every failure | 216,866 |
| `video_path` | is the delivery of frames implemented, and what was negotiated sent? | 7 offers, 3 frames of 1 to 3 NALUs, 2 sent; 1 audio frame, 2 ICE changes, 1 NACK; payloads of 9 bytes, cache of 4, sequence numbers modulo 8 | 130,609 |
| `padded_nack` | is padding no part of a NACK? | same, NACKs padded | violated |
| `congestion_control` | is feedback decoded, is the delay the detector sums up the real one, is the RTT? | 4 packets, 1 lost, 2 delays, 2 messages in every encoding, 3 instants; sequence number, base time and NTP time wrap | 213,422 |

Why the bounds suffice.  *packet_queue*: seven packets let a stream fall idle,
come back behind and overtake by more than the lead the code allows; fewer do
not break `BoundedOvertaking` when the floor is dropped.  *paced_sender*:
a packet of 3 bytes against 8 bits per ms overdraws the budget; the window
shrinks again after the drain; the clock runs long enough after the last post
for the debt to be paid.  *transport_send*: two packets and two messages are
enough for a packet to be reported in both, for a message to overtake another,
and for an arrival between the two base times to cross a wrap; a window of 0
makes one tick stand for more than the 60 s of the code.  *rtcp_sender*: three
reports fit in the ten instants, with a stale timer between them.
*push_session*: four clicks open devices, start a preview and a push and release
one of them, or push and release with the devices before or after; one object of
each kind is enough for it to be destroyed under each task that knows it.
Or they open the devices, start a push, release it while its offer is still with
curl, and start the next one: two transfers then end in any order, or both before
the loop reads the first.  There the run leaves out the preview, the frame and the
ICE signal (`SecondAlone`, a bound on the user, the capture threads and ICE alone).
*video_path*: the first frame number is 6 of 8, so that the packets of a frame, a
NACK and its bit mask cross the wrap, and two frames overrun the cache; the frames hold a NALU of
exactly the largest payload, one that is split, parameter sets that just fit an
aggregate and some that just do not.  *congestion_control*: the packets start at
65535 and the clocks before their wraps; four packets in three instants close
two groups, with a burst, a late and a lost packet; a pause longer than the
timeout and an offset of the clocks reset the estimator.

`CHECK_DEADLOCK FALSE` is said in every run because the inputs are bounded:
when they are used up the model rests, as the program does without input.

### Properties

* `PriorityIndexFresh`: the multimap that Pop trusts has the current key of
  exactly the streams with packets, in order.
* `QueueTotalsExact`: packets, bytes and queueing time equal a walk over the
  queue.
* `BoundedOvertaking`: no stream sends past a waiting one of the same priority
  more than `kMaxLeadingSize` and two packets.  The bound is reached, with a lead
  of 2, when a more urgent packet moves the stream that waits behind one that
  ties with it.
* `PopsMostUrgent`: a pop passes over nothing more urgent, and nothing earlier
  of the same urgency in its stream.
* `OneWakeUp`: exactly one delayed task keeps the pacer alive, and it is the one
  `next_process_time_` names.
* `NeverOverspends`: bytes sent stay within bytes granted, but for the end of one
  packet.
* `EveryPacketSent` (liveness): whatever is posted is sent.
* `OneConsumer`: of all the encoder threads that live, at most one works with the
  queue and the members of the filter.
* `FramesInOrder`, `NoOutputAfterStop`, `QueueDrains` (liveness).
* `ReportedOnce`, `SendTimesTrue`, `ReceiveTimesTrue`: the results given to the
  controller are unique and true across wraps, losses, repeats and reordering.
  `ReceiveTimesTrue` speaks of results before which no status was passed over.
* `RttFindsController`: the task that dereferences `controller_` without a check
  never runs before the one that creates it.
* `HistoryInWindow`: each packet in the history is there under its own number and
  with the time at which it was created, at most the window before the packet that
  was added last; cleaning only the front is enough for that.  Between two
  additions nothing is cleaned, so that it says nothing of the age by the clock.
* `ReportPending`, `ReportsSpaced`, `NoReportBeforeFrame`.
* `MicConsumersAlive`, `UnlinkedAfterStop`: a chain that is destroyed is in no
  device's list, or its removal is queued behind its addition.
* `LiveRepliesFound`, `DeadObjectsLeave`: `async_objs_` holds the sinks that live,
  up to tasks that are queued in the right order.
* `StreamsBeforeMedia`: no connection is up before its streams exist.
* `FailureIsFinal`: what ends an attempt is told once, and nothing after it.
* `EveryRequestAnswered` (liveness, and the invariant `AnsweredOnce`): each request
  of a sink that stays is answered, and none a second time, though transfers of two
  pushes may be under way together.
* `DeliversFrames` (refinement): what the receiver puts together are frames that
  were sent.
* `RetransmissionsTrue`, `AnswerDeclaresPackets`, `FeedbackKnowsPackets`,
  `MediaTransportReady`: what is sent agrees with what was asked for, declared,
  recorded and negotiated.
* `FeedbackDecoded`, `AccumulatedDelayTrue`, `RttTrue`: every encoding of feedback
  is read back exactly, and the sums of the detector and the round-trip time are
  the real ones.

### Refinement

`FrameDelivery` says what sending video promises: frames are sent, and the
receiver has frames that were sent, each in its place.  `VideoPath` implements it
with `sent <- frames` and `delivered <-` the frames the reference receiver
assembles from the packets it has: loss, repetition, reordering, aggregation,
fragmentation, the cache and retransmission are invisible there.  The
abstract specification does not promise delivery, and neither does the code.

### Fairness

`PacedSender`: weak fairness of every step of the task-queue thread and of the
clock, which is what a task queue and time give; nothing is assumed of callers.
`EncoderFilter`: weak fairness of the steps of the encoder threads and of a Stop
in progress; no capture, call or spurious wake-up is promised.
`PushSession`: weak fairness of the api, worker, network and http threads, which
run what is posted to them; the http thread includes the end of each transfer,
which curl brings about by its timeouts.  Nothing is assumed of the user, of
capture, of ICE or of the encoder threads.  The other modules state safety only.

### Disagreements found

`PROJECT.json` quotes the lines.  In short: Stop of an encoder filter can lose
its wake-up and hang (`encoder_stop`); a failed x264 filter counts as running
(`encoder_running`); a status passed over makes later arrival times early
(`receive_times`); the padding of an RTCP block is never taken off and is read
as items of a NACK (`padded_nack`).

Observations that no run states:

* the window product of the budget (`interval_budget.cpp:30`) overflows for a large
  enough backlog (536 kB with int of 32 bits), and the interval of the budget
  inverts; nothing bounds the backlog;
* the first sender report is made before the first packet is counted
  (`rtp_rtcp_impl.cpp:56`), against the comment in `ComputeCompoundRTCPPacket`;
* the throughput given to the rate control is always absent and no start bitrate is
  set: of `AimdRateControl` only `SetRtt` has an effect;
* the first group of packets to close counts as a sample of zeros
  (`inter_arrival_delta.cpp:64`), which leaves the sums true;
* no code calls the Stop of the media sink, so the server is not told of the end of
  a push; a refused remote description is reported to nobody;
* the audio stream is configured with the payload type of video
  (`peer_connection.cpp:527`), which nothing reads afterwards;
* everything goes to the transport called `audio`: an offer that bundles with video
  first, or has no audio, leaves media without a transport.

Two details are in the models and no property reads them: the verdict of the
overuse detector (`state`), and which previews hold their Direct3D objects
(`device_up`).

## 4. What is proved

| theorem | says, for every value of the constants |
|---|---|
| `AlwaysOneWakeUp` | `Spec => []OneWakeUp` of `PacedSender` |
| `NeverOverspending` | `Spec /\ []BacklogFits => []NeverOverspends` of `PacedSender`: as long as the bytes that wait keep the window an int |
| `IndexStaysFresh` | `Spec => []PriorityIndexFresh` of `MCPacketQueue` |
| `TotalsStayExact` | `Spec => []QueueTotalsExact` of `MCPacketQueue` |
| `PopsInOrder` | `Spec => PopsMostUrgent` of `MCPacketQueue` |
| `OvertakingStaysBounded` | `Spec => []BoundedOvertaking` of `MCPacketQueue` |
| `AlwaysOneConsumer` | `Spec => []OneConsumer` of `EncoderFilter` |
| `SilentAfterStop` | `Spec => NoOutputAfterStop` of `EncoderFilter` |
| `FramesStayInOrder` | `Spec => []FramesInOrder` of `EncoderFilter` |
| `ReportsNeverStop` | `Spec => []ReportPending` of `RtcpSender` |
| `ReportsAlwaysSpaced` | `Spec => []ReportsSpaced` of `RtcpSender` |
| `FrameBeforeReports` | `Spec => []NoReportBeforeFrame` of `RtcpSender` |
| `RttAlwaysFindsController` | `Spec => []RttFindsController` of `TransportSend` |
| `HistoryStaysInWindow` | `Spec => []HistoryInWindow` of `TransportSend` |
| `SendTimesStayTrue` | `Spec => []SendTimesTrue` of `TransportSend` |
| `ArrivalsReportedOnce` | `Spec => []ReportedOnce` of `TransportSend` |
| `ReceiveTimesStayTrue` | `Spec => []ReceiveTimesTrue` of `TransportSend` |
| `StreamsAlwaysBeforeMedia` | `Spec => []StreamsBeforeMedia` of `PushSession` |
| `LiveRepliesAlwaysFound` | `Spec => []LiveRepliesFound` of `PushSession` |
| `DeadObjectsAlwaysLeave` | `Spec => []DeadObjectsLeave` of `PushSession` |
| `MicConsumersStayAlive` | `Spec => []MicConsumersAlive` of `PushSession` |
| `GoneAreUnlinked` | `Spec => []UnlinkedAfterStop` of `PushSession` |
| `FailureStaysFinal` | `Spec => []FailureIsFinal` of `PushSession` |
| `VideoPathInvariant` | `Spec => []IndInv` of `VideoPath`: every packet, wherever it is, is the k-th of the f-th frame that was sent |
| `VideoPathDelivers` | `Spec => DeliversFrames`: `VideoPath` implements `FrameDelivery` |
| `VideoPathRetransmits` | `Spec => []RetransmissionsTrue`, for receivers that add no padding |
| `VideoPathDeclared` | `Spec => []AnswerDeclaresPackets` of `VideoPath` |
| `VideoPathKnown` | `Spec => []FeedbackKnowsPackets` of `VideoPath` |
| `VideoPathTransport` | `Spec => []MediaTransportReady` of `VideoPath` |
| `RoundTrip` | for any legal frame, depacketizing what `Packetize` makes of its bytes gives the frame |
| `RttIsRounded` | `RttOf` is the true round-trip time to the nearest millisecond, and at least 1, through the wrap of the compact clock |
| `SenderTypes`, `FilterTypes`, `SendPathTypes`, `SessionTypes`, `VideoPathTyped` | `Spec => []TypeOK` of `PacedSender` and of `RtcpSender`, of `EncoderFilter`, of `TransportSend`, of `PushSession`, of `VideoPath` |

So every safety property that a passing run checks of these seven modules is
proved (`NeverOverspends` while `BacklogFits`), and the refinement with them.  `CongestionControl` is checked only.

*Queues.*  `QueueLemmas` says what a task queue holds after a post, after its
first task is taken, and after several posts, whatever the tasks are; when two
tasks keep their order (`Ahead`) or stay single (`Once`); and how many of a kind
there are (`HowMany`).  The invariants about positions in queues rest on it.

*The packet queue.*  `QueueInv` is about one value, the record of the queue, so
that each method is one lemma about it.  `QueueOK` has the shape of the record,
packets of a stream that differ in their order, and the priority index as exactly
the keys of the streams that wait, sorted and one per stream (`Indexes`).
`TotalsOK` says that the three totals are sums over the packets: `Total` is a sum
over a finite set, and the lemmas about it say how it changes when an element is
added, removed or shifted.  For the overtaking, `OvertakenOK` bounds what s sent
past t by the difference of what the two have sent, plus the lead and one packet:
while t waits this difference only shrinks by what t itself sends, and the index
gives s a turn only while it is not behind by more than that.

*PacedSender.*  `OneWakeUp` needs that a scheduled time is never
`MinusInfinity`, that no delayed task exists without being the scheduled one,
and the types of the times; the queue and the budget do not matter to it.
`NeverOverspends` does need them.  `SenderInv` has the types of the queue and the
budget, with the queue's own invariant (`Consistent`, from the lemmas of
`PacketQueueProofs`).  `BudgetInv` is the argument: the debt is less than a packet
because the window is at least a packet, which it is because the target is never
below the pacing rate; and the product that makes the window is an int because
`BacklogFits`, an assumption about the states of the run, says so of the bytes
that wait.  In the code it holds up to 536 kB.  Nothing there ensures it, and a
run in which more waits is outside the theorem: that is the hazard listed at
`interval_budget.cpp:30`.

*EncoderFilter.*  `FilterInv` says that a thread that uses the filter is
`encoderThread`, that threads not yet started have no place, and that while
`running_` is clear and no Stop is in progress no thread uses it.  An Opus thread
that gave up may be alive then and later, beside the next one: it has only its own
encoder to destroy.  An x264 thread releases a member of the filter at its end, and
uses it until then; it leaves `running_` set.  `OneConsumer` and the silence
after Stop follow: `quiet` implies that nobody can push.  For the order of the
frames, `OrderInv` splits the captured ones in three: the queue is the last of
them without a gap, the frame in the thread's hand was taken, and what was pushed
lies before it.

*RtcpSender.*  `ReportsSpaced` compares the last two reports, so the invariant
`ReportInv` relates the last report to `nextTime`: the next report is scheduled at
least half an interval after the last one.  It also keeps that a report implies
a frame and that a frame implies a pending task.

*TransportSend.*  `RttInv` says that once the path was opened (a packet was made,
or the connection is up) the controller exists or a task that makes it is in the
queue, and that in front of every task with a round-trip time the controller
exists or is made.  A report needs a packet, so its task is posted behind.
The truth of the results is `SendPathInv`, five parts.  `OrderInv`: a packet is in
one place at a time, between the frame it belongs to and the receiver.
`TasksInv`: the tasks on the rtp_send queue add packets in the order of their
numbers and of time, say the times at which packets really left, and none reads a
number before one was unwrapped.  `AdapterInv`: the history is in the order of
creation, with true send times, and a packet that was reported as received has left
it.  `AddsLater`: packets yet to be added come after all
that the history and the results know; this is why the number unwrapped last is
near enough for the next one to be unwrapped rightly, and why cleaning the front
is enough.  `ClockInv`: the offset and the base time are those of one
message, so the smallest difference of two base times modulo the wrap is the real
one.  `HistoryInWindow` needs a sixth, `AgeInv`: a task that adds a packet, and the
packet in the history, have the time at which that packet was created.  As the
history is in order, what AddPacket leaves behind the first recent packet is recent.

*PushSession.*  The properties speak of one queue each, but depend on
the whole life of a push.  A crash ends what the model says, and keeps all of
the following.

`SessionInv` has five parts.  `StartInv`: the
start of a push is the first task of the api thread when it is there, because a
Create waits for an idle thread; so it is of a pusher that lives, and is over
before a Destroy is queued.  `ObjectInv`: every task on the worker thread is of a
sink that was made; for one that lives, the announcement is in front of each
reply or has run; for one that is gone, the withdrawal is behind the
announcement.  `NetworkOK`, `ApiOK`, `WorkerOK` and `RequestsOK`: whatever waits,
runs on the network thread or is asked of the server belongs to a sink that was
made, and streams are deleted only for one that is gone.  `StreamInv`: ICE
gathers only with the streams there, and is connected only if it gathered.

`UserInv` follows what the user did into the lists of consumers.  `FormInv`: the
tasks of the api thread have one of six shapes, and a device that is to start is
the one the form holds.  `OrderOK`: Start, Stop and Destroy of a push or preview
are posted once and in this order, the last two only when the form lets go of it;
so whoever waits for its Stop lives.  `LinkOK`: a consumer that a camera lists, or
is about to, waits for its Stop or has its removal queued, behind the addition.
`MicOK`: one that a microphone lists waits for its Stop, because the microphone's list
changes in the Stop itself.  `ListsOK`: nobody is listed twice, so that one
removal is enough.

`OfferInv` is why a failure is final.  The offer of a push is, at most once
altogether, among the transfers of curl, in its message queue, in the hands of the
http thread or in a reply on the worker thread's queue; the four are counted and
the sum is 0 or 1.  As long as it is 1 nothing was told and ICE has not begun;
once it was accepted (`Active`) no failure is told any more.  That the answer's
reply tells nobody anything is `OutcomesAssumption`: the code does not parse it.

`EndInv`: the deletion of the streams is the last task the network thread is
given for a push, and the api thread waits for it; so a push that is dead has no
streams.  `FrameInv`: the pictures in an encoder's queue and those in tasks
together are no more than were captured.

*VideoPath, the operators.*  Three parts carry the refinement.  `RoundTrip` is about
bytes.  `FindNaluIndices` finds exactly the start codes `AnnexB` wrote
(`CodeAt`, `CodesFrom`), because a legal NALU has none inside, ends in no 0 and
the search never steps over one; the zero in front of a start code of four bytes
belongs to it.  A fragmented NALU is split at places that add up to its length
(`Ends`), each part not empty and none over the maximum, so that its fragments join to it again;
an aggregate is read back by the sizes in it, which fit two bytes.  The
statement that is carried through the packetizer is `Assembles(p, frame)`: the
payloads p, fed to the depacketizer after any NALUs, append those of the frame.
Second, a packet: reserving the extension before the payload is what lets
`SetExtension` overwrite it, so that the header says the number and the payload
is untouched (`PacketAtFacts`), and everything fits the buffer.  Third, a NACK:
what `ParseCompoundPacket` hears of a message is the list its item stands for,
whether a report stands in front or a block is cut off behind.

*VideoPath, the protocol.*  None of the properties is inductive: each speaks of
the wire, and says nothing of the packets that are still in the pacer, in the
cache, or asked for.  `IndInv` gives every packet a place.  `Place(frames, f, k)`
is the k-th packet of frame f; `NumberAt` its number, counted through from the
first frame; `PacketAt` the packet, a function of the frames alone.  `FramesInv`:
the counter is the number of places, so that no two places share a number as long
as there are fewer packets than sequence numbers.  `PacerInv`, `CacheInv`: what is paced
or cached is a `PacketAt`, in the slot of its number.  `AddedInv`: the feedback
adapter was told of each place, and what left was told to it.  `WireInv`: a packet on
the wire is audio, a `PacketAt` that was announced, or repeats one that was
requested.  `ReceiverInv`: what the receiver has as number n is the payload, time
and marker of the place with that number.  `NackInv`: messages ask for what was
missed.  `SessionInv`: nothing is sent before the answer, and what the transports
know.  A frame that the receiver thinks whole runs from one marker to the next;
by `ReceiverInv` these are the places 1 to the last of one frame, in order, and by
`RoundTrip` they assemble to it.

A run of the theorems is one of fewer packets than there are sequence numbers
(the guard `created + Len(payloads) < SeqSpace` of `SendEncodedImage`): beyond
that, number and packet are not one to one for any receiver, and what is promised
depends on how late packets arrive.  `RetransmissionsTrue` is proved for receivers
that pad no NACK; for the others it is false, which `padded_nack` shows through
`PaddingRemoved`, and without padding `PaddingRemoved` is a conjunct of `NackInv`.

*The round-trip time.*  `RttIsRounded` is the arithmetic behind `RttTrue` of
`CongestionControl`: with the wrap of the compact clock between report and answer,
and the rounding of `CompactNtpRttToMs`, for any units.

The proofs rest on the named assumptions on the constants, which TLC evaluates in
the passing runs.

| assumption | says | because |
|---|---|---|
| `BudgetAssumption`, `QueueAssumption`, `PacketQueueAssumption`, `PacedSenderAssumption`, `EncoderAssumption`, `RtcpAssumption`, `AdapterAssumption`, `TransportSendAssumption` | types of the bounds and parameters; numbers in flight are fewer than half of the modulus | a run shorter than 32768 packets in flight |
| `WindowAssumption` | a window at the pacing rate holds a packet, and is an int | 62,500 bytes in the code |
| `ClockAssumption` | a run is shorter than half the wrap of the base time, and starts later than it lasts | 12 days; the clock counts from an epoch |
| `SessionAssumption` | objects of different classes differ, none is the null pointer, previews are finite | addresses of C++ objects |
| `RtpPacketAssumption`, `RtcpReceiverAssumption` | a buffer holds a header; moduli and units are positive, the compact clock's modulus even | 1500 bytes; 2^16, 2^32 |
| `H264PacketizerAssumption` | a payload is at least 4 bytes and its length fits two bytes | 1200 in the code |
| `VideoPathAssumption` | the size of the cache divides the range of sequence numbers; the largest payload and 20 bytes of headers fit a buffer | cache and sequence numbers in `peer_connection.cpp`; 12 bytes of header, 8 of extension, or 2 of an rtx payload |
| `FramesAssumption` | a frame has NALUs, each a sequence of bytes with no start code inside, no 0 at its end and a type the packetizer does not use itself | the format of H.264, which x264 writes |
| `OptionsAssumption`, `SsrcAssumption`, `PaddingAssumption` | audio and video are both sent; the three ssrcs differ; padding is words | defaults of `RTCOfferAnswerOptions`, which nothing changes; ssrcs are random 32-bit numbers |
| `OutcomesAssumption` | the reply to the answer is neither an outcome that fails the push nor one that accepts it | the callback of `XRTCMediaSink::SendAnswer` only logs what it reads |

What induction there is goes over sets of numbers or finite sets defined in the
proof itself (`SetInduction`), since the library's induction theorems take an
operator as a parameter.

Only model-checked:

* the liveness properties (`EveryPacketSent`, `QueueDrains`, `EveryRequestAnswered`),
  since neither fairness nor ENABLED is within the prover's reach;
* `AnsweredOnce`, a part of the last of these, which needs each request counted on its way as `OfferInv` counts
  the offer, for the answer too;
* `FeedbackDecoded`, `AccumulatedDelayTrue` and `RttTrue` of `CongestionControl`.
  The first is about a parser that walks over chunks whose number the message
  decides, with powers of two for the places of bits; the second rests on it and
  on `SortSeq` over the results; neither `^` nor `SortSeq` nor `SelectSeq` means
  anything to the provers, and what would be needed of them is induction over data.
  `RttTrue` selects the calls of a message with `SelectSeq`; its arithmetic is the
  theorem `RttIsRounded`.

## 5. What is not modelled, and why

* Audio processing: signal processing by a library, frame by frame, without state
  of its own that other parts read.
* JSON and utilities: conversions of text; whether a reply can be read is a choice.
* Drawing, in the render sink and in the windows of the application; only when the
  Direct3D objects exist is modelled.
* The rate control of the congestion controller beyond `SetRtt`, dead as said above.
* `HttpManager::Get`, `XRTCMediaSink::Stop` and `SendStop`: no code calls them.
  `HttpManager::Stop` runs when the process ends.  `HttpManager::UrlEncode` only
  rewrites the text of the answer.
* The libraries (curl, x264, opus, webrtc, ice), whose behaviour appears as choices
  of outcome.  That `curl_multi_add_handle` runs on another thread than the loop is
  a data race inside curl, out of reach here.
* Encoded sizes and wall-clock time below a millisecond, wherever they are rounded
  away or only logged.  Audio bypasses the pacer and the feedback in the code and
  so in the models.

## 6. Plan

Done: all modules of section 2.  What is left, by what it would add:

1. `TransportSend` and `CongestionControl` as one module, with feedback that
   repeats and overtakes itself in front of the detector (each has its own run
   now; together they outgrow one).
2. A second push over the first, and a second start of a preview, which the
   application does not do but the interface allows.
3. Abstract specifications for `EncoderFilter` (in order, lossy only by failure) and
   `PacedSender` (a reliable, urgent channel).
4. Proofs for `CongestionControl`: for a feedback of one chunk first, with the places
   of its bits as a table instead of powers, and the sorted results as any
   permutation that is in order.
5. A sliding window in `VideoPath`: runs longer than the range of sequence numbers,
   for receivers that forget.
