--------------------------- MODULE TransportSend ---------------------------
(***************************************************************************)
(* The path of a video packet through PeerConnection (network thread), the *)
(* pacer (its task queue), RtpTransportControllerSend (the rtp_send task   *)
(* queue) and back from the receiver as transport-wide feedback.  The      *)
(* pacer is a FIFO here: one stream of one type (module PacedSender has    *)
(* the rest).  Packets are numbered from 0 as they are created.            *)
(***************************************************************************)
EXTENDS TransportFeedbackAdapter, FiniteSetsExt

CONSTANTS FirstSeq,      \* transport_seq_ starts here, 1000
          BaseScale,     \* granularity of a base time, 64 ms
          StartTime,     \* the clock of the sender when it starts
          RemoteStart,   \* the clock of the receiver then
          IceStates,     \* ICE states the agent reports
          MaxPackets,    \* bound: packets
          MaxIce,        \* bound: ICE state signals
          MaxFeedback,   \* bound: feedback messages
          MaxReports,    \* bound: receiver reports
          MaxTime        \* bound: the clock, from StartTime

ASSUME TransportSendAssumption ==
  /\ {FirstSeq, BaseScale, StartTime, RemoteStart, MaxPackets, MaxIce, MaxFeedback,
      MaxReports, MaxTime} \subseteq Nat
  /\ BaseScale > 0 /\ FirstSeq < SeqModulus
  /\ 2 * MaxPackets < SeqModulus   \* a number is never ambiguous
  /\ IceStates \subseteq {"new", "checking", "connected", "completed",
                          "disconnected", "failed", "closed"}

\* A base time wraps after 12 days, and a run is shorter than half of that.
ASSUME ClockAssumption ==
  /\ 2 * (MaxTime + BaseScale) < WrapPeriod
  /\ MaxTime + BaseScale <= StartTime

Packets == 0..(MaxPackets - 1)

VARIABLES now,
          pcState,      \* pc_state_
          iceSignals,   \* ICE state signals so far
          created,      \* packets created so far; gives transport_seq_
          frameLeft,    \* packets SendEncodedImage has still to create
          added,        \* the one it added to the feedback and has to enqueue
          pacer,        \* packets in the pacer
          sending,      \* the one the pacer thread sent but did not announce
          onWire,       \* packets in the network
          arrival,      \* time of arrival, on the clock of the receiver
          messages,     \* feedback messages in the network
          fed,          \* feedback messages sent so far
          reports,      \* receiver reports received so far
          taskQueue,    \* task_queue_ of RtpTransportControllerSend
          adapter,      \* transport_feedback_adapter_
          networkOk,    \* network_ok_
          controller,   \* controller_ exists
          results,      \* what the controller was told
          sentAt,       \* history: send_time_ms of every packet
          madeAt,       \* history: creation time of every packet
          lastAdd,      \* history: creation time of the packet added last
          epoch         \* history: sender's clock minus receiver's, as taken
                        \* from the first message

peer == <<pcState, iceSignals, created, frameLeft, added, madeAt>>
network == <<onWire, arrival, messages, fed>>
sendQueue == <<adapter, networkOk, controller, results, epoch, lastAdd>>
vars == <<now, peer, pacer, sending, network, reports, taskQueue, sendQueue, sentAt>>

None == -1
Wire(n) == (FirstSeq + n) % SeqModulus   \* packet_id, a uint16_t

Init ==
  /\ now = StartTime
  /\ pcState = "new" /\ iceSignals = 0
  /\ created = 0 /\ frameLeft = 0 /\ added = None
  /\ pacer = << >> /\ sending = None
  /\ onWire = {} /\ arrival = [n \in Packets |-> Never]
  /\ messages = {} /\ fed = 0 /\ reports = 0
  /\ taskQueue = << >>
  /\ adapter = InitialAdapter
  /\ networkOk = FALSE /\ controller = FALSE
  /\ results = << >>
  /\ sentAt = [n \in Packets |-> Never]
  /\ madeAt = [n \in Packets |-> Never]
  /\ lastAdd = Never
  /\ epoch = Never

Post(task) == taskQueue' = Append(taskQueue, task)
-----------------------------------------------------------------------------
(* The network thread, which is in SendEncodedImage while frameLeft > 0.   *)

Idle == frameLeft = 0

PcState(ice) ==
  CASE ice = "checking" -> "connecting"
    [] ice \in {"connected", "completed"} -> "connected"
    [] OTHER -> ice

OnIceState(ice) ==
  /\ Idle /\ iceSignals < MaxIce
  /\ iceSignals' = iceSignals + 1
  /\ pcState' = PcState(ice)
  /\ IF pcState' \in {"connected", "disconnected", "failed"}
     THEN Post([kind |-> "network", ok |-> pcState' = "connected"])
     ELSE UNCHANGED taskQueue
  /\ UNCHANGED <<now, created, frameLeft, added, madeAt, pacer, sending, network,
                 reports, sendQueue, sentAt>>

\* [mutant: frames are packetised before the connection is up]
SendEncodedImageAlways(count) ==
  /\ Idle
  /\ created + count <= MaxPackets
  /\ frameLeft' = count
  /\ UNCHANGED <<now, pcState, iceSignals, created, added, madeAt, pacer, sending,
                 network, reports, taskQueue, sendQueue, sentAt>>

\* A frame that gives count packets.
SendEncodedImage(count) ==
  /\ Idle /\ pcState = "connected"
  /\ created + count <= MaxPackets
  /\ frameLeft' = count
  /\ UNCHANGED <<now, pcState, iceSignals, created, added, madeAt, pacer, sending,
                 network, reports, taskQueue, sendQueue, sentAt>>

AddPacketToTransportFeedback ==
  /\ frameLeft > 0 /\ added = None
  /\ added' = created
  /\ created' = created + 1
  /\ madeAt' = [madeAt EXCEPT ![created] = now]
  /\ Post([kind |-> "add", seq |-> Wire(created), time |-> now])
  /\ UNCHANGED <<now, pcState, iceSignals, frameLeft, pacer, sending, network,
                 reports, sendQueue, sentAt>>

EnqueuePacket ==
  /\ added # None
  /\ pacer' = Append(pacer, added)
  /\ added' = None
  /\ frameLeft' = frameLeft - 1
  /\ UNCHANGED <<now, pcState, iceSignals, created, madeAt, sending, network, reports,
                 taskQueue, sendQueue, sentAt>>

OnTransportFeedback ==
  /\ Idle
  /\ \E m \in messages :
        /\ messages' = messages \ {m}
        /\ Post([kind |-> "feedback", message |-> m, time |-> now])
  /\ UNCHANGED <<now, peer, pacer, sending, onWire, arrival, fed, reports, sendQueue,
                 sentAt>>

\* A receiver report that answers a sender report, which is only sent after
\* the first frame: OnNetworkInfo passes its round-trip time on.
OnNetworkInfo ==
  /\ Idle /\ created > 0 /\ reports < MaxReports
  /\ reports' = reports + 1
  /\ Post([kind |-> "rtt"])
  /\ UNCHANGED <<now, peer, pacer, sending, network, sendQueue, sentAt>>
-----------------------------------------------------------------------------
(* The pacer's thread: PeerConnection::SendPacket.                         *)

SendPacket ==
  /\ sending = None /\ pacer # << >>
  /\ pacer' = Tail(pacer)
  /\ IF pcState = "connected"
     THEN onWire' = onWire \cup {Head(pacer)} /\ sending' = Head(pacer)
     ELSE UNCHANGED <<onWire, sending>>
  /\ UNCHANGED <<now, peer, arrival, messages, fed, reports, taskQueue, sendQueue, sentAt>>

OnSentPacket ==
  /\ sending # None
  /\ Post([kind |-> "sent", seq |-> Wire(sending), time |-> now])
  /\ sentAt' = [sentAt EXCEPT ![sending] = now]
  /\ sending' = None
  /\ UNCHANGED <<now, peer, pacer, network, reports, sendQueue>>
-----------------------------------------------------------------------------
(* The rtp_send task queue.                                                *)

Run(kind) == taskQueue # << >> /\ Head(taskQueue).kind = kind /\ taskQueue' = Tail(taskQueue)
Task == Head(taskQueue)
others == <<now, peer, pacer, sending, network, reports, sentAt>>

RunAddPacket ==
  /\ Run("add")
  /\ adapter' = AddPacket(adapter, Task.seq, Task.time)
  /\ lastAdd' = Task.time
  /\ UNCHANGED <<others, networkOk, controller, results, epoch>>

RunSentPacket ==
  /\ Run("sent")
  /\ adapter' = ProcessSentPacket(adapter, Task.seq, Task.time)
  /\ UNCHANGED <<others, networkOk, controller, results, epoch, lastAdd>>

RunTransportFeedback ==
  /\ Run("feedback")
  /\ LET done == ProcessTransportFeedback(adapter, Task.message, Task.time)
     IN  /\ adapter' = done.adapter
         /\ results' = IF controller THEN results \o done.results ELSE results
  /\ epoch' = IF adapter.timestamp = Never THEN Task.time - Task.message.trueBase ELSE epoch
  /\ UNCHANGED <<others, networkOk, controller, lastAdd>>

RunNetworkOk ==
  /\ Run("network")
  /\ networkOk' = Task.ok
  /\ controller' = (controller \/ Task.ok)
  /\ UNCHANGED <<others, adapter, results, epoch, lastAdd>>

RunRttUpdate ==
  /\ Run("rtt")
  /\ UNCHANGED <<others, sendQueue>>
-----------------------------------------------------------------------------
(* The network and the receiver.  Packets and messages are lost by staying *)
(* in the network, and overtake each other.                                *)

Arrive(n) ==
  /\ n \in onWire
  /\ onWire' = onWire \ {n}
  /\ arrival' = [arrival EXCEPT ![n] = RemoteStart + now - StartTime]
  /\ UNCHANGED <<now, peer, pacer, sending, messages, fed, reports, taskQueue,
                 sendQueue, sentAt>>

\* The statuses of the packets lo..hi: the first delta counts from the base
\* time, the others from the packet received before.
Feedback(lo, hi) ==
  LET received == {n \in lo..hi : arrival[n] # Never}
      first == Min(received)
      base == (arrival[first] \div BaseScale) * BaseScale
      before(n) == IF n = first THEN base
                   ELSE arrival[Max({m \in received : m < n})]
      status(n) == [seq |-> Wire(n), received |-> n \in received,
                    delta |-> IF n \in received THEN arrival[n] - before(n) ELSE 0]
  IN  [base |-> base % WrapPeriod, trueBase |-> base,
       statuses |-> [i \in 1..(hi - lo + 1) |-> status(lo + i - 1)]]

\* A message covers consecutive numbers up to one that arrived, and may repeat
\* what an earlier message said, as receivers do when packets arrive late.
SendFeedback(lo, hi) ==
  /\ fed < MaxFeedback
  /\ lo <= hi /\ arrival[hi] # Never
  /\ messages' = messages \cup {Feedback(lo, hi)}
  /\ fed' = fed + 1
  /\ UNCHANGED <<now, peer, pacer, sending, onWire, arrival, reports, taskQueue,
                 sendQueue, sentAt>>

Tick ==
  /\ now < StartTime + MaxTime
  /\ now' = now + 1
  /\ UNCHANGED <<peer, pacer, sending, network, reports, taskQueue, sendQueue, sentAt>>

Next ==
  \/ \E ice \in IceStates : OnIceState(ice)
  \/ \E count \in 1..MaxPackets : SendEncodedImage(count)
  \/ AddPacketToTransportFeedback \/ EnqueuePacket
  \/ OnTransportFeedback \/ OnNetworkInfo
  \/ SendPacket \/ OnSentPacket
  \/ RunAddPacket \/ RunSentPacket \/ RunTransportFeedback \/ RunNetworkOk \/ RunRttUpdate
  \/ \E n \in Packets : Arrive(n)
  \/ \E lo, hi \in Packets : SendFeedback(lo, hi)
  \/ Tick

Spec == Init /\ [][Next]_vars
-----------------------------------------------------------------------------
Number(r) == r.seq - FirstSeq   \* the packet a result is about
Received(r) == r.receive # Never

\* The state is well typed; the history holds only packets that were created.
TypeOK ==
  /\ now \in StartTime..(StartTime + MaxTime)
  /\ pcState \in {"new", "connecting", "connected", "disconnected", "failed", "closed"}
  /\ created \in 0..MaxPackets /\ frameLeft \in 0..MaxPackets
  /\ added \in Packets \cup {None} /\ sending \in Packets \cup {None}
  /\ pacer \in Seq(Packets) /\ onWire \subseteq Packets
  /\ DOMAIN adapter.history \subseteq {FirstSeq + n : n \in 0..(created - 1)}

\* The controller is told at most once that a packet was received, however the
\* messages overlap, overtake each other and wrap.
ReportedOnce ==
  \A i, j \in DOMAIN results :
     Received(results[i]) /\ Received(results[j]) /\ results[i].seq = results[j].seq => i = j

\* A result is about a packet that left this host, and carries the time it
\* left: three threads and one FIFO lie between the two.
SendTimesTrue ==
  \A i \in DOMAIN results :
     Number(results[i]) \in Packets /\ results[i].send = sentAt[Number(results[i])]

ArrivalTrue(r) == Received(r) => r.receive = arrival[Number(r)] + epoch

\* Arrival times on the sender's clock: right across messages and the wrap of
\* the base time, as long as no received packet of the message was passed over.
ReceiveTimesTrue == \A i \in DOMAIN results : results[i].exact => ArrivalTrue(results[i])

\* "compute the arrival time of every RTP packet, converted to the time of the
\* sender", the comment in ProcessTransportFeedbackInner.
EveryReceiveTimeTrue == \A i \in DOMAIN results : ArrivalTrue(results[i])

\* The task posted by OnRttUpdate calls controller_ without looking whether it
\* exists; the task that creates it has always run before.
RttFindsController ==
  taskQueue # << >> /\ Task.kind = "rtt" => controller

\* A packet in the history is there under its own number, with the time it was
\* created, at most the window before the packet that was added last, although
\* the history is only cleaned from its front, and even when that last packet
\* has been acknowledged and left it.
HistoryInWindow ==
  \A s \in DOMAIN adapter.history :
     /\ s - FirstSeq \in 0..(created - 1)
     /\ adapter.history[s].creation = madeAt[s - FirstSeq]
     /\ lastAdd - adapter.history[s].creation \in 0..HistoryWindow
=============================================================================
