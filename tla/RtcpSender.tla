----------------------------- MODULE RtcpSender -----------------------------
(***************************************************************************)
(* RTCPSender and the timer ModuleRtpRtcpImpl drives it with, for one send *)
(* stream (VideoSendStream or AudioSendStream).  Everything runs on the    *)
(* network thread, so each call is one action.  A report schedules the     *)
(* next one at a random distance; a frame may send a report too, early     *)
(* when it is a key frame; a delayed task is never cancelled.              *)
(***************************************************************************)
EXTENDS Integers, Sequences, SequencesExt

CONSTANTS Kinds,               \* a subset of {"audio", "video"}
          ReportInterval,      \* kDefaultVideoRtcpIntervalMs, ...Audio...
          BeforeKeyFrame,      \* RTCP_BEFORE_KEY_FRAME, 100 ms
          MaxPackets,          \* bound: packets sent
          MaxIce,              \* bound: changes of pc_state_
          MaxLate,             \* bound: how late the thread runs a due task
          MaxTime              \* bound: the clock

ASSUME RtcpAssumption ==
  /\ Kinds \subseteq {"audio", "video"}
  /\ {ReportInterval, BeforeKeyFrame, MaxPackets, MaxIce, MaxLate, MaxTime} \subseteq Nat
  /\ BeforeKeyFrame < ReportInterval \div 2

VARIABLES kind,         \* which stream this is
          now,
          connected,    \* pc_state_ is kConnected
          changes,      \* changes of it so far
          delayed,      \* the times delayed tasks are to act at
          nextTime,     \* next_time_to_send_rtcp_
          captured,     \* last_frame_capture_time_ has a value
          packets,      \* rtp_stats_.transmmited.packets
          reports       \* sender reports that reached the transport

vars == <<kind, now, connected, changes, delayed, nextTime, captured, packets, reports>>

\* The stream right after its constructor: SetRTCPStatus has scheduled the
\* first report after half an interval.
Init ==
  /\ kind \in Kinds
  /\ now = 0
  /\ connected = FALSE /\ changes = 0
  /\ nextTime = ReportInterval \div 2
  /\ delayed = {nextTime}
  /\ captured = FALSE
  /\ packets = 0
  /\ reports = << >>

\* [mutant: the upper end is not halved]
GapsUnhalved == (ReportInterval \div 2)..(3 * ReportInterval)

\* random_.Rand(interval / 2, interval * 3 / 2)
Gaps == (ReportInterval \div 2)..((3 * ReportInterval) \div 2)

\* [mutant: the time of the next report stays where it was]
PrepareReportLate(pending) ==
  \E gap \in Gaps : delayed' = pending \cup {now + gap} /\ UNCHANGED nextTime

\* PrepareReport, SetNextRtcpSendEvaluationDuration, ScheduleNextRtcpSend.  Two
\* tasks for one time count as one: the second to run finds nothing due.
PrepareReport(pending) ==
  \E gap \in Gaps : nextTime' = now + gap /\ delayed' = pending \cup {nextTime'}

\* [mutant: a report is made although there is no frame to take its time from]
SendRTCPAnyway(pending, frames) ==
  /\ PrepareReport(pending)
  /\ reports' = IF connected THEN Append(reports, [time |-> now, packets |-> packets])
                ELSE reports

\* SendRTCP: without a frame the flags are dropped and nothing is scheduled;
\* else a report is built, and OnLocalRtcpPacket drops it unless connected.
SendRTCP(pending, frames) ==
  IF frames
  THEN /\ PrepareReport(pending)
       /\ reports' = IF connected THEN Append(reports, [time |-> now, packets |-> packets])
                     ELSE reports
  ELSE delayed' = pending /\ UNCHANGED <<nextTime, reports>>

TimeToSendRTCPPacket(beforeKeyFrame) ==
  now + (IF kind = "video" /\ beforeKeyFrame THEN BeforeKeyFrame ELSE 0) >= nextTime

\* A delayed task, MaybeSendRTCP.  One that wakes up early posts itself again,
\* which changes nothing here.
RunDelayed ==
  /\ \E d \in delayed :
        /\ d <= now
        /\ IF TimeToSendRTCPPacket(FALSE) THEN SendRTCP(delayed \ {d}, captured)
           ELSE delayed' = delayed \ {d} /\ UNCHANGED <<nextTime, reports>>
  /\ UNCHANGED <<kind, now, connected, changes, captured, packets>>

\* [mutant: a frame leaves reports to the timer]
SendEncodedFrameQuietly(count, idr) ==
  /\ connected /\ packets + count <= MaxPackets
  /\ captured' = TRUE
  /\ packets' = packets + count
  /\ UNCHANGED <<kind, now, connected, changes, delayed, nextTime, reports>>

\* SendEncodedImage or SendEncodedAudio: first OnSendingRtpFrame, then the
\* packets are counted and sent.
SendEncodedFrame(count, idr) ==
  /\ connected /\ packets + count <= MaxPackets
  /\ captured' = TRUE
  /\ IF TimeToSendRTCPPacket(idr) THEN SendRTCP(delayed, TRUE)
     ELSE UNCHANGED <<delayed, nextTime, reports>>
  /\ packets' = packets + count
  /\ UNCHANGED <<kind, now, connected, changes>>

\* pc_state_ becomes or stops being kConnected
OnIceState ==
  /\ changes < MaxIce
  /\ changes' = changes + 1
  /\ connected' = ~connected
  /\ UNCHANGED <<kind, now, delayed, nextTime, captured, packets, reports>>

Tick ==
  /\ now < MaxTime
  /\ \A d \in delayed : now < d + MaxLate
  /\ now' = now + 1
  /\ UNCHANGED <<kind, connected, changes, delayed, nextTime, captured, packets, reports>>

Next ==
  \/ RunDelayed
  \/ \E count \in 1..2, idr \in BOOLEAN : SendEncodedFrame(count, idr)
  \/ OnIceState
  \/ Tick

Spec == Init /\ [][Next]_vars
-----------------------------------------------------------------------------
\* The state is well typed, and the next report never more than one and a half
\* intervals away.
TypeOK ==
  /\ kind \in Kinds
  /\ now \in Nat /\ delayed \subseteq Nat
  /\ nextTime \in 0..(now + (3 * ReportInterval) \div 2)
  /\ connected \in BOOLEAN /\ captured \in BOOLEAN
  /\ changes \in 0..MaxIce /\ packets \in 0..MaxPackets
  /\ reports \in Seq([time : Nat, packets : 0..MaxPackets])

\* Once a frame was sent reports never stop: a delayed task is there for the
\* time of the next one, whatever tasks of earlier times still wait, and even
\* when the timer had ended because no frame had come yet.
ReportPending == captured => nextTime \in delayed

\* Early tasks, late tasks, frames and key frames together never send reports
\* closer than half an interval, less the advance a key frame takes.
ReportsSpaced ==
  \A i \in 2..Len(reports) :
     reports[i].time - reports[i - 1].time
        >= ReportInterval \div 2 - (IF kind = "video" THEN BeforeKeyFrame ELSE 0)

\* A sender report needs a frame's time to compute its own from: none is sent
\* before the first frame, however long that takes.
NoReportBeforeFrame == reports # << >> => captured
=============================================================================
