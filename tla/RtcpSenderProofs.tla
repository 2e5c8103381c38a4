-------------------------- MODULE RtcpSenderProofs --------------------------
(***************************************************************************)
(* What holds of the report timer for every interval and any number of     *)
(* frames.  ReportInv is inductive: the delayed task for the next report   *)
(* is there, or it ran in vain before any frame had come; and the next     *)
(* report lies half an interval after the last one.                        *)
(***************************************************************************)
EXTENDS RtcpSender, TLAPS

Report == [time : Int, packets : Int]

TimerTypeOK ==
  /\ now \in Int /\ nextTime \in Int /\ packets \in Int
  /\ captured \in BOOLEAN /\ connected \in BOOLEAN
  /\ reports \in Seq(Report)

TaskOrVain == nextTime \in delayed \/ (~captured /\ nextTime <= now)
LastBeforeNext ==
  reports # << >> => /\ reports[Len(reports)].time <= now
                     /\ reports[Len(reports)].time + ReportInterval \div 2 <= nextTime

ReportInv ==
  TimerTypeOK /\ TaskOrVain /\ LastBeforeNext /\ ReportsSpaced /\ NoReportBeforeFrame

\* The last of a nonempty sequence of reports.
LEMMA LastReport ==
  ASSUME NEW s \in Seq(Report), s # << >>
  PROVE  /\ Len(s) \in Nat /\ Len(s) >= 1 /\ Len(s) \in 1..Len(s)
         /\ s[Len(s)].time \in Int
<1>1. Len(s) \in Nat /\ Len(s) >= 1
  OBVIOUS
<1>2. s[Len(s)] \in Report
  BY <1>1
<1> QED BY <1>1, <1>2 DEF Report

\* The invariant holds right after the constructor of the stream.
LEMMA ReportInit == Init => ReportInv
<1> SUFFICES ASSUME Init PROVE ReportInv
  OBVIOUS
<1>1. ReportInterval \div 2 \in Int
  BY RtcpAssumption DEF RtcpAssumption
<1>2. TimerTypeOK /\ TaskOrVain
  <2>1. reports = << >> /\ reports \in Seq(Report)
    BY DEF Init
  <2>2. nextTime \in delayed /\ nextTime \in Int
    BY <1>1 DEF Init
  <2>3. now \in Int /\ packets \in Int
    BY DEF Init
  <2>4. captured \in BOOLEAN /\ connected \in BOOLEAN
    <3>1. captured = FALSE /\ connected = FALSE
      BY DEF Init
    <3> QED BY <3>1
  <2> QED BY <2>1, <2>2, <2>3, <2>4 DEF TimerTypeOK, TaskOrVain
<1>3. LastBeforeNext /\ ReportsSpaced /\ NoReportBeforeFrame
  BY DEF Init, LastBeforeNext, ReportsSpaced, NoReportBeforeFrame
<1> QED BY <1>2, <1>3 DEF ReportInv

\* A report made when one is due keeps its distance from the one before, and
\* what PrepareReport schedules keeps its distance from both.
LEMMA ReportMade ==
  ASSUME ReportInv, NEW before \in BOOLEAN, TimeToSendRTCPPacket(before),
         NEW pending, PrepareReport(pending),
         now' = now, kind' = kind, connected' = connected, captured', packets' \in Int,
         reports' = IF connected THEN Append(reports, [time |-> now, packets |-> packets])
                    ELSE reports
  PROVE  ReportInv'
<1> USE DEF ReportInv
<1> DEFINE half == ReportInterval \div 2
           early == IF kind = "video" THEN BeforeKeyFrame ELSE 0
<1>1. half \in Int /\ BeforeKeyFrame \in Int /\ BeforeKeyFrame >= 0
  BY RtcpAssumption DEF RtcpAssumption
<1>2. /\ nextTime' \in Int /\ nextTime' \in delayed' /\ now + half <= nextTime'
  <2>1. PICK gap \in Gaps : nextTime' = now + gap /\ delayed' = pending \cup {nextTime'}
    BY DEF PrepareReport
  <2>2. gap \in Int /\ half <= gap
    BY <1>1, RtcpAssumption DEF RtcpAssumption, Gaps
  <2> QED BY <1>1, <2>1, <2>2 DEF TimerTypeOK
<1>3. nextTime <= now + early
  BY <1>1 DEF TimeToSendRTCPPacket, TimerTypeOK
<1> DEFINE report == [time |-> now, packets |-> packets]
<1>4. report \in Report
  BY DEF TimerTypeOK, Report
<1>5. CASE ~connected
  <2>1. reports' = reports
    BY <1>5
  <2>2. TimerTypeOK' /\ TaskOrVain'
    BY <1>2, <2>1 DEF TimerTypeOK, TaskOrVain
  <2>3. ASSUME reports # << >>
        PROVE  reports[Len(reports)].time \in Int
    BY <2>3, LastReport DEF TimerTypeOK
  <2>4. LastBeforeNext'
    BY <1>1, <1>2, <2>1, <2>3 DEF LastBeforeNext, TimerTypeOK
  <2>5. ReportsSpaced' /\ NoReportBeforeFrame'
    BY <2>1 DEF ReportsSpaced, NoReportBeforeFrame
  <2> QED BY <2>2, <2>4, <2>5
<1>6. CASE connected
  <2>1. reports' = Append(reports, report) /\ reports \in Seq(Report)
    BY <1>6 DEF TimerTypeOK
  <2>2. /\ Len(reports') = Len(reports) + 1 /\ Len(reports) \in Nat
        /\ reports' \in Seq(Report) /\ reports' # << >>
        /\ reports'[Len(reports')] = report
        /\ \A i \in 1..Len(reports) : reports'[i] = reports[i]
    BY <1>4, <2>1
  <2>3. TimerTypeOK' /\ TaskOrVain'
    BY <1>2, <2>2 DEF TimerTypeOK, TaskOrVain
  <2>4. LastBeforeNext'
    BY <1>2, <2>2 DEF LastBeforeNext, TimerTypeOK
  <2>5. ReportsSpaced'
    <3> SUFFICES ASSUME NEW i \in 2..Len(reports')
                 PROVE  reports'[i].time - reports'[i - 1].time >= half - early
      BY DEF ReportsSpaced
    <3>1. CASE i <= Len(reports)
      <4>1. reports'[i] = reports[i] /\ reports'[i - 1] = reports[i - 1] /\ i \in 2..Len(reports)
        BY <2>2, <3>1
      <4> QED BY <4>1 DEF ReportsSpaced
    <3>2. CASE i = Len(reports')
      <4>1. reports # << >> /\ Len(reports) \in 1..Len(reports) /\ i - 1 = Len(reports)
        BY <2>2, <3>2
      <4>2. reports[Len(reports)].time \in Int
        BY <2>1, <4>1, LastReport
      <4>3. reports'[i].time = now /\ reports'[i - 1].time = reports[Len(reports)].time
        <5>1. reports'[i] = report /\ reports'[i - 1] = reports[Len(reports)]
          BY <2>2, <3>2, <4>1
        <5> QED BY <5>1
      <4>4. reports[Len(reports)].time + half <= nextTime
        BY <4>1 DEF LastBeforeNext
      <4>5. early \in Int /\ now \in Int /\ nextTime \in Int
        BY <1>1 DEF TimerTypeOK
      <4> HIDE DEF half, early
      <4> QED BY <1>1, <1>3, <4>2, <4>3, <4>4, <4>5
    <3> QED BY <2>2, <3>1, <3>2
  <2>6. NoReportBeforeFrame'
    BY DEF NoReportBeforeFrame
  <2> QED BY <2>3, <2>4, <2>5, <2>6
<1> QED BY <1>5, <1>6 DEF TimerTypeOK

\* Every step keeps the invariant.
LEMMA ReportStep == ReportInv /\ [Next]_vars => ReportInv'
<1> SUFFICES ASSUME ReportInv, [Next]_vars PROVE ReportInv'
  OBVIOUS
<1>1. CASE RunDelayed
  <2>1. PICK d \in delayed :
          /\ d <= now
          /\ IF TimeToSendRTCPPacket(FALSE) THEN SendRTCP(delayed \ {d}, captured)
             ELSE delayed' = delayed \ {d} /\ UNCHANGED <<nextTime, reports>>
    BY <1>1 DEF RunDelayed
  <2>2. CASE TimeToSendRTCPPacket(FALSE) /\ captured
    <3>1. /\ PrepareReport(delayed \ {d})
          /\ reports' = IF connected
                        THEN Append(reports, [time |-> now, packets |-> packets])
                        ELSE reports
      BY <2>1, <2>2 DEF SendRTCP
    <3>2. /\ now' = now /\ kind' = kind /\ connected' = connected /\ captured' = captured
          /\ packets' = packets /\ packets \in Int
      BY <1>1 DEF RunDelayed, ReportInv, TimerTypeOK
    <3> QED BY <2>2, <3>1, <3>2, ReportMade
  <2>3. CASE ~(TimeToSendRTCPPacket(FALSE) /\ captured)
    <3>1. delayed' = delayed \ {d} /\ UNCHANGED <<nextTime, reports>>
      BY <2>1, <2>3 DEF SendRTCP
    <3>2. UNCHANGED <<kind, now, connected, changes, captured, packets>>
      BY <1>1 DEF RunDelayed
    <3>3. TimeToSendRTCPPacket(FALSE) <=> now >= nextTime
      BY DEF TimeToSendRTCPPacket, ReportInv, TimerTypeOK
    <3>4. TaskOrVain'
      BY <2>1, <2>3, <3>1, <3>2, <3>3 DEF ReportInv, TaskOrVain, TimerTypeOK
    <3> QED BY <3>1, <3>2, <3>4 DEF ReportInv, TimerTypeOK, LastBeforeNext, ReportsSpaced,
               NoReportBeforeFrame
  <2> QED BY <2>2, <2>3
<1>2. ASSUME NEW count \in 1..2, NEW idr \in BOOLEAN, SendEncodedFrame(count, idr)
      PROVE  ReportInv'
  <2>1. /\ now' = now /\ kind' = kind /\ connected' = connected /\ captured'
        /\ captured' = TRUE /\ packets' \in Int
    BY <1>2 DEF SendEncodedFrame, ReportInv, TimerTypeOK
  <2>2. CASE TimeToSendRTCPPacket(idr)
    <3>1. /\ PrepareReport(delayed)
          /\ reports' = IF connected
                        THEN Append(reports, [time |-> now, packets |-> packets])
                        ELSE reports
      BY <1>2, <2>2 DEF SendEncodedFrame, SendRTCP
    <3> QED BY <2>1, <2>2, <3>1, ReportMade
  <2>3. CASE ~TimeToSendRTCPPacket(idr)
    <3>1. UNCHANGED <<delayed, nextTime, reports>>
      BY <1>2, <2>3 DEF SendEncodedFrame
    <3>2. now < nextTime
      BY <2>3, RtcpAssumption DEF RtcpAssumption, TimeToSendRTCPPacket, ReportInv, TimerTypeOK
    <3>3. TaskOrVain'
      BY <2>1, <3>1, <3>2 DEF ReportInv, TaskOrVain, TimerTypeOK
    <3> QED BY <2>1, <3>1, <3>3 DEF ReportInv, TimerTypeOK, LastBeforeNext, ReportsSpaced,
               NoReportBeforeFrame
  <2> QED BY <2>2, <2>3
<1>3. CASE OnIceState
  BY <1>3 DEF OnIceState, ReportInv, TimerTypeOK, TaskOrVain, LastBeforeNext, ReportsSpaced,
     NoReportBeforeFrame
<1>4. CASE Tick
  <2>1. now' = now + 1 /\ UNCHANGED <<kind, connected, delayed, nextTime, captured, packets, reports>>
    BY <1>4 DEF Tick
  <2>2. TimerTypeOK' /\ TaskOrVain'
    BY <2>1 DEF ReportInv, TimerTypeOK, TaskOrVain
  <2>3. ASSUME reports # << >> PROVE reports[Len(reports)].time \in Int
    BY <2>3, LastReport DEF ReportInv, TimerTypeOK
  <2>4. LastBeforeNext'
    BY <2>1, <2>3 DEF ReportInv, LastBeforeNext, TimerTypeOK
  <2> QED BY <2>1, <2>2, <2>4 DEF ReportInv, ReportsSpaced, NoReportBeforeFrame
<1>5. CASE UNCHANGED vars
  BY <1>5 DEF vars, ReportInv, TimerTypeOK, TaskOrVain, LastBeforeNext, ReportsSpaced,
     NoReportBeforeFrame
<1> QED BY <1>1, <1>2, <1>3, <1>4, <1>5 DEF Next

\* ReportInv is an invariant of the specification.
LEMMA AlwaysReportInv == Spec => []ReportInv
BY ReportInit, ReportStep, PTL DEF Spec

\* Once a frame was sent, the delayed task of the next report is always there
\* (MaybeSendRTCP, OnSendingRtpFrame and PrepareReport of every stream).
THEOREM ReportsNeverStop == Spec => []ReportPending
<1>1. ReportInv => ReportPending
  BY DEF ReportInv, TaskOrVain, ReportPending
<1> QED BY <1>1, AlwaysReportInv, PTL

\* Reports keep their distance, whichever of timer, frame and key frame sent
\* them (TimeToSendRTCPPacket).
THEOREM ReportsAlwaysSpaced == Spec => []ReportsSpaced
<1>1. ReportInv => ReportsSpaced
  BY DEF ReportInv
<1> QED BY <1>1, AlwaysReportInv, PTL

\* No report precedes the first frame (ComputeCompoundRTCPPacket).
THEOREM FrameBeforeReports == Spec => []NoReportBeforeFrame
<1>1. ReportInv => NoReportBeforeFrame
  BY DEF ReportInv
<1> QED BY <1>1, AlwaysReportInv, PTL
(***************************************************************************)
(* The types, with the bounds of the counters.                             *)
(***************************************************************************)
LEMMA IntervalHalves ==
  /\ ReportInterval \div 2 \in Nat
  /\ (3 * ReportInterval) \div 2 \in Nat
  /\ ReportInterval \div 2 <= (3 * ReportInterval) \div 2
BY RtcpAssumption DEF RtcpAssumption

\* What PrepareReport and the report leave well typed.
LEMMA TypesReport ==
  ASSUME TypeOK, NEW pending, pending \subseteq Nat, NEW frames,
         SendRTCP(pending, frames), UNCHANGED <<kind, now, connected, changes>>,
         captured' \in BOOLEAN, packets' \in 0..MaxPackets
  PROVE  TypeOK'
<1> DEFINE S == [time : Nat, packets : 0..MaxPackets]
<1>1. [time |-> now, packets |-> packets] \in S /\ reports \in Seq(S)
  BY DEF TypeOK
<1>2. reports' \in Seq(S)
  <2>1. \A r \in S : Append(reports, r) \in Seq(S)
    BY <1>1
  <2> QED
    BY <1>1, <2>1 DEF SendRTCP
<1>3. delayed' \subseteq Nat /\ nextTime' \in 0..(now + (3 * ReportInterval) \div 2)
  <2>1. CASE ~frames
    BY <2>1 DEF SendRTCP, TypeOK
  <2>2. CASE frames
    <3>1. PICK gap \in Gaps : nextTime' = now + gap /\ delayed' = pending \cup {nextTime'}
      BY <2>2 DEF SendRTCP, PrepareReport
    <3>2. gap \in Nat /\ gap <= (3 * ReportInterval) \div 2
      BY IntervalHalves DEF Gaps
    <3> QED
      BY <3>1, <3>2, IntervalHalves DEF TypeOK
  <2> QED
    BY <2>1, <2>2
<1> QED
  BY <1>2, <1>3 DEF TypeOK

\* Every step keeps the types.
LEMMA TypesStep == TypeOK /\ [Next]_vars => TypeOK'
<1> SUFFICES ASSUME TypeOK, [Next]_vars PROVE TypeOK'
  OBVIOUS
<1>1. CASE RunDelayed
  <2>1. PICK d \in delayed :
          IF TimeToSendRTCPPacket(FALSE) THEN SendRTCP(delayed \ {d}, captured)
          ELSE delayed' = delayed \ {d} /\ UNCHANGED <<nextTime, reports>>
    BY <1>1 DEF RunDelayed
  <2>2. UNCHANGED <<kind, now, connected, changes, captured, packets>>
    BY <1>1 DEF RunDelayed
  <2>3. delayed \ {d} \subseteq Nat /\ captured' \in BOOLEAN /\ packets' \in 0..MaxPackets
    BY <2>2 DEF TypeOK
  <2>4. CASE TimeToSendRTCPPacket(FALSE)
    BY <2>1, <2>2, <2>3, <2>4, TypesReport
  <2>5. CASE ~TimeToSendRTCPPacket(FALSE)
    BY <2>1, <2>2, <2>3, <2>5 DEF TypeOK
  <2> QED
    BY <2>4, <2>5
<1>2. ASSUME NEW count \in 1..2, NEW idr \in BOOLEAN, SendEncodedFrame(count, idr)
      PROVE  TypeOK'
  <2>1. UNCHANGED <<kind, now, connected, changes>> /\ captured' \in BOOLEAN
    BY <1>2 DEF SendEncodedFrame
  <2>2. packets' \in 0..MaxPackets /\ delayed \subseteq Nat
    BY <1>2, RtcpAssumption DEF RtcpAssumption, SendEncodedFrame, TypeOK
  <2>3. CASE TimeToSendRTCPPacket(idr)
    BY <1>2, <2>1, <2>2, <2>3, TypesReport DEF SendEncodedFrame
  <2>4. CASE ~TimeToSendRTCPPacket(idr)
    BY <1>2, <2>1, <2>2, <2>4 DEF SendEncodedFrame, TypeOK
  <2> QED
    BY <2>3, <2>4
<1>3. CASE OnIceState
  BY <1>3, RtcpAssumption DEF RtcpAssumption, OnIceState, TypeOK
<1>4. CASE Tick
  BY <1>4, IntervalHalves DEF Tick, TypeOK
<1>5. CASE UNCHANGED vars
  BY <1>5 DEF vars, TypeOK
<1> QED
  BY <1>1, <1>2, <1>3, <1>4, <1>5 DEF Next

\* The timer, the counters and the reports stay well typed, and the next report
\* is never more than one and a half intervals away.
THEOREM SenderTypes == Spec => []TypeOK
<1>1. Init => TypeOK
  <2> SUFFICES ASSUME Init PROVE TypeOK
    OBVIOUS
  <2>1. reports \in Seq([time : Nat, packets : 0..MaxPackets])
    BY DEF Init
  <2>2. 0 \in 0..MaxIce /\ 0 \in 0..MaxPackets
    BY RtcpAssumption DEF RtcpAssumption
  <2>3. nextTime \in 0..(now + (3 * ReportInterval) \div 2)
    BY IntervalHalves DEF Init
  <2>4. delayed \subseteq Nat /\ now \in Nat
    BY IntervalHalves DEF Init
  <2>5. connected \in BOOLEAN /\ captured \in BOOLEAN
    BY Zenon DEF Init
  <2>6. kind \in Kinds /\ changes \in 0..MaxIce /\ packets \in 0..MaxPackets
    BY <2>2 DEF Init
  <2> QED
    BY <2>1, <2>3, <2>4, <2>5, <2>6 DEF TypeOK
<1> QED BY <1>1, TypesStep, PTL DEF Spec
=============================================================================
