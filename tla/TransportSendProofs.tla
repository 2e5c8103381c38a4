------------------------ MODULE TransportSendProofs ------------------------
(***************************************************************************)
(* OnRttUpdate posts a task that uses controller_ unasked.  For any number *)
(* of packets, signals and reports it finds one: a report answers a packet,*)
(* a packet needs a connection, and the task that makes the controller was *)
(* posted when the connection came up, in front of everything else.        *)
(*                                                                         *)
(* And what the controller is told of packets is true, whatever the three  *)
(* threads and the network do (SendPathInv): each packet is in one place,  *)
(* every task says what was so when it was posted, numbers unwrap to their *)
(* packets, the history is in order, and a message is read status by       *)
(* status, by induction, with the arrival its deltas have come to.         *)
(***************************************************************************)
EXTENDS TransportSend, QueueLemmas

\* The task that makes the controller.
Makes(task) == task.kind = "network" /\ task.ok

\* In front of task j of the queue, or before the end of it, the controller
\* exists or is made.
MadeBefore(j) == controller \/ \E i \in 1..(j - 1) : Makes(taskQueue[i])

\* The send path has been used, or is open.
Opened == created > 0 \/ frameLeft > 0 \/ pcState = "connected"

RttInv ==
  /\ created \in Nat /\ frameLeft \in Nat
  /\ added # None => frameLeft > 0
  /\ IsQueue(taskQueue)
  /\ Opened => MadeBefore(Len(taskQueue) + 1)
  /\ \A j \in 1..Len(taskQueue) : taskQueue[j].kind = "rtt" => MadeBefore(j)

\* The queue starts empty.
LEMMA RttInit == Init => RttInv
<1> SUFFICES ASSUME Init PROVE RttInv
  OBVIOUS
<1>1. taskQueue \in Seq({})
  BY DEF Init
<1> QED
  BY <1>1 DEF Init, RttInv, IsQueue, Opened

\* A step that posts nothing and runs nothing, and opens nothing.
LEMMA RttQuiet ==
  ASSUME RttInv, UNCHANGED <<taskQueue, controller>>,
         created' \in Nat, frameLeft' \in Nat, (added # None => frameLeft > 0)',
         Opened' => Opened
  PROVE  RttInv'
BY DEF RttInv, MadeBefore

\* A step that posts a task: one that opens the path brings a task that makes
\* the controller, one that reports a round-trip time finds the path opened.
LEMMA RttPost ==
  ASSUME RttInv, NEW task, Post(task), UNCHANGED controller,
         created' \in Nat, frameLeft' \in Nat, (added # None => frameLeft > 0)',
         Opened' => Opened \/ Makes(task),
         task.kind = "rtt" => Opened
  PROVE  RttInv'
<1>0. PICK n : n = Len(taskQueue)
  OBVIOUS
<1>1. /\ IsQueue(taskQueue') /\ n \in Nat /\ Len(taskQueue') = n + 1
      /\ taskQueue'[n + 1] = task
      /\ \A i \in 1..n : taskQueue'[i] = taskQueue[i]
  BY <1>0, QueueBasics, AppendFacts DEF RttInv, Post
<1>2. \A j \in 1..(n + 1) : MadeBefore(j) => MadeBefore(j)'
  BY <1>1 DEF MadeBefore, Makes
<1>3. Opened' => MadeBefore(n + 2)'
  <2>1. CASE Opened
    <3>1. MadeBefore(n + 1)
      BY <1>0, <2>1 DEF RttInv
    <3> QED
      BY <1>1, <3>1 DEF MadeBefore, Makes
  <2>2. CASE Makes(task)
    <3>1. Makes(taskQueue[n + 1])'
      BY <1>1, <2>2 DEF Makes
    <3> QED
      BY <1>1, <3>1 DEF MadeBefore
  <2> QED
    BY <2>1, <2>2
<1>4. ASSUME NEW j \in 1..(n + 1), taskQueue'[j].kind = "rtt" PROVE MadeBefore(j)'
  <2>1. CASE j = n + 1
    BY <1>0, <1>1, <1>2, <1>4, <2>1 DEF RttInv
  <2>2. CASE j \in 1..n
    BY <1>0, <1>1, <1>2, <1>4, <2>2 DEF RttInv
  <2> QED
    BY <1>1, <2>1, <2>2
<1>5. Len(taskQueue)' + 1 = n + 2
  BY <1>1
<1> QED
  BY <1>1, <1>3, <1>4, <1>5 DEF RttInv

\* A step that runs the first task: if it made the controller, it is there.
LEMMA RttRun ==
  ASSUME RttInv, taskQueue # << >>, taskQueue' = Tail(taskQueue),
         UNCHANGED <<created, frameLeft, added, pcState>>,
         controller => controller', Makes(taskQueue[1]) => controller'
  PROVE  RttInv'
<1>0. PICK n : n = Len(taskQueue)
  OBVIOUS
<1>1. /\ IsQueue(taskQueue') /\ n \in Nat \ {0} /\ Len(taskQueue') = n - 1
      /\ \A i \in 1..(n - 1) : taskQueue'[i] = taskQueue[i + 1]
  BY <1>0, TailFacts DEF RttInv
<1>2. ASSUME NEW j \in 1..n, MadeBefore(j + 1) PROVE MadeBefore(j)'
  <2>1. CASE controller
    BY <2>1 DEF MadeBefore
  <2>2. ASSUME NEW i \in 1..j, Makes(taskQueue[i]) PROVE MadeBefore(j)'
    <3>1. CASE i = 1
      BY <2>2, <3>1 DEF MadeBefore
    <3>2. CASE i > 1
      <4>1. i - 1 \in 1..(j - 1) /\ taskQueue'[i - 1] = taskQueue[i]
        BY <1>1, <3>2
      <4> QED
        BY <2>2, <4>1 DEF MadeBefore, Makes
    <3> QED
      BY <3>1, <3>2
  <2> QED
    BY <1>1, <1>2, <2>1, <2>2 DEF MadeBefore
<1>3. Opened' => MadeBefore(n)'
  BY <1>0, <1>1, <1>2 DEF RttInv, Opened
<1>4. ASSUME NEW j \in 1..(n - 1), taskQueue'[j].kind = "rtt" PROVE MadeBefore(j)'
  BY <1>0, <1>1, <1>2, <1>4 DEF RttInv
<1>5. (Len(taskQueue) + 1)' = n
  BY <1>1
<1> QED
  BY <1>1, <1>3, <1>4, <1>5 DEF RttInv

\* Every step keeps the invariant.
LEMMA RttStep == RttInv /\ [Next]_vars => RttInv'
<1> SUFFICES ASSUME RttInv, [Next]_vars PROVE RttInv'
  OBVIOUS
<1> USE DEF others, peer, network, sendQueue
<1>t. created \in Nat /\ frameLeft \in Nat /\ (added # None => frameLeft > 0)
  BY DEF RttInv
<1>1. ASSUME NEW ice \in IceStates, OnIceState(ice) PROVE RttInv'
  <2>1. UNCHANGED <<created, frameLeft, added, controller>>
    BY <1>1 DEF OnIceState
  <2>2. CASE pcState' \in {"connected", "disconnected", "failed"}
    <3> DEFINE task == [kind |-> "network", ok |-> pcState' = "connected"]
    <3>1. Post(task)
      BY <1>1, <2>2 DEF OnIceState
    <3>2. pcState' = "connected" => Makes(task)
      BY DEF Makes
    <3>3. task.kind # "rtt"
      OBVIOUS
    <3> HIDE DEF task
    <3> QED
      BY <1>t, <2>1, <3>1, <3>2, <3>3, RttPost DEF Opened
  <2>3. CASE pcState' \notin {"connected", "disconnected", "failed"}
    BY <1>1, <1>t, <2>1, <2>3, RttQuiet DEF OnIceState, Opened
  <2> QED
    BY <2>2, <2>3
<1>2. ASSUME NEW count \in 1..MaxPackets, SendEncodedImage(count) PROVE RttInv'
  BY <1>2, <1>t, RttQuiet, TransportSendAssumption
     DEF SendEncodedImage, Opened, TransportSendAssumption
<1>3. CASE AddPacketToTransportFeedback
  <2> DEFINE task == [kind |-> "add", seq |-> Wire(created), time |-> now]
  <2>1. Post(task) /\ task.kind # "rtt" /\ Opened
    BY <1>3, <1>t DEF AddPacketToTransportFeedback, Opened
  <2> HIDE DEF task
  <2> QED
    BY <1>3, <1>t, <2>1, RttPost DEF AddPacketToTransportFeedback
<1>4. CASE EnqueuePacket
  BY <1>4, <1>t, RttQuiet DEF EnqueuePacket, Opened
<1>5. CASE OnTransportFeedback
  <2>1. PICK m \in messages : Post([kind |-> "feedback", message |-> m, time |-> now])
    BY <1>5 DEF OnTransportFeedback
  <2> DEFINE task == [kind |-> "feedback", message |-> m, time |-> now]
  <2>2. Post(task) /\ task.kind # "rtt"
    BY <2>1
  <2> HIDE DEF task
  <2> QED
    BY <1>5, <1>t, <2>2, RttPost DEF OnTransportFeedback, Opened
<1>6. CASE OnNetworkInfo
  <2> DEFINE task == [kind |-> "rtt"]
  <2>1. Post(task) /\ Opened
    BY <1>6, <1>t DEF OnNetworkInfo, Opened
  <2> HIDE DEF task
  <2> QED
    BY <1>6, <1>t, <2>1, RttPost DEF OnNetworkInfo, Opened
<1>7. CASE SendPacket
  BY <1>7, <1>t, RttQuiet DEF SendPacket, Opened
<1>8. CASE OnSentPacket
  <2> DEFINE task == [kind |-> "sent", seq |-> Wire(sending), time |-> now]
  <2>1. Post(task) /\ task.kind # "rtt"
    BY <1>8 DEF OnSentPacket
  <2> HIDE DEF task
  <2> QED
    BY <1>8, <1>t, <2>1, RttPost DEF OnSentPacket, Opened
<1>9. taskQueue # << >> => Head(taskQueue) = taskQueue[1]
  BY QueueBasics DEF RttInv
<1>10. CASE RunAddPacket
  BY <1>9, <1>10, RttRun DEF RunAddPacket, Run, Task, Makes
<1>11. CASE RunSentPacket
  BY <1>9, <1>11, RttRun DEF RunSentPacket, Run, Task, Makes
<1>12. CASE RunTransportFeedback
  BY <1>9, <1>12, RttRun DEF RunTransportFeedback, Run, Task, Makes
<1>13. CASE RunNetworkOk
  BY <1>9, <1>13, RttRun DEF RunNetworkOk, Run, Task, Makes
<1>14. CASE RunRttUpdate
  BY <1>9, <1>14, RttRun DEF RunRttUpdate, Run, Task, Makes
<1>15. ASSUME NEW n \in Packets, Arrive(n) PROVE RttInv'
  BY <1>15, <1>t, RttQuiet DEF Arrive, Opened
<1>16. ASSUME NEW lo \in Packets, NEW hi \in Packets, SendFeedback(lo, hi) PROVE RttInv'
  BY <1>16, <1>t, RttQuiet DEF SendFeedback, Opened
<1>17. CASE Tick
  BY <1>17, <1>t, RttQuiet DEF Tick, Opened
<1>18. CASE UNCHANGED vars
  BY <1>18, <1>t, RttQuiet DEF vars, Opened
<1> QED
  BY <1>1, <1>2, <1>3, <1>4, <1>5, <1>6, <1>7, <1>8, <1>10, <1>11, <1>12, <1>13,
     <1>14, <1>15, <1>16, <1>17, <1>18 DEF Next

\* Whoever sends packets and whatever ICE signals, the task of OnRttUpdate never
\* runs before the one that makes controller_.
THEOREM RttAlwaysFindsController == Spec => []RttFindsController
<1>1. RttInv => RttFindsController
  BY QueueBasics DEF RttInv, RttFindsController, MadeBefore, Task
<1> QED
  BY <1>1, RttInit, RttStep, PTL DEF Spec
-----------------------------------------------------------------------------
(* Numbers on the wire.                                                    *)

\* The packet that seq is the number of, on the wire.
Num(seq) == (seq - FirstSeq) % SeqModulus

\* What the assumptions say of the constants, one by one.
LEMMA ConstantFacts ==
  /\ SeqModulus \in Nat \ {0} /\ FirstSeq \in 0..(SeqModulus - 1)
  /\ MaxPackets \in Nat /\ 2 * MaxPackets < SeqModulus /\ Packets = 0..(MaxPackets - 1)
  /\ WrapPeriod \in Nat \ {0} /\ HistoryWindow \in Nat
  /\ BaseScale \in Nat \ {0} /\ StartTime \in Nat /\ RemoteStart \in Nat /\ MaxTime \in Nat
BY TransportSendAssumption, AdapterAssumption
   DEF TransportSendAssumption, AdapterAssumption, Packets

\* Numbers keep their packets apart, and unwrap to them.
LEMMA WireFacts ==
  ASSUME NEW n \in Packets
  PROVE  /\ Wire(n) \in 0..(SeqModulus - 1)
         /\ Num(Wire(n)) = n
         /\ Wire(0) = FirstSeq
         /\ Packets \subseteq 0..(SeqModulus - 1)
<1> DEFINE m == SeqModulus
<1>1. m \in Nat \ {0} /\ FirstSeq \in 0..(m - 1) /\ n \in 0..(m - 1) /\ n \in Int
      /\ MaxPackets \in Nat /\ 2 * MaxPackets < m
      /\ FirstSeq + n \in Int /\ Packets = 0..(MaxPackets - 1)
  BY ConstantFacts
<1> HIDE DEF m
<1>2. PICK q \in Int : FirstSeq + n = q * m + ((FirstSeq + n) % m)
  BY <1>1, ModFacts
<1>3. (FirstSeq + n) % m \in 0..(m - 1)
  BY <1>1, ModFacts
<1>4. (((FirstSeq + n) % m) - FirstSeq) = (-q) * m + n /\ -q \in Int
  BY <1>1, <1>2, <1>3
<1>5. (((FirstSeq + n) % m) - FirstSeq) % m = n
  BY <1>1, <1>4, ModUnique
<1>6. (FirstSeq + 0) % m = FirstSeq
  <2>1. FirstSeq + 0 = 0 * m + FirstSeq
    BY <1>1
  <2> QED
    BY <1>1, <2>1, ModUnique
<1>7. Packets \subseteq 0..(m - 1)
  BY <1>1
<1> QED
  BY <1>3, <1>5, <1>6, <1>7 DEF Wire, Num, m

\* The number nearest to the last one is the right one, across the wrap.
LEMMA UnwrapFacts ==
  ASSUME NEW n \in Packets, NEW k \in Packets
  PROVE  Unwrap(FirstSeq + k, Wire(n)) = FirstSeq + n
<1> DEFINE m == SeqModulus
           w == Wire(n)
<1>1. /\ m \in Nat \ {0} /\ FirstSeq \in Nat /\ n \in Int /\ k \in Int
      /\ n - k < m /\ k - n < m /\ 2 * (n - k) < m /\ 2 * (k - n) < m
      /\ FirstSeq + k # Never /\ FirstSeq + n \in Int
  BY ConstantFacts DEF Never
<1>2. w \in Int /\ w = (FirstSeq + n) % m
  BY WireFacts DEF Wire
<1> HIDE DEF m, w
<1>3. PICK q \in Int : FirstSeq + n = q * m + w
  <2>1. \E q \in Int : FirstSeq + n = q * m + ((FirstSeq + n) % m)
    BY <1>1, ModFacts
  <2> QED
    BY <1>2, <2>1
<1>4. w - (FirstSeq + k) = (-q) * m + (n - k) /\ -q \in Int
  <2>1. (-q) * m = -(q * m) /\ -q \in Int /\ q * m \in Int
    BY <1>1
  <2>2. w = FirstSeq + n - q * m /\ FirstSeq \in Int
    BY <1>1, <1>2, <1>3, <2>1
  <2> QED
    BY <1>1, <2>1, <2>2
<1>5. CASE k <= n
  <2>1. n - k \in 0..(m - 1)
    BY <1>1, <1>5
  <2>2. (w - (FirstSeq + k)) % m = n - k
    BY <1>1, <1>4, <2>1, ModUnique
  <2>3. 2 * ((w - (FirstSeq + k)) % m) <= m
    BY <1>1, <2>2
  <2>4. Unwrap(FirstSeq + k, w) = FirstSeq + k + (n - k)
    BY <1>1, <2>2, <2>3 DEF Unwrap, m
  <2> QED
    BY <1>1, <2>4 DEF w
<1>6. CASE k > n
  <2>1. m + n - k \in 0..(m - 1)
    BY <1>1, <1>6
  <2>2. w - (FirstSeq + k) = (-q - 1) * m + (m + n - k) /\ -q - 1 \in Int
    BY <1>1, <1>4
  <2>3. (w - (FirstSeq + k)) % m = m + n - k
    BY <1>1, <2>1, <2>2, ModUnique
  <2>4. ~(2 * ((w - (FirstSeq + k)) % m) <= m)
    BY <1>1, <2>3
  <2>5. Unwrap(FirstSeq + k, w) = FirstSeq + k + (m + n - k) - m
    BY <1>1, <2>3, <2>4 DEF Unwrap, m
  <2> QED
    BY <1>1, <2>5 DEF w
<1> QED
  BY <1>1, <1>5, <1>6

-----------------------------------------------------------------------------
(* Where the packets are.                                                  *)

Issued == 0..(created - 1)
Times == StartTime..now
Arrivals == RemoteStart..(RemoteStart + MaxTime)

\* The packet has left the pacer for good.
Left(n) == n \in Issued /\ n # added /\ n \notin Tasks(pacer)

\* SendEncodedImage creates the packets of a frame one after the other.
CreatingInv ==
  /\ now \in StartTime..(StartTime + MaxTime)
  /\ pcState \in {"new", "connecting", "connected", "disconnected", "failed", "closed"}
  /\ created \in 0..MaxPackets /\ frameLeft \in 0..MaxPackets
  /\ created + frameLeft <= MaxPackets + (IF added = None THEN 0 ELSE 1)
  /\ added # None => added \in Issued /\ frameLeft > 0

\* A packet is in one place at a time.
PlaceInv ==
  /\ pacer \in Seq(Packets) /\ Tasks(pacer) \subseteq Issued \ {added}
  /\ \A i, j \in 1..Len(pacer) : pacer[i] = pacer[j] => i = j
  /\ sending # None => Left(sending)
  /\ onWire \subseteq Packets /\ \A n \in onWire : Left(n)

\* What is known of the packets that were sent or have arrived.
TimesInv ==
  /\ sentAt \in [Packets -> Times \cup {Never}]
  /\ \A n \in Packets : sentAt[n] # Never => Left(n) /\ n # sending
  /\ arrival \in [Packets -> Arrivals \cup {Never}]
  /\ \A n \in Packets : arrival[n] # Never => Left(n) /\ n \notin onWire

OrderInv == CreatingInv /\ PlaceInv /\ TimesInv

\* What a step leaves behind: more packets and times, and all that was known.
Grows ==
  /\ Issued \subseteq Issued' /\ Times \subseteq Times'
  /\ \A n \in Packets : sentAt[n] # Never => sentAt'[n] = sentAt[n]
  /\ \A n \in Packets : arrival[n] # Never => arrival'[n] = arrival[n]

\* No packet is anywhere yet.
LEMMA OrderInit == Init => OrderInv
<1> SUFFICES ASSUME Init PROVE OrderInv
  OBVIOUS
<1> USE ConstantFacts
<1>1. CreatingInv
  BY DEF Init, CreatingInv, None
<1>2. PlaceInv
  <2>1. pacer \in Seq(Packets) /\ Len(pacer) = 0 /\ pacer = << >>
    BY DEF Init
  <2>2. Tasks(pacer) = {}
    BY <2>1, ListedTasks
  <2> QED
    BY <2>1, <2>2 DEF Init, PlaceInv
<1>3. TimesInv
  BY DEF Init, TimesInv
<1> QED
  BY <1>1, <1>2, <1>3 DEF OrderInv

\* A step that moves no packet.
LEMMA OrderQuiet ==
  ASSUME OrderInv, UNCHANGED <<created, added, pacer, sending, sentAt, onWire, arrival>>,
         CreatingInv', Times \subseteq Times'
  PROVE  OrderInv' /\ Grows
<1>1. PlaceInv' /\ Issued' = Issued
  BY DEF OrderInv, PlaceInv, Left, Issued
<1>2. TimesInv'
  <2>1. (sentAt \in [Packets -> Times \cup {Never}])'
    BY DEF OrderInv, TimesInv
  <2> QED
    BY <2>1 DEF OrderInv, TimesInv, Left, Issued
<1>3. Grows
  BY <1>1 DEF Grows
<1> QED
  BY <1>1, <1>2, <1>3 DEF OrderInv

\* Packets move from creation to the network, one place at a time.
LEMMA OrderStep == OrderInv /\ [Next]_vars => OrderInv' /\ Grows
<1> SUFFICES ASSUME OrderInv, [Next]_vars PROVE OrderInv' /\ Grows
  OBVIOUS
<1> USE ConstantFacts DEF others, peer, network, sendQueue
<1>c. CreatingInv /\ PlaceInv /\ TimesInv
  BY DEF OrderInv
<1>a. ASSUME UNCHANGED <<now, created, frameLeft, added, pacer, sending, sentAt, onWire, arrival, pcState>>
      PROVE  OrderInv' /\ Grows
  <2>1. CreatingInv' /\ Times' = Times
    BY <1>a, <1>c DEF CreatingInv, Issued, Times
  <2> QED
    BY <1>a, <2>1, OrderQuiet
<1>1. ASSUME NEW ice \in IceStates, OnIceState(ice) PROVE OrderInv' /\ Grows
  <2>1. pcState' \in {"new", "connecting", "connected", "disconnected", "failed", "closed"}
    BY <1>1, TransportSendAssumption DEF TransportSendAssumption, OnIceState, PcState
  <2>2. UNCHANGED <<now, created, frameLeft, added, pacer, sending, sentAt, onWire, arrival>>
    BY <1>1 DEF OnIceState
  <2>3. CreatingInv' /\ Times' = Times
    BY <1>c, <2>1, <2>2 DEF CreatingInv, Issued, Times
  <2> QED
    BY <2>2, <2>3, OrderQuiet
<1>2. ASSUME NEW count \in 1..MaxPackets, SendEncodedImage(count) PROVE OrderInv' /\ Grows
  <2>2. UNCHANGED <<now, pcState, created, added, pacer, sending, sentAt, onWire, arrival>>
    BY <1>2 DEF SendEncodedImage
  <2>3. CreatingInv' /\ Times' = Times
    BY <1>c, <1>2, <2>2 DEF SendEncodedImage, Idle, CreatingInv, Issued, Times
  <2> QED
    BY <2>2, <2>3, OrderQuiet
<1>3. CASE AddPacketToTransportFeedback
  <2>1. /\ frameLeft > 0 /\ added = None /\ added' = created /\ created' = created + 1
        /\ UNCHANGED <<now, pcState, frameLeft, pacer, sending, sentAt, onWire, arrival>>
    BY <1>3 DEF AddPacketToTransportFeedback
  <2>2. Issued' = Issued \cup {created} /\ created \notin Issued /\ created # None
        /\ None \notin Issued /\ Times' = Times
    BY <1>c, <2>1 DEF CreatingInv, Issued, Times, None
  <2>3. CreatingInv'
    BY <1>c, <2>1, <2>2 DEF CreatingInv, Issued
  <2>4. \A n : Left(n) => Left(n)'
    BY <2>1, <2>2 DEF Left
  <2>5. PlaceInv'
    BY <1>c, <2>1, <2>2, <2>4 DEF PlaceInv
  <2>6. TimesInv'
    BY <1>c, <2>1, <2>2, <2>4 DEF TimesInv
  <2>7. Grows
    BY <2>1, <2>2 DEF Grows
  <2> QED
    BY <2>3, <2>5, <2>6, <2>7 DEF OrderInv
<1>4. CASE EnqueuePacket
  <2>1. /\ added # None /\ pacer' = Append(pacer, added) /\ added' = None
        /\ frameLeft' = frameLeft - 1
        /\ UNCHANGED <<now, pcState, created, sending, sentAt, onWire, arrival>>
    BY <1>4 DEF EnqueuePacket
  <2>2. Issued' = Issued /\ Times' = Times /\ None \notin Issued /\ Issued \subseteq Packets
    BY <1>c, <2>1 DEF CreatingInv, Issued, Times, None
  <2>3. CreatingInv'
    BY <1>c, <2>1, <2>2 DEF CreatingInv, Issued
  <2>4. /\ IsQueue(pacer) /\ Tasks(pacer') = Tasks(pacer) \cup {added}
        /\ Len(pacer) \in Nat /\ Len(pacer') = Len(pacer) + 1
        /\ pacer'[Len(pacer) + 1] = added /\ \A i \in 1..Len(pacer) : pacer'[i] = pacer[i]
    <3>1. IsQueue(pacer)
      BY <1>c DEF PlaceInv, IsQueue
    <3> QED
      BY <2>1, <3>1, TasksAfter, AppendFacts, QueueBasics
  <2>5. \A n : Left(n) => Left(n)'
    BY <2>1, <2>2, <2>4 DEF Left
  <2>6. PlaceInv'
    <3>1. pacer' \in Seq(Packets)
      <4>1. added \in Packets
        BY <1>c, <2>1, <2>2 DEF CreatingInv
      <4>2. pacer \in Seq(Packets)
        BY <1>c DEF PlaceInv
      <4> HIDE ConstantFacts
      <4> QED
        BY <2>1, <4>1, <4>2, AppendProperties
    <3>2. (Tasks(pacer) \subseteq Issued \ {added})'
      BY <1>c, <2>1, <2>2, <2>4 DEF PlaceInv, CreatingInv
    <3>3. \A i \in 1..Len(pacer) : pacer[i] # added
      BY <1>c DEF PlaceInv, Tasks
    <3>4. ASSUME NEW i \in 1..(Len(pacer) + 1), NEW j \in 1..(Len(pacer) + 1), pacer'[i] = pacer'[j]
          PROVE  i = j
      <4>1. CASE i \in 1..Len(pacer) /\ j \in 1..Len(pacer)
        BY <1>c, <2>4, <3>4, <4>1 DEF PlaceInv
      <4>2. CASE i = Len(pacer) + 1 \/ j = Len(pacer) + 1
        BY <2>4, <3>3, <3>4, <4>2
      <4> QED
        BY <2>4, <4>1, <4>2
    <3> QED
      BY <1>c, <2>1, <2>4, <2>5, <3>1, <3>2, <3>4 DEF PlaceInv
  <2>7. TimesInv'
    BY <1>c, <2>1, <2>2, <2>5 DEF TimesInv
  <2>8. Grows
    BY <2>1, <2>2 DEF Grows
  <2> QED
    BY <2>3, <2>6, <2>7, <2>8 DEF OrderInv
<1>5. CASE OnTransportFeedback
  BY <1>a, <1>5 DEF OnTransportFeedback
<1>6. CASE OnNetworkInfo
  BY <1>a, <1>6 DEF OnNetworkInfo
<1>7. CASE SendPacket
  <2>0. PICK h : h = Head(pacer)
    OBVIOUS
  <2>1. /\ sending = None /\ pacer # << >> /\ pacer' = Tail(pacer)
        /\ \/ onWire' = onWire \cup {h} /\ sending' = h
           \/ UNCHANGED <<onWire, sending>>
        /\ UNCHANGED <<now, pcState, created, frameLeft, added, sentAt, arrival>>
    BY <1>7, <2>0 DEF SendPacket
  <2>2. Issued' = Issued /\ Times' = Times /\ None \notin Packets /\ Issued \subseteq Packets
    BY <1>c, <2>1 DEF CreatingInv, Issued, Times, None
  <2>3. CreatingInv'
    BY <1>c, <2>1, <2>2 DEF CreatingInv
  <2>4. /\ Len(pacer) \in Nat \ {0} /\ Len(pacer') = Len(pacer) - 1
        /\ h = pacer[1]
        /\ \A i \in 1..(Len(pacer) - 1) : pacer'[i] = pacer[i + 1]
        /\ Tasks(pacer) = Tasks(pacer') \cup {h}
    <3>1. IsQueue(pacer)
      BY <1>c DEF PlaceInv, IsQueue
    <3> QED
      BY <2>0, <2>1, <3>1, TasksAfter, TailFacts
  <2>5. h \notin Tasks(pacer')
    <3> SUFFICES ASSUME NEW i \in 1..(Len(pacer) - 1), pacer'[i] = pacer[1] PROVE FALSE
      BY <2>4 DEF Tasks
    <3>1. i + 1 \in 1..Len(pacer) /\ 1 \in 1..Len(pacer) /\ i + 1 # 1
      BY <2>4
    <3> QED
      BY <1>c, <2>4, <3>1 DEF PlaceInv
  <2>6. h \in Issued /\ h # added /\ h \in Tasks(pacer)
    BY <1>c, <2>4 DEF PlaceInv
  <2>7. (\A n : Left(n) => Left(n)') /\ Left(h)'
    BY <2>1, <2>2, <2>4, <2>5, <2>6 DEF Left
  <2>8. PlaceInv'
    <3>1. pacer' \in Seq(Packets)
      <4>1. pacer \in Seq(Packets)
        BY <1>c DEF PlaceInv
      <4>2. \A S : pacer \in Seq(S) => Tail(pacer) \in Seq(S)
        BY <2>1
      <4> QED
        BY <2>1, <4>1, <4>2
    <3>2. (Tasks(pacer) \subseteq Issued \ {added})'
      BY <1>c, <2>1, <2>2, <2>4 DEF PlaceInv
    <3>3. ASSUME NEW i \in 1..(Len(pacer) - 1), NEW j \in 1..(Len(pacer) - 1), pacer'[i] = pacer'[j]
          PROVE  i = j
      <4>1. i + 1 \in 1..Len(pacer) /\ j + 1 \in 1..Len(pacer) /\ (i + 1 = j + 1 => i = j)
        BY <2>4
      <4> QED
        BY <1>c, <2>4, <3>3, <4>1 DEF PlaceInv
    <3>4. (\A i, j \in 1..Len(pacer) : pacer[i] = pacer[j] => i = j)'
      BY <2>4, <3>3
    <3>5. (sending # None => Left(sending))'
      BY <2>1, <2>7
    <3>6. onWire' \subseteq Packets /\ (\A n \in onWire : Left(n))'
      BY <1>c, <2>1, <2>2, <2>6, <2>7 DEF PlaceInv
    <3> QED
      BY <3>1, <3>2, <3>4, <3>5, <3>6 DEF PlaceInv
  <2>9. TimesInv'
    <3>0. sending' \in {sending, h} /\ onWire' \subseteq onWire \cup {h}
      BY <2>1
    <3>1. ASSUME NEW n \in Packets, sentAt[n] # Never \/ arrival[n] # Never
          PROVE  Left(n)' /\ n # h /\ n # None
      <4>1. Left(n)
        BY <1>c, <3>1 DEF TimesInv
      <4> QED
        BY <2>2, <2>6, <2>7, <4>1 DEF Left
    <3>2. \A n \in Packets : sentAt[n] # Never => Left(n)' /\ n # sending'
      BY <2>1, <3>0, <3>1
    <3>3. \A n \in Packets : arrival[n] # Never => Left(n)' /\ n \notin onWire'
      BY <1>c, <3>0, <3>1 DEF TimesInv
    <3>4. UNCHANGED <<sentAt, arrival>>
      BY <2>1
    <3> QED
      BY <1>c, <2>2, <3>2, <3>3, <3>4 DEF TimesInv
  <2>10. Grows
    BY <2>1, <2>2 DEF Grows
  <2> QED
    BY <2>3, <2>8, <2>9, <2>10 DEF OrderInv
<1>8. CASE OnSentPacket
  <2>1. /\ sending # None /\ sentAt' = [sentAt EXCEPT ![sending] = now] /\ sending' = None
        /\ UNCHANGED <<now, pcState, created, frameLeft, added, pacer, onWire, arrival>>
    BY <1>8 DEF OnSentPacket
  <2>2. Issued' = Issued /\ Times' = Times /\ None \notin Packets /\ Issued \subseteq Packets
        /\ now \in Times
    BY <1>c, <2>1 DEF CreatingInv, Issued, Times, None
  <2>3. CreatingInv'
    BY <1>c, <2>1, <2>2 DEF CreatingInv
  <2>4. \A n : Left(n)' = Left(n)
    BY <2>1, <2>2 DEF Left
  <2>5. PlaceInv'
    BY <1>c, <2>1, <2>2, <2>4 DEF PlaceInv
  <2>6. sending \in Packets /\ Left(sending) /\ sentAt[sending] = Never
    BY <1>c, <2>1, <2>2 DEF PlaceInv, TimesInv, Left
  <2>7. TimesInv'
    BY <1>c, <2>1, <2>2, <2>4, <2>6 DEF TimesInv
  <2>8. Grows
    BY <1>c, <2>1, <2>2, <2>6 DEF Grows, TimesInv
  <2> QED
    BY <2>3, <2>5, <2>7, <2>8 DEF OrderInv
<1>9. CASE RunAddPacket \/ RunSentPacket \/ RunTransportFeedback \/ RunNetworkOk \/ RunRttUpdate
  BY <1>a, <1>9 DEF RunAddPacket, RunSentPacket, RunTransportFeedback, RunNetworkOk, RunRttUpdate
<1>10. ASSUME NEW n \in Packets, Arrive(n) PROVE OrderInv' /\ Grows
  <2>1. /\ n \in onWire /\ onWire' = onWire \ {n}
        /\ arrival' = [arrival EXCEPT ![n] = RemoteStart + now - StartTime]
        /\ UNCHANGED <<now, pcState, created, frameLeft, added, pacer, sending, sentAt>>
    BY <1>10 DEF Arrive
  <2>2. Issued' = Issued /\ Times' = Times /\ RemoteStart + now - StartTime \in Arrivals
    BY <1>c, <2>1 DEF CreatingInv, Issued, Times, Arrivals
  <2>3. CreatingInv'
    BY <1>c, <2>1, <2>2 DEF CreatingInv
  <2>4. \A k : Left(k)' = Left(k)
    BY <2>1, <2>2 DEF Left
  <2>5. PlaceInv'
    BY <1>c, <2>1, <2>2, <2>4 DEF PlaceInv
  <2>6. Left(n) /\ arrival[n] = Never
    BY <1>c, <2>1 DEF PlaceInv, TimesInv
  <2>7. TimesInv'
    <3>1. arrival' \in [Packets -> Arrivals \cup {Never}]
      BY <1>c, <2>1, <2>2 DEF TimesInv
    <3>2. ASSUME NEW k \in Packets, arrival'[k] # Never PROVE Left(k) /\ k \notin onWire'
      BY <1>c, <2>1, <2>6, <3>2 DEF TimesInv
    <3> QED
      BY <1>c, <2>1, <2>2, <2>4, <3>1, <3>2 DEF TimesInv
  <2>8. Grows
    BY <1>c, <2>1, <2>2, <2>6 DEF Grows, TimesInv
  <2> QED
    BY <2>3, <2>5, <2>7, <2>8 DEF OrderInv
<1>11. ASSUME NEW lo \in Packets, NEW hi \in Packets, SendFeedback(lo, hi) PROVE OrderInv' /\ Grows
  BY <1>a, <1>11 DEF SendFeedback
<1>12. CASE Tick
  <2>1. /\ now' = now + 1 /\ now < StartTime + MaxTime
        /\ UNCHANGED <<pcState, created, frameLeft, added, pacer, sending, sentAt, onWire, arrival>>
    BY <1>12 DEF Tick
  <2>2. CreatingInv' /\ Times \subseteq Times'
    BY <1>c, <2>1 DEF CreatingInv, Issued, Times
  <2> QED
    BY <2>1, <2>2, OrderQuiet
<1>13. CASE UNCHANGED vars
  BY <1>a, <1>13 DEF vars
<1> QED
  BY <1>1, <1>2, <1>3, <1>4, <1>5, <1>6, <1>7, <1>8, <1>9, <1>10, <1>11, <1>12, <1>13 DEF Next

-----------------------------------------------------------------------------
(* What a receiver says.                                                   *)

IsWire(seq) == Num(seq) \in Issued /\ seq = Wire(Num(seq))
Bases == (RemoteStart - BaseScale + 1)..(RemoteStart + MaxTime)
Status == [seq : 0..(SeqModulus - 1), received : BOOLEAN, delta : Int]

\* t[k] is when the last of the first k packets that were received arrived.
Tells(statuses, t) ==
  \A k \in 1..Len(statuses) :
     /\ t[k] = t[k - 1] + (IF statuses[k].received THEN statuses[k].delta ELSE 0)
     /\ statuses[k].received =>
          /\ arrival[Num(statuses[k].seq)] # Never
          /\ t[k] = arrival[Num(statuses[k].seq)]

\* A message of the receiver: what it says of packets that were issued is true.
MessageOK(m) ==
  /\ m.trueBase \in Bases /\ m.base = m.trueBase % WrapPeriod
  /\ m.statuses \in Seq(Status) /\ Len(m.statuses) > 0
  /\ \A k \in 1..Len(m.statuses) : IsWire(m.statuses[k].seq)
  /\ \E t \in [0..Len(m.statuses) -> Bases] : t[0] = m.trueBase /\ Tells(m.statuses, t)

\* The packets created so far are packets, and times are numbers.
LEMMA IssuedFacts ==
  ASSUME OrderInv
  PROVE  Issued \subseteq Packets /\ Times \subseteq Nat /\ created \in Nat
BY ConstantFacts DEF OrderInv, CreatingInv, Issued, Times

\* A true message stays true.
LEMMA MessageGrows ==
  ASSUME NEW m, OrderInv, MessageOK(m), Grows
  PROVE  MessageOK(m)'
<1>1. PICK t \in [0..Len(m.statuses) -> Bases] : t[0] = m.trueBase /\ Tells(m.statuses, t)
  BY DEF MessageOK
<1>2. \A k \in 1..Len(m.statuses) : IsWire(m.statuses[k].seq)
  BY DEF MessageOK
<1>3. (\A k \in 1..Len(m.statuses) : IsWire(m.statuses[k].seq))'
  BY <1>2 DEF IsWire, Grows
<1>4. ASSUME NEW k \in 1..Len(m.statuses), m.statuses[k].received
      PROVE  /\ arrival[Num(m.statuses[k].seq)] # Never
             /\ arrival'[Num(m.statuses[k].seq)] = arrival[Num(m.statuses[k].seq)]
  <2>1. Num(m.statuses[k].seq) \in Packets
    BY <1>2, IssuedFacts DEF IsWire
  <2> QED
    BY <1>1, <1>4, <2>1 DEF Tells, Grows
<1>5. Tells(m.statuses, t)'
  BY <1>1, <1>4 DEF Tells
<1> QED
  BY <1>1, <1>3, <1>5 DEF MessageOK

\* A receiver tells what it saw.
LEMMA FeedbackOK ==
  ASSUME OrderInv, NEW lo \in Packets, NEW hi \in Packets, lo <= hi, arrival[hi] # Never
  PROVE  MessageOK(Feedback(lo, hi))
<1> DEFINE received == {n \in lo..hi : arrival[n] # Never}
           first == Min(received)
           base == (arrival[first] \div BaseScale) * BaseScale
           before(n) == IF n = first THEN base
                        ELSE arrival[Max({m \in received : m < n})]
           status(n) == [seq |-> Wire(n), received |-> n \in received,
                         delta |-> IF n \in received THEN arrival[n] - before(n) ELSE 0]
           len == hi - lo + 1
           m == Feedback(lo, hi)
<1>0. /\ lo \in Nat /\ hi \in Nat /\ len \in Nat /\ Packets \subseteq Int
      /\ RemoteStart \in Nat /\ MaxTime \in Nat /\ BaseScale \in Nat \ {0}
      /\ Arrivals \subseteq Bases /\ Bases \subseteq Int /\ lo..hi \subseteq Packets
  BY ConstantFacts DEF Arrivals, Bases
<1>1. hi \in Issued /\ lo..hi \subseteq Issued
  <2>1. hi \in Issued
    BY DEF OrderInv, TimesInv, Left
  <2> QED
    BY <1>0, <2>1, IssuedFacts DEF Issued
<1>2. \A n \in received : n \in Packets /\ n \in lo..hi /\ arrival[n] \in Arrivals /\ n \in Int
  BY <1>0 DEF OrderInv, TimesInv
<1>3. received \in SUBSET (lo..hi) /\ received # {}
  BY <1>0
<1>4. first \in received /\ \A n \in received : first <= n
  BY <1>0, <1>3, Extremes
<1>5. base \in Bases /\ base <= arrival[first]
  <2>1. arrival[first] \in Nat /\ arrival[first] \in Arrivals
    BY <1>0, <1>2, <1>4 DEF Arrivals
  <2> DEFINE x == arrival[first]
  <2>2. x \in Nat /\ x \in Arrivals
    BY <2>1
  <2> HIDE DEF x
  <2>3. (x \div BaseScale) * BaseScale \in (x - BaseScale + 1)..x
    BY <1>0, <2>2
  <2>4. (x \div BaseScale) * BaseScale \in Bases
    BY <1>0, <2>2, <2>3 DEF Arrivals, Bases
  <2> QED
    BY <1>0, <2>2, <2>3, <2>4 DEF x
<1>6. \A n \in received : n # first =>
         LET r == {k \in received : k < n}
         IN  /\ Max(r) \in r
             /\ \A k \in r : Max(r) >= k
  <2> SUFFICES ASSUME NEW n \in received, n # first
               PROVE  LET r == {k \in received : k < n}
                      IN  /\ Max(r) \in r
                          /\ \A k \in r : Max(r) >= k
    OBVIOUS
  <2> DEFINE r == {k \in received : k < n}
  <2>1. first \in r /\ r \in SUBSET (lo..hi)
    <3>1. first < n
      BY <1>2, <1>4
    <3> QED
      BY <1>3, <1>4, <3>1
  <2> HIDE DEF r
  <2>2. Max(r) \in r /\ \A k \in r : Max(r) >= k
    BY <1>0, <2>1, Extremes
  <2> QED
    BY <2>2 DEF r
<1>7. m = [base |-> base % WrapPeriod, trueBase |-> base,
           statuses |-> [i \in 1..len |-> status(lo + i - 1)]]
  BY DEF Feedback
<1>8. \A n \in received : before(n) \in Int
  BY <1>0, <1>2, <1>5, <1>6
<1>9. \A i \in 1..len : lo + i - 1 \in lo..hi /\ lo + i - 1 \in Issued /\ lo + i - 1 \in Packets
  BY <1>0, <1>1
<1> HIDE DEF m
<1>10. \A i \in 1..len : status(lo + i - 1) \in Status
  <2> SUFFICES ASSUME NEW i \in 1..len PROVE status(lo + i - 1) \in Status
    OBVIOUS
  <2> DEFINE n == lo + i - 1
  <2>1. n \in Packets /\ Wire(n) \in 0..(SeqModulus - 1)
    BY <1>9, WireFacts
  <2>2. n \in received => arrival[n] - before(n) \in Int
    BY <1>0, <1>2, <1>8
  <2> HIDE DEF n, received, before
  <2> QED
    BY <2>1, <2>2 DEF Status, n
<1>11. /\ m.statuses \in Seq(Status) /\ Len(m.statuses) = len
       /\ \A i \in 1..len : m.statuses[i] = status(lo + i - 1)
       /\ m.trueBase = base /\ m.base = base % WrapPeriod
  <2> DEFINE ss == [i \in 1..len |-> status(lo + i - 1)]
  <2>1. ss \in [1..len -> Status] /\ \A i \in 1..len : ss[i] = status(lo + i - 1)
    BY <1>10
  <2> HIDE DEF ss, status, base
  <2>2. ss \in Seq(Status) /\ Len(ss) = len
    BY <1>0, <2>1
  <2>3. m.statuses = ss /\ m.trueBase = base /\ m.base = base % WrapPeriod
    BY <1>7 DEF ss
  <2> QED
    BY <2>1, <2>2, <2>3
<1>12. \A i \in 1..len : /\ m.statuses[i].seq = Wire(lo + i - 1)
                         /\ m.statuses[i].received = (lo + i - 1 \in received)
                         /\ lo + i - 1 \in received =>
                              m.statuses[i].delta = arrival[lo + i - 1] - before(lo + i - 1)
                         /\ Num(m.statuses[i].seq) = lo + i - 1
  <2> SUFFICES ASSUME NEW i \in 1..len
               PROVE  /\ m.statuses[i].seq = Wire(lo + i - 1)
                      /\ m.statuses[i].received = (lo + i - 1 \in received)
                      /\ lo + i - 1 \in received =>
                           m.statuses[i].delta = arrival[lo + i - 1] - before(lo + i - 1)
                      /\ Num(m.statuses[i].seq) = lo + i - 1
    OBVIOUS
  <2> DEFINE n == lo + i - 1
  <2>1. n \in Packets /\ m.statuses[i] = status(n)
    BY <1>9, <1>11
  <2>2. Num(Wire(n)) = n
    BY <2>1, WireFacts
  <2> HIDE DEF n, received, before
  <2> QED
    BY <2>1, <2>2 DEF n
<1>19. Len(m.statuses) > 0
  BY <1>0, <1>11
<1>13. \A i \in 1..Len(m.statuses) : IsWire(m.statuses[i].seq)
  BY <1>9, <1>11, <1>12, ZenonT(60) DEF IsWire
<1> DEFINE upto(k) == {n \in received : n <= lo + k - 1}
           t == [k \in 0..len |-> IF upto(k) = {} THEN base ELSE arrival[Max(upto(k))]]
<1>14. \A k \in 0..len : upto(k) # {} => Max(upto(k)) \in upto(k)
  <2> SUFFICES ASSUME NEW k \in 0..len, upto(k) # {} PROVE Max(upto(k)) \in upto(k)
    OBVIOUS
  <2>1. upto(k) \in SUBSET (lo..hi)
    BY <1>3
  <2> HIDE DEF upto
  <2> QED
    BY <1>0, <2>1, Extremes
<1>15. t \in [0..len -> Bases]
  <2> HIDE DEF upto
  <2>1. \A k \in 0..len : upto(k) # {} => Max(upto(k)) \in received
    BY <1>14 DEF upto
  <2> HIDE DEF received, base
  <2> QED
    BY <1>0, <1>2, <1>5, <2>1
<1>16. t[0] = base
  <2>1. upto(0) = {}
    BY <1>0, <1>2
  <2> QED
    BY <1>0, <2>1
<1>17. ASSUME NEW k \in 1..len
       PROVE  /\ t[k] = t[k - 1] + (IF m.statuses[k].received THEN m.statuses[k].delta ELSE 0)
              /\ m.statuses[k].received =>
                   arrival[Num(m.statuses[k].seq)] # Never /\ t[k] = arrival[Num(m.statuses[k].seq)]
  <2>0. k \in 0..len /\ k - 1 \in 0..len /\ t[k] \in Bases /\ t[k - 1] \in Bases
    <3>1. k \in 0..len /\ k - 1 \in 0..len
      BY <1>0
    <3> HIDE DEF t
    <3> QED
      BY <1>15, <3>1
  <2> DEFINE n == lo + k - 1
  <2>a. n \in Int /\ n = lo + k - 1
    BY <1>0
  <2>1. CASE n \notin received
    <3>1. upto(k) = upto(k - 1)
      <4>1. \A x \in received : x # n
        BY <2>1
      <4>2. \A x \in received : x <= lo + k - 1 <=> x <= lo + (k - 1) - 1
        BY <1>0, <1>2, <2>a, <4>1
      <4> QED
        BY <4>2
    <3>2. t[k] = t[k - 1]
      BY <2>0, <3>1
    <3>3. ~m.statuses[k].received
      <4>1. m.statuses[k].received = (n \in received)
        BY <1>12, Zenon
      <4> QED
        BY <2>1, <4>1, Zenon
    <3>4. t[k] \in Int /\ t[k - 1] \in Int
      BY <1>0, <2>0
    <3> HIDE DEF t
    <3> QED
      BY <3>2, <3>3, <3>4
  <2>2. CASE n \in received
    <3>1. n \in upto(k) /\ Max(upto(k)) = n
      <4>1. n \in upto(k) /\ \A x \in upto(k) : x \in Int /\ x <= n
        BY <1>2, <2>2, <2>a
      <4> HIDE DEF upto
      <4> QED
        BY <2>a, <4>1, MaxIs
    <3>2. t[k] = arrival[n]
      BY <2>0, <3>1
    <3>3. t[k - 1] = before(n)
      <4>1. CASE n = first
        <5>1. upto(k - 1) = {}
          BY <1>0, <1>2, <1>4, <2>a, <4>1
        <5> QED
          BY <2>0, <4>1, <5>1
      <4>2. CASE n # first
        <5>1. upto(k - 1) = {x \in received : x < n}
          BY <1>0, <1>2, <2>a
        <5>2. first \in upto(k - 1)
          <6>1. first < n
            BY <1>2, <1>4, <2>2, <4>2
          <6> QED
            BY <1>4, <5>1, <6>1
        <5>3. t[k - 1] = arrival[Max(upto(k - 1))]
          BY <2>0, <5>2
        <5> QED
          BY <4>2, <5>1, <5>3
      <4> QED
        BY <4>1, <4>2
    <3>4. m.statuses[k].received /\ m.statuses[k].delta = arrival[n] - before(n)
          /\ Num(m.statuses[k].seq) = n
      BY <1>12, <2>2
    <3>5. arrival[n] # Never /\ arrival[n] \in Int /\ before(n) \in Int
      BY <1>0, <1>2, <1>8, <2>2
    <3> HIDE DEF t, before, n, received
    <3> QED
      BY <3>2, <3>3, <3>4, <3>5
  <2> QED
    BY <2>1, <2>2
<1>18. Tells(m.statuses, t)
  <2> HIDE DEF t
  <2> QED
    BY <1>11, <1>17 DEF Tells
<1> HIDE DEF t, base
<1> QED
  BY <1>5, <1>11, <1>13, <1>15, <1>16, <1>18, <1>19 DEF MessageOK, m

-----------------------------------------------------------------------------
(* The tasks of rtp_send.                                                  *)

Adds(j) == taskQueue[j].kind = "add"
About(j) == Num(taskQueue[j].seq)
Reads(task) == task.kind \in {"add", "sent", "feedback"}

\* What a task of the rtp_send queue says is true when it is posted, and stays so.
TaskOK(task) ==
  /\ task.kind \in {"add", "sent"} => IsWire(task.seq) /\ task.time \in Times
  /\ task.kind = "sent" => task.time = sentAt[Num(task.seq)]
  /\ task.kind = "feedback" => MessageOK(task.message) /\ task.time \in Times

\* Up to task j of the queue, a number has been unwrapped or is the first one.
FirstAdded(j) == adapter.lastSeq # Never \/ \E i \in 1..j : Adds(i) /\ About(i) = 0

TasksInv ==
  /\ IsQueue(taskQueue)
  /\ \A m \in messages : MessageOK(m)
  /\ \A j \in 1..Len(taskQueue) : TaskOK(taskQueue[j])
  /\ \A i, j \in 1..Len(taskQueue) : i < j /\ Adds(i) /\ Adds(j) =>
        About(i) < About(j) /\ taskQueue[i].time <= taskQueue[j].time
  /\ created > 0 => FirstAdded(Len(taskQueue))
  /\ \A j \in 1..Len(taskQueue) : Reads(taskQueue[j]) => FirstAdded(j)

\* The queue starts empty.
LEMMA TasksInit == Init => TasksInv
<1> SUFFICES ASSUME Init PROVE TasksInv
  OBVIOUS
<1>1. taskQueue = << >> /\ Len(taskQueue) = 0 /\ IsQueue(taskQueue)
  BY ListedTasks DEF Init
<1> QED
  BY <1>1 DEF Init, TasksInv

\* What a task says stays true.
LEMMA TaskGrows ==
  ASSUME NEW task, OrderInv, TaskOK(task), Grows
  PROVE  TaskOK(task)'
<1>1. task.kind \in {"add", "sent"} => IsWire(task.seq)' /\ task.time \in Times'
  BY DEF TaskOK, Grows, IsWire
<1>2. task.kind = "sent" => task.time = sentAt'[Num(task.seq)]
  <2> SUFFICES ASSUME task.kind = "sent" PROVE task.time = sentAt'[Num(task.seq)]
    OBVIOUS
  <2>1. Num(task.seq) \in Packets /\ task.time \in Times /\ task.time = sentAt[Num(task.seq)]
    BY IssuedFacts DEF TaskOK, IsWire
  <2>2. task.time # Never
    BY <2>1, IssuedFacts DEF Never
  <2> QED
    BY <2>1, <2>2 DEF Grows
<1>3. task.kind = "feedback" => MessageOK(task.message)' /\ task.time \in Times'
  BY MessageGrows DEF TaskOK, Grows
<1> QED
  BY <1>1, <1>2, <1>3 DEF TaskOK

\* A step that leaves the queue alone.
LEMMA TasksQuiet ==
  ASSUME OrderInv, TasksInv, Grows, UNCHANGED <<taskQueue, created>>,
         adapter.lastSeq # Never => adapter'.lastSeq # Never,
         (\A m \in messages : MessageOK(m))'
  PROVE  TasksInv'
<1>1. (\A j \in 1..Len(taskQueue) : TaskOK(taskQueue[j]))'
  BY TaskGrows DEF TasksInv
<1>2. \A j : FirstAdded(j) => FirstAdded(j)'
  BY DEF FirstAdded, Adds, About
<1>3. IsQueue(taskQueue')
  BY DEF TasksInv
<1> QED
  BY <1>1, <1>2, <1>3 DEF TasksInv, Adds, About

\* A step that posts a task.
LEMMA TasksPost ==
  ASSUME OrderInv, TasksInv, Grows, NEW task, Post(task), UNCHANGED adapter,
         messages' \subseteq messages, TaskOK(task)',
         created' > 0 => created > 0 \/ (task.kind = "add" /\ Num(task.seq) = 0),
         Reads(task) => created' > 0,
         task.kind = "add" => Num(task.seq) = created /\ task.time = now
  PROVE  TasksInv'
<1>0. PICK n : n = Len(taskQueue)
  OBVIOUS
<1>1. /\ IsQueue(taskQueue') /\ n \in Nat /\ Len(taskQueue') = n + 1
      /\ taskQueue'[n + 1] = task
      /\ \A i \in 1..n : taskQueue'[i] = taskQueue[i]
  BY <1>0, QueueBasics, AppendFacts DEF TasksInv, Post
<1>2. (\A m \in messages : MessageOK(m))'
  BY MessageGrows DEF TasksInv
<1>3. \A j \in 1..(n + 1) : j \in 1..n \/ j = n + 1
  BY <1>1
<1>4. (\A j \in 1..Len(taskQueue) : TaskOK(taskQueue[j]))'
  <2> SUFFICES ASSUME NEW j \in 1..(n + 1) PROVE TaskOK(taskQueue[j])'
    BY <1>1
  <2>1. CASE j = n + 1
    BY <1>1, <2>1
  <2>2. CASE j \in 1..n
    <3>1. PICK old : old = taskQueue[j]
      OBVIOUS
    <3>2. TaskOK(old)'
      BY <1>0, <2>2, <3>1, TaskGrows DEF TasksInv
    <3> QED
      BY <1>1, <2>2, <3>1, <3>2
  <2> QED
    BY <1>3, <2>1, <2>2
<1>5. ASSUME NEW i \in 1..(n + 1), NEW j \in 1..(n + 1), i < j, Adds(i)', Adds(j)'
      PROVE  About(i)' < About(j)' /\ taskQueue'[i].time <= taskQueue'[j].time
  <2>1. i \in 1..n
    BY <1>1, <1>5
  <2>2. CASE j \in 1..n
    BY <1>0, <1>1, <1>5, <2>1, <2>2 DEF TasksInv, Adds, About
  <2>3. CASE j = n + 1
    <3>1. TaskOK(taskQueue[i]) /\ taskQueue[i].kind = "add"
      BY <1>0, <1>1, <1>5, <2>1 DEF TasksInv, Adds
    <3>2. About(i) \in Issued /\ taskQueue[i].time \in Times
      BY <3>1 DEF TaskOK, IsWire, About
    <3>3. About(i) < created /\ taskQueue[i].time <= now
      BY <3>2, IssuedFacts DEF Issued, Times
    <3>4. About(j)' = created /\ taskQueue'[j].time = now
      BY <1>1, <1>5, <2>3 DEF Adds, About
    <3> QED
      BY <1>1, <2>1, <3>3, <3>4 DEF About
  <2> QED
    BY <1>3, <2>2, <2>3
<1>6. \A j \in 1..n : FirstAdded(j) => FirstAdded(j)'
  BY <1>1 DEF FirstAdded, Adds, About
<1>7. created' > 0 => FirstAdded(n + 1)'
  <2>1. CASE created > 0
    BY <1>0, <1>1, <2>1 DEF TasksInv, FirstAdded, Adds, About
  <2>2. CASE task.kind = "add" /\ Num(task.seq) = 0
    <3>1. n + 1 \in 1..(n + 1)
      BY <1>1
    <3> QED
      BY <1>1, <2>2, <3>1 DEF FirstAdded, Adds, About
  <2> QED
    BY <2>1, <2>2
<1>8. (\A j \in 1..Len(taskQueue) : Reads(taskQueue[j]) => FirstAdded(j))'
  BY <1>0, <1>1, <1>3, <1>6, <1>7 DEF TasksInv, Reads
<1>9. (created > 0 => FirstAdded(Len(taskQueue)))'
  BY <1>1, <1>7
<1>10. (\A i, j \in 1..Len(taskQueue) : i < j /\ Adds(i) /\ Adds(j) =>
          About(i) < About(j) /\ taskQueue[i].time <= taskQueue[j].time)'
  BY <1>1, <1>5
<1> QED
  BY <1>1, <1>2, <1>4, <1>8, <1>9, <1>10 DEF TasksInv

\* A step that runs the first task.
LEMMA TasksRun ==
  ASSUME OrderInv, TasksInv, Grows, taskQueue # << >>, taskQueue' = Tail(taskQueue),
         UNCHANGED <<created, messages>>,
         adapter.lastSeq # Never => adapter'.lastSeq # Never,
         Reads(taskQueue[1]) => adapter'.lastSeq # Never
  PROVE  TasksInv'
<1>0. PICK n : n = Len(taskQueue)
  OBVIOUS
<1>1. /\ IsQueue(taskQueue') /\ n \in Nat \ {0} /\ Len(taskQueue') = n - 1
      /\ \A i \in 1..(n - 1) : taskQueue'[i] = taskQueue[i + 1] /\ i + 1 \in 1..n
  BY <1>0, TailFacts DEF TasksInv
<1>2. (\A m \in messages : MessageOK(m))'
  BY MessageGrows DEF TasksInv
<1>4. (\A j \in 1..Len(taskQueue) : TaskOK(taskQueue[j]))'
  <2> SUFFICES ASSUME NEW j \in 1..(n - 1) PROVE TaskOK(taskQueue[j])'
    BY <1>1
  <2>1. PICK old : old = taskQueue[j + 1]
    OBVIOUS
  <2>2. TaskOK(old)'
    BY <1>0, <1>1, <2>1, TaskGrows DEF TasksInv
  <2> QED
    BY <1>1, <2>1, <2>2
<1>5. \A i, j \in 1..(n - 1) : i < j /\ Adds(i)' /\ Adds(j)' =>
         About(i)' < About(j)' /\ taskQueue'[i].time <= taskQueue'[j].time
  <2> SUFFICES ASSUME NEW i \in 1..(n - 1), NEW j \in 1..(n - 1), i < j, Adds(i)', Adds(j)'
               PROVE  About(i)' < About(j)' /\ taskQueue'[i].time <= taskQueue'[j].time
    OBVIOUS
  <2>1. i + 1 < j + 1 /\ Adds(i + 1) /\ Adds(j + 1)
    BY <1>1 DEF Adds
  <2> QED
    BY <1>0, <1>1, <2>1 DEF TasksInv, About
<1>6. ASSUME NEW j \in 1..n, FirstAdded(j) PROVE FirstAdded(j - 1)'
  <2>1. CASE adapter'.lastSeq # Never
    BY <2>1 DEF FirstAdded
  <2>2. CASE adapter'.lastSeq = Never
    <3>1. PICK i \in 1..j : Adds(i) /\ About(i) = 0
      BY <1>6, <2>2 DEF FirstAdded
    <3>2. i # 1
      BY <2>2, <3>1 DEF Adds, Reads
    <3>3. i - 1 \in 1..(j - 1) /\ i - 1 \in 1..(n - 1) /\ (i - 1) + 1 = i
      BY <1>1, <3>1, <3>2
    <3> QED
      BY <1>1, <3>1, <3>3 DEF FirstAdded, Adds, About
  <2> QED
    BY <2>1, <2>2
<1>7. (created > 0 => FirstAdded(Len(taskQueue)))'
  <2>1. created > 0 => FirstAdded(n) /\ n \in 1..n
    BY <1>0, <1>1 DEF TasksInv
  <2> QED
    BY <1>1, <1>6, <2>1
<1>8. (\A j \in 1..Len(taskQueue) : Reads(taskQueue[j]) => FirstAdded(j))'
  <2> SUFFICES ASSUME NEW j \in 1..(n - 1), Reads(taskQueue'[j]) PROVE FirstAdded(j)'
    BY <1>1
  <2>1. FirstAdded(j + 1) /\ j + 1 \in 1..n /\ (j + 1) - 1 = j
    BY <1>0, <1>1 DEF TasksInv
  <2> QED
    BY <1>6, <2>1
<1> QED
  BY <1>1, <1>2, <1>4, <1>5, <1>7, <1>8 DEF TasksInv

-----------------------------------------------------------------------------
(* The history and the results.                                            *)

Packet == [creation : Times, send : Times \cup {Never}]
Result == [seq : Int, send : Int, exact : BOOLEAN, receive : Int]

\* The history: packets in the order of their creation, the times they left.
HistoryOK(h) ==
  /\ h = [s \in DOMAIN h |-> h[s]]
  /\ \A s \in DOMAIN h :
       /\ s \in Int /\ s - FirstSeq \in Issued
       /\ h[s] \in Packet /\ h[s].send \in {Never, sentAt[s - FirstSeq]}
  /\ \A r, s \in DOMAIN h : r <= s => h[r].creation <= h[s].creation

\* Results rs, beside the history h they leave.
ResultsOK(rs, h) ==
  /\ rs \in Seq(Result)
  /\ \A i \in 1..Len(rs) :
       /\ Number(rs[i]) \in Issued
       /\ rs[i].send # Never /\ rs[i].send = sentAt[Number(rs[i])]
       /\ Received(rs[i]) => rs[i].seq \notin DOMAIN h
  /\ \A i, j \in 1..Len(rs) :
       Received(rs[i]) /\ Received(rs[j]) /\ rs[i].seq = rs[j].seq => i = j

\* A packet still to be added comes after all that is known.
Later(j) ==
  /\ \A s \in DOMAIN adapter.history :
       s - FirstSeq < About(j) /\ adapter.history[s].creation <= taskQueue[j].time
  /\ \A i \in 1..Len(results) : Number(results[i]) < About(j)

AddsLater == \A j \in 1..Len(taskQueue) : Adds(j) => Later(j)

AdapterInv ==
  /\ adapter = [history |-> adapter.history, lastSeq |-> adapter.lastSeq,
                offset |-> adapter.offset, timestamp |-> adapter.timestamp]
  /\ adapter.lastSeq # Never => adapter.lastSeq \in Int /\ adapter.lastSeq - FirstSeq \in Issued
  /\ HistoryOK(adapter.history)
  /\ ResultsOK(results, adapter.history)

\* Nothing is known yet.
LEMMA AdapterInit == Init => AdapterInv /\ AddsLater
<1> SUFFICES ASSUME Init PROVE AdapterInv /\ AddsLater
  OBVIOUS
<1>1. /\ adapter = [history |-> << >>, lastSeq |-> Never, offset |-> Never, timestamp |-> Never]
      /\ results = << >> /\ results \in Seq(Result) /\ Len(results) = 0
      /\ taskQueue = << >> /\ Len(taskQueue) = 0
  BY DEF Init, InitialAdapter
<1>2. DOMAIN << >> = {} /\ << >> = [s \in {} |-> << >>[s]]
  OBVIOUS
<1>3. AddsLater
  BY <1>1 DEF AddsLater
<1>4. HistoryOK(adapter.history) /\ ResultsOK(results, adapter.history)
  BY <1>1, <1>2 DEF HistoryOK, ResultsOK
<1> QED
  BY <1>1, <1>3, <1>4 DEF AdapterInv

\* A history in order stays in order.
LEMMA HistoryGrows ==
  ASSUME NEW h, OrderInv, HistoryOK(h), Grows
  PROVE  HistoryOK(h)'
<1>1. ASSUME NEW s \in DOMAIN h
      PROVE  /\ s - FirstSeq \in Issued' /\ h[s] \in Packet'
             /\ h[s].send \in {Never, sentAt'[s - FirstSeq]}
  <2>1. s - FirstSeq \in Issued /\ h[s] \in Packet /\ h[s].send \in {Never, sentAt[s - FirstSeq]}
    BY DEF HistoryOK
  <2>2. s - FirstSeq \in Packets /\ s - FirstSeq \in Issued'
    BY <2>1, IssuedFacts DEF Grows
  <2>3. h[s] \in Packet'
    BY <2>1 DEF Packet, Grows
  <2> QED
    BY <2>1, <2>2, <2>3 DEF Grows
<1> QED
  BY <1>1 DEF HistoryOK

\* Results that are true stay true.
LEMMA ResultsGrow ==
  ASSUME NEW rs, NEW h, OrderInv, ResultsOK(rs, h), Grows
  PROVE  ResultsOK(rs, h)'
<1>1. ASSUME NEW i \in 1..Len(rs)
      PROVE  Number(rs[i]) \in Issued' /\ rs[i].send = sentAt'[Number(rs[i])]
  <2>1. Number(rs[i]) \in Issued /\ rs[i].send # Never /\ rs[i].send = sentAt[Number(rs[i])]
    BY DEF ResultsOK
  <2> QED
    BY <2>1, IssuedFacts DEF Grows
<1>2. Result' = Result
  BY DEF Result
<1> QED
  BY <1>1 DEF ResultsOK, Number, Received

\* What is kept of a history that was in order.
LEMMA HistoryPart ==
  ASSUME NEW h, HistoryOK(h), NEW D \in SUBSET DOMAIN h
  PROVE  HistoryOK([s \in D |-> h[s]])
BY DEF HistoryOK

\* A step that leaves adapter and results alone.
LEMMA AdapterQuiet ==
  ASSUME OrderInv, AdapterInv, Grows, UNCHANGED <<adapter, results>>
  PROVE  AdapterInv'
<1>1. PICK h : h = adapter.history
  OBVIOUS
<1>2. PICK rs : rs = results
  OBVIOUS
<1>3. HistoryOK(h)'
  BY <1>1, HistoryGrows DEF AdapterInv
<1>4. ResultsOK(rs, h)'
  BY <1>1, <1>2, ResultsGrow DEF AdapterInv
<1>5. HistoryOK(adapter.history)' /\ ResultsOK(results, adapter.history)'
  BY <1>1, <1>2, <1>3, <1>4
<1>6. (adapter.lastSeq # Never => adapter.lastSeq \in Int /\ adapter.lastSeq - FirstSeq \in Issued)'
  BY DEF AdapterInv, Grows
<1> QED
  BY <1>5, <1>6 DEF AdapterInv

\* A post: if the task adds a packet, it is the newest.
LEMMA LaterPost ==
  ASSUME OrderInv, AdapterInv, AddsLater, IsQueue(taskQueue), NEW task, Post(task),
         UNCHANGED <<adapter, results>>,
         task.kind = "add" => Num(task.seq) = created /\ task.time = now
  PROVE  AddsLater'
<1>0. PICK n : n = Len(taskQueue)
  OBVIOUS
<1>1. /\ n \in Nat /\ Len(taskQueue') = n + 1
      /\ taskQueue'[n + 1] = task
      /\ \A i \in 1..n : taskQueue'[i] = taskQueue[i]
  BY <1>0, QueueBasics, AppendFacts DEF Post
<1> SUFFICES ASSUME NEW j \in 1..(n + 1), Adds(j)' PROVE Later(j)'
  BY <1>1 DEF AddsLater
<1>2. CASE j \in 1..n
  <2>1. Adds(j) /\ Later(j)
    BY <1>0, <1>1, <1>2 DEF AddsLater, Adds
  <2> QED
    BY <1>1, <1>2, <2>1 DEF Later, About
<1>3. CASE j = n + 1
  <2>1. About(j)' = created /\ taskQueue'[j].time = now
    BY <1>1, <1>3 DEF Adds, About
  <2>2. \A s \in DOMAIN adapter.history :
          s - FirstSeq < created /\ adapter.history[s].creation <= now
    <3> SUFFICES ASSUME NEW s \in DOMAIN adapter.history
                 PROVE  s - FirstSeq < created /\ adapter.history[s].creation <= now
      OBVIOUS
    <3>1. s - FirstSeq \in Issued /\ adapter.history[s].creation \in Times
      BY DEF AdapterInv, HistoryOK, Packet
    <3> QED
      BY <3>1, IssuedFacts DEF Issued, Times
  <2>3. \A i \in 1..Len(results) : Number(results[i]) < created
    BY IssuedFacts DEF AdapterInv, ResultsOK, Issued
  <2> QED
    BY <2>1, <2>2, <2>3 DEF Later
<1> QED
  BY <1>1, <1>2, <1>3

\* A run that makes nothing known but the packet it adds.
LEMMA LaterRun ==
  ASSUME TasksInv, AddsLater, taskQueue # << >>, taskQueue' = Tail(taskQueue),
         \A s \in DOMAIN adapter'.history :
            \/ /\ s \in DOMAIN adapter.history
               /\ adapter'.history[s].creation = adapter.history[s].creation
            \/ /\ Adds(1) /\ s - FirstSeq = About(1)
               /\ adapter'.history[s].creation = taskQueue[1].time,
         \A i \in 1..Len(results') :
            \/ \E k \in 1..Len(results) : Number(results'[i]) = Number(results[k])
            \/ \E s \in DOMAIN adapter.history : Number(results'[i]) = s - FirstSeq
  PROVE  AddsLater'
<1>0. PICK n : n = Len(taskQueue)
  OBVIOUS
<1>1. /\ n \in Nat \ {0} /\ Len(taskQueue') = n - 1 /\ 1 \in 1..n
      /\ \A i \in 1..(n - 1) : taskQueue'[i] = taskQueue[i + 1] /\ i + 1 \in 1..n /\ 1 < i + 1
  BY <1>0, TailFacts DEF TasksInv
<1> SUFFICES ASSUME NEW j \in 1..(n - 1), Adds(j)' PROVE Later(j)'
  BY <1>1 DEF AddsLater
<1>2. PICK k : k = j + 1 /\ k \in 1..n /\ 1 < k /\ taskQueue'[j] = taskQueue[k]
  BY <1>1
<1>3. Adds(k) /\ Later(k) /\ About(j)' = About(k)
  BY <1>0, <1>2 DEF AddsLater, Adds, About
<1>4. Adds(1) => About(1) < About(k) /\ taskQueue[1].time <= taskQueue[k].time
  BY <1>0, <1>1, <1>2, <1>3 DEF TasksInv
<1>5. \A s \in DOMAIN adapter'.history :
         s - FirstSeq < About(k) /\ adapter'.history[s].creation <= taskQueue[k].time
  BY <1>3, <1>4 DEF Later
<1>6. \A i \in 1..Len(results') : Number(results'[i]) < About(k)
  BY <1>3 DEF Later
<1> QED
  BY <1>2, <1>3, <1>5, <1>6 DEF Later, Number

\* The first task, and the packet its number unwraps to.
LEMMA HeadFacts ==
  ASSUME OrderInv, TasksInv, taskQueue # << >>
  PROVE  /\ Task = taskQueue[1] /\ TaskOK(Task) /\ 1 \in 1..Len(taskQueue)
         /\ Reads(Task) => FirstAdded(1)
<1>1. 1 \in 1..Len(taskQueue) /\ Task = taskQueue[1]
  BY TailFacts DEF TasksInv, Task
<1> QED
  BY <1>1 DEF TasksInv

\* Once a number has been unwrapped, the next one is unwrapped right.
LEMMA LastUnwraps ==
  ASSUME OrderInv, NEW last \in Int, last - FirstSeq \in Issued, NEW seq, IsWire(seq)
  PROVE  Unwrap(last, seq) = FirstSeq + Num(seq)
<1>1. last - FirstSeq \in Packets /\ Num(seq) \in Packets /\ FirstSeq \in Int
  BY ConstantFacts, IssuedFacts DEF IsWire
<1>2. last = FirstSeq + (last - FirstSeq)
  BY <1>1
<1>3. Unwrap(FirstSeq + (last - FirstSeq), Wire(Num(seq))) = FirstSeq + Num(seq)
  BY <1>1, UnwrapFacts
<1> QED
  BY <1>2, <1>3 DEF IsWire

\* An unwrapped number is never taken for none.
LEMMA NotNever ==
  ASSUME OrderInv, NEW n \in Issued
  PROVE  FirstSeq + n # Never /\ FirstSeq \in Int /\ n \in Int
BY ConstantFacts DEF Issued, Never

\* The adapter after a step that neither reads a message nor makes results.
LEMMA AdapterAfter ==
  ASSUME OrderInv, AdapterInv, Grows, NEW h, NEW n \in Issued, HistoryOK(h),
         ResultsOK(results, h), results' = results,
         adapter' = [adapter EXCEPT !.lastSeq = FirstSeq + n, !.history = h]
  PROVE  /\ AdapterInv' /\ adapter'.lastSeq # Never
         /\ adapter'.offset = adapter.offset /\ adapter'.timestamp = adapter.timestamp
         /\ adapter'.history = h
<1>1. adapter' = [history |-> h, lastSeq |-> FirstSeq + n,
                  offset |-> adapter.offset, timestamp |-> adapter.timestamp]
  BY DEF AdapterInv
<1>2. PICK rs : rs = results
  OBVIOUS
<1>3. HistoryOK(h)' /\ ResultsOK(rs, h)'
  BY <1>2, HistoryGrows, ResultsGrow
<1>0. PICK last : last = FirstSeq + n
  OBVIOUS
<1>4. last # Never /\ last \in Int /\ last - FirstSeq \in Issued'
  <2>1. last # Never /\ FirstSeq \in Int /\ n \in Int
    BY <1>0, NotNever
  <2>2. last \in Int /\ last - FirstSeq = n
    BY <1>0, <2>1
  <2> QED
    BY <2>1, <2>2 DEF Grows
<1>5. /\ adapter'.history = h /\ adapter'.lastSeq = FirstSeq + n
      /\ adapter'.offset = adapter.offset /\ adapter'.timestamp = adapter.timestamp
  BY <1>1
<1>6. adapter' = [history |-> adapter'.history, lastSeq |-> adapter'.lastSeq,
                  offset |-> adapter'.offset, timestamp |-> adapter'.timestamp]
  BY <1>1, <1>5
<1>7. HistoryOK(adapter.history)' /\ ResultsOK(results, adapter.history)'
  BY <1>2, <1>3, <1>5
<1>8. (adapter.lastSeq # Never => adapter.lastSeq \in Int /\ adapter.lastSeq - FirstSeq \in Issued)'
  BY <1>0, <1>4, <1>5
<1>9. AdapterInv'
  <2> HIDE <1>1
  <2> QED
    BY <1>6, <1>7, <1>8 DEF AdapterInv
<1> QED
  BY <1>0, <1>4, <1>5, <1>9

\* AddPacket: the newest packet, and the old ones cleaned up.
LEMMA RunAddOK ==
  ASSUME OrderInv, TasksInv, AdapterInv, AddsLater, Grows, RunAddPacket
  PROVE  /\ AdapterInv' /\ AddsLater' /\ adapter'.lastSeq # Never
         /\ adapter'.offset = adapter.offset /\ adapter'.timestamp = adapter.timestamp
         /\ \A r \in DOMAIN adapter'.history :
              \/ /\ r \in DOMAIN adapter.history /\ adapter'.history[r] = adapter.history[r]
                 /\ taskQueue[1].time - adapter.history[r].creation \in 0..HistoryWindow
              \/ /\ Adds(1) /\ r - FirstSeq = About(1)
                 /\ adapter'.history[r].creation = taskQueue[1].time
<1>1. /\ taskQueue # << >> /\ Task.kind = "add" /\ taskQueue' = Tail(taskQueue)
      /\ adapter' = AddPacket(adapter, Task.seq, Task.time)
      /\ UNCHANGED results
  BY DEF RunAddPacket, Run, Task
<1>2. PICK n \in Issued, time \in Times :
        /\ n = Num(Task.seq) /\ time = Task.time /\ IsWire(Task.seq)
        /\ Later(1) /\ n = About(1) /\ Adds(1) /\ FirstAdded(1) /\ time = taskQueue[1].time
  BY <1>1, HeadFacts DEF TaskOK, IsWire, AddsLater, Adds, About, Reads
<1>3. Unwrap(adapter.lastSeq, Task.seq) = FirstSeq + n
  <2>1. CASE adapter.lastSeq # Never
    BY <1>2, <2>1, LastUnwraps DEF AdapterInv
  <2>2. CASE adapter.lastSeq = Never
    <3>1. n = 0
      BY <1>2, <2>2 DEF FirstAdded
    <3>2. Task.seq = FirstSeq /\ FirstSeq + 0 = FirstSeq
      BY <1>2, <3>1, WireFacts, IssuedFacts, ConstantFacts DEF IsWire
    <3> QED
      BY <2>2, <3>1, <3>2 DEF Unwrap
  <2> QED
    BY <2>1, <2>2
<1> DEFINE s == FirstSeq + n
           old == adapter.history
           packet == [creation |-> time, send |-> Never]
           kept == Recent(old, time)
           h == [r \in DOMAIN kept \cup {s} |-> IF r \in DOMAIN kept THEN kept[r] ELSE packet]
<1>4. adapter' = [adapter EXCEPT !.lastSeq = s, !.history = h]
  BY <1>1, <1>2, <1>3 DEF AddPacket
<1>5. HistoryOK(old) /\ ResultsOK(results, old)
  BY DEF AdapterInv
<1>6. \A r \in DOMAIN old : r < s /\ r \in Int /\ old[r].creation <= time /\ old[r].creation \in Int
                            /\ old[r].creation \in Times
  <2>1. \A r \in DOMAIN old : r - FirstSeq < n /\ old[r].creation <= time
    BY <1>2 DEF Later
  <2>2. \A r \in DOMAIN old : r \in Int /\ old[r].creation \in Times
    BY <1>5 DEF HistoryOK, Packet
  <2>3. n \in Int /\ FirstSeq \in Int /\ Times \subseteq Int
    BY <1>2, NotNever, IssuedFacts
  <2>4. ASSUME NEW r \in Int, r - FirstSeq < n PROVE r < s
    BY <2>3, <2>4
  <2> QED
    BY <2>1, <2>2, <2>3, <2>4
<1>7. /\ DOMAIN kept \subseteq DOMAIN old
      /\ \A r \in DOMAIN kept : kept[r] = old[r] /\ time - old[r].creation <= HistoryWindow
  <2>1. DOMAIN kept \subseteq DOMAIN old /\ \A r \in DOMAIN kept : kept[r] = old[r]
    BY DEF Recent
  <2>2. ASSUME NEW r \in DOMAIN kept PROVE time - old[r].creation <= HistoryWindow
    <3>1. PICK q \in DOMAIN old : q <= r /\ time - old[q].creation <= HistoryWindow
      BY DEF Recent
    <3>2. old[q].creation <= old[r].creation /\ r \in DOMAIN old
      BY <1>5, <2>1, <3>1 DEF HistoryOK
    <3>3. HistoryWindow \in Int /\ time \in Int
      BY ConstantFacts, IssuedFacts
    <3> QED
      BY <1>6, <3>1, <3>2, <3>3
  <2> QED
    BY <2>1, <2>2
<1>8. s \notin DOMAIN old /\ s \in Int /\ s - FirstSeq = n
  <2>1. FirstSeq \in Int /\ n \in Int
    BY <1>2, NotNever
  <2> QED
    BY <1>6, <2>1
<1> HIDE DEF kept
<1>9. /\ DOMAIN h = DOMAIN kept \cup {s} /\ h[s] = packet
      /\ \A r \in DOMAIN kept : h[r] = old[r] /\ r \in DOMAIN old
      /\ h = [r \in DOMAIN h |-> h[r]]
  BY <1>7, <1>8
<1> HIDE DEF h
<1>10. HistoryOK(h)
  <2>1. ASSUME NEW r \in DOMAIN h
        PROVE  /\ r \in Int /\ r - FirstSeq \in Issued
               /\ h[r] \in Packet /\ h[r].send \in {Never, sentAt[r - FirstSeq]}
    <3>1. CASE r = s
      BY <1>8, <1>9, <3>1 DEF Packet
    <3>2. CASE r \in DOMAIN kept
      BY <1>5, <1>9, <3>2 DEF HistoryOK
    <3> QED
      BY <1>9, <3>1, <3>2
  <2>2. ASSUME NEW q \in DOMAIN h, NEW r \in DOMAIN h, q <= r
        PROVE  h[q].creation <= h[r].creation
    <3>1. time \in Int
      BY IssuedFacts
    <3>2. CASE q \in DOMAIN kept /\ r \in DOMAIN kept
      BY <1>5, <1>9, <2>2, <3>2 DEF HistoryOK
    <3>3. CASE q \in DOMAIN kept /\ r = s
      BY <1>6, <1>9, <3>3
    <3>4. CASE q = s /\ r \in DOMAIN kept
      <4>1. r < s /\ r \in Int
        BY <1>6, <1>9, <3>4
      <4> QED
        BY <1>8, <2>2, <3>4, <4>1
    <3>5. CASE q = s /\ r = s
      BY <1>9, <3>1, <3>5
    <3> QED
      BY <1>9, <3>2, <3>3, <3>4, <3>5
  <2> QED
    BY <1>9, <2>1, <2>2 DEF HistoryOK
<1>11. ResultsOK(results, h)
  <2>1. ASSUME NEW i \in 1..Len(results), Received(results[i]) PROVE results[i].seq \notin DOMAIN h
    <3>1. results[i].seq \notin DOMAIN old
      BY <1>5, <2>1 DEF ResultsOK
    <3>2. Number(results[i]) < n
      BY <1>2 DEF Later
    <3>3. results[i].seq # s
      <4>1. n \in Int
        BY DEF Issued
      <4> QED
        BY <1>8, <3>2, <4>1 DEF Number
    <3> QED
      BY <1>9, <3>1, <3>3
  <2> QED
    BY <1>5, <2>1 DEF ResultsOK
<1>12. /\ AdapterInv' /\ adapter'.lastSeq # Never
       /\ adapter'.offset = adapter.offset /\ adapter'.timestamp = adapter.timestamp
       /\ adapter'.history = h
  BY <1>1, <1>4, <1>10, <1>11, AdapterAfter
<1>13. AddsLater'
  <2>1. \A r \in DOMAIN h :
          \/ r \in DOMAIN old /\ h[r].creation = old[r].creation
          \/ Adds(1) /\ r - FirstSeq = About(1) /\ h[r].creation = taskQueue[1].time
    BY <1>2, <1>8, <1>9
  <2> QED
    BY <1>1, <1>12, <2>1, LaterRun
<1>14. ASSUME NEW r \in DOMAIN h
       PROVE  \/ r \in DOMAIN old /\ h[r] = old[r] /\ time - old[r].creation \in 0..HistoryWindow
              \/ Adds(1) /\ r - FirstSeq = About(1) /\ h[r].creation = taskQueue[1].time
  <2>1. CASE r = s
    BY <1>2, <1>8, <1>9, <2>1
  <2>2. CASE r \in DOMAIN kept
    <3>1. HistoryWindow \in Int /\ time \in Int
      BY ConstantFacts, IssuedFacts
    <3>2. old[r].creation <= time /\ old[r].creation \in Int
          /\ time - old[r].creation <= HistoryWindow
      BY <1>6, <1>7, <2>2
    <3>3. time - old[r].creation \in 0..HistoryWindow
      BY <3>1, <3>2
    <3> QED
      BY <1>9, <2>2, <3>3
  <2> QED
    BY <1>9, <2>1, <2>2
<1> QED
  BY <1>2, <1>12, <1>13, <1>14

\* ProcessSentPacket: the time a packet of the history left.
LEMMA RunSentOK ==
  ASSUME OrderInv, TasksInv, AdapterInv, AddsLater, Grows, RunSentPacket
  PROVE  /\ AdapterInv' /\ AddsLater' /\ adapter'.lastSeq # Never
         /\ adapter'.offset = adapter.offset /\ adapter'.timestamp = adapter.timestamp
         /\ \A r \in DOMAIN adapter'.history :
              /\ r \in DOMAIN adapter.history
              /\ adapter'.history[r].creation = adapter.history[r].creation
<1>1. /\ taskQueue # << >> /\ Task.kind = "sent" /\ taskQueue' = Tail(taskQueue)
      /\ adapter' = ProcessSentPacket(adapter, Task.seq, Task.time)
      /\ UNCHANGED results
  BY DEF RunSentPacket, Run, Task
<1>2. PICK n \in Issued, time \in Times :
        /\ n = Num(Task.seq) /\ time = Task.time /\ IsWire(Task.seq)
        /\ time = sentAt[n] /\ adapter.lastSeq # Never
  BY <1>1, HeadFacts DEF TaskOK, IsWire, Adds, Reads, FirstAdded
<1>3. Unwrap(adapter.lastSeq, Task.seq) = FirstSeq + n
  BY <1>2, LastUnwraps DEF AdapterInv
<1> DEFINE s == FirstSeq + n
           old == adapter.history
           h == [r \in DOMAIN old |-> IF r = s THEN [old[r] EXCEPT !.send = time] ELSE old[r]]
<1>4. adapter' = [adapter EXCEPT !.lastSeq = s, !.history = h]
  BY <1>1, <1>2, <1>3 DEF ProcessSentPacket
<1>5. HistoryOK(old) /\ ResultsOK(results, old)
  BY DEF AdapterInv
<1>6. s - FirstSeq = n
  <2>1. FirstSeq \in Int /\ n \in Int
    BY <1>2, NotNever
  <2> QED
    BY <2>1
<1>7. DOMAIN h = DOMAIN old /\ h = [r \in DOMAIN h |-> h[r]]
  OBVIOUS
<1>8. ASSUME NEW r \in DOMAIN old
      PROVE  /\ h[r] \in Packet /\ h[r].creation = old[r].creation
             /\ h[r].send \in {Never, sentAt[r - FirstSeq]}
  <2>1. old[r] \in Packet /\ old[r].send \in {Never, sentAt[r - FirstSeq]}
    BY <1>5 DEF HistoryOK
  <2>2. CASE r = s
    <3>1. h[r] = [old[r] EXCEPT !.send = time]
      BY <2>2
    <3>2. h[r] \in Packet /\ h[r].creation = old[r].creation /\ h[r].send = time
      <4> HIDE DEF h, old
      <4> QED
        BY <2>1, <3>1 DEF Packet
    <3> QED
      BY <1>2, <1>6, <2>2, <3>2
  <2>3. CASE r # s
    BY <2>1, <2>3
  <2> QED
    BY <2>2, <2>3
<1> HIDE DEF h
<1>9. HistoryOK(h)
  BY <1>5, <1>7, <1>8 DEF HistoryOK
<1>10. ResultsOK(results, h)
  BY <1>5, <1>7 DEF ResultsOK
<1>11. /\ AdapterInv' /\ adapter'.lastSeq # Never
       /\ adapter'.offset = adapter.offset /\ adapter'.timestamp = adapter.timestamp
       /\ adapter'.history = h
  BY <1>1, <1>4, <1>9, <1>10, AdapterAfter
<1>12. AddsLater'
  BY <1>1, <1>7, <1>8, <1>11, LaterRun
<1> QED
  BY <1>7, <1>8, <1>11, <1>12

-----------------------------------------------------------------------------
(* A message, status by status.                                            *)

\* g is the function by which FoldLeft is defined, on the subsets of 1..n.
Unfolds(g, n, start, statuses) ==
  g = [s \in SUBSET (1..n) |->
         IF s = {} THEN start
         ELSE ProcessStatus(g[s \ {Max(s)}], statuses[Max(s)])]

\* There is such a function: by induction on n.
LEMMA UnfoldsExists ==
  ASSUME NEW start, NEW statuses
  PROVE  \A n \in Nat : \E g : Unfolds(g, n, start, statuses)
<1> DEFINE S == {n \in Nat : \E g : Unfolds(g, n, start, statuses)}
<1>1. 0 \in S
  <2> DEFINE g == [s \in SUBSET (1..0) |-> start]
  <2>0. 1..0 = {}
    OBVIOUS
  <2>1. \A s \in SUBSET (1..0) : s = {}
    BY <2>0
  <2>2. Unfolds(g, 0, start, statuses)
    BY <2>1, Zenon DEF Unfolds
  <2> QED
    BY <2>2
<1>2. ASSUME NEW n \in S PROVE n + 1 \in S
  <2>1. n \in Nat /\ n + 1 \in Nat
    OBVIOUS
  <2>2. PICK f : Unfolds(f, n, start, statuses)
    OBVIOUS
  <2> DEFINE g == [s \in SUBSET (1..(n + 1)) |->
                     IF s \subseteq 1..n THEN f[s]
                     ELSE ProcessStatus(f[s \ {n + 1}], statuses[n + 1])]
  <2>3. ASSUME NEW s \in SUBSET (1..(n + 1))
        PROVE  g[s] = IF s = {} THEN start
                      ELSE ProcessStatus(g[s \ {Max(s)}], statuses[Max(s)])
    <3>1. CASE s \subseteq 1..n
      <4>1. s \ {Max(s)} \subseteq 1..n /\ s \ {Max(s)} \in SUBSET (1..(n + 1))
        BY <3>1
      <4>2. g[s] = f[s] /\ g[s \ {Max(s)}] = f[s \ {Max(s)}]
        BY <3>1, <4>1, Zenon
      <4>3. f[s] = IF s = {} THEN start
                   ELSE ProcessStatus(f[s \ {Max(s)}], statuses[Max(s)])
        <5>1. s \in SUBSET (1..n)
          BY <3>1
        <5> QED
          BY <2>2, <5>1, Zenon DEF Unfolds
      <4> QED
        BY <4>2, <4>3, Zenon
    <3>2. CASE ~(s \subseteq 1..n)
      <4>1. n + 1 \in s /\ s # {}
        BY <2>1, <3>2
      <4>2. Max(s) = n + 1
        <5>1. n + 1 \in Int /\ \A x \in s : x \in Int /\ x <= n + 1
          BY <2>1
        <5> QED
          BY <4>1, <5>1, MaxIs
      <4>3. s \ {n + 1} \subseteq 1..n /\ s \ {n + 1} \in SUBSET (1..(n + 1))
        BY <2>1
      <4>4. g[s] = ProcessStatus(f[s \ {n + 1}], statuses[n + 1])
        BY <3>2, Zenon
      <4>5. g[s \ {n + 1}] = f[s \ {n + 1}]
        BY <4>3, Zenon
      <4> QED
        BY <4>1, <4>2, <4>4, <4>5, Zenon
    <3> QED
      BY <3>1, <3>2
  <2>4. g = [s \in SUBSET (1..(n + 1)) |-> g[s]]
    BY Zenon
  <2> HIDE DEF g
  <2>5. Unfolds(g, n + 1, start, statuses)
    BY <2>3, <2>4, Zenon DEF Unfolds
  <2> QED
    BY <2>1, <2>5
<1> HIDE DEF S
<1>3. Nat \subseteq S
  BY <1>1, <1>2, SetInduction
<1> QED
  BY <1>3 DEF S

\* FoldLeft takes one status after the other.
LEMMA FoldChain ==
  ASSUME NEW start, NEW statuses, NEW n \in Nat, DOMAIN statuses = 1..n
  PROVE  \E c : /\ c[0] = start
                /\ \A k \in 1..n : c[k] = ProcessStatus(c[k - 1], statuses[k])
                /\ c[n] = FoldLeft(ProcessStatus, start, statuses)
<1> DEFINE g == CHOOSE f : Unfolds(f, n, start, statuses)
<1>1. Unfolds(g, n, start, statuses)
  BY UnfoldsExists, Zenon
<1>2. FoldLeft(ProcessStatus, start, statuses) = g[1..n]
  BY Zenon DEF FoldLeft, MapThenFoldSet, Unfolds
<1> HIDE DEF g
<1> DEFINE c == [k \in 0..n |-> g[1..k]]
<1>3. c[0] = start
  <2>1. 1..0 = {} /\ 0 \in 0..n
    OBVIOUS
  <2>2. {} \in SUBSET (1..n)
    OBVIOUS
  <2>3. g[{}] = start
    BY <1>1, <2>2, Zenon DEF Unfolds
  <2> QED
    BY <2>1, <2>3
<1>4. ASSUME NEW k \in 1..n PROVE c[k] = ProcessStatus(c[k - 1], statuses[k])
  <2>0. k \in Nat /\ k \in 1..k /\ k - 1 \in 0..n /\ k \in 0..n
    OBVIOUS
  <2>1. (1..k) \ {k} = 1..(k - 1)
    BY <2>0
  <2>5. 1..k \in SUBSET (1..n) /\ 1..k \in SUBSET (1..k) /\ 1..k # {}
    BY <2>0
  <2>2. Max(1..k) = k
    <3>1. k \in Int /\ \A x \in 1..k : x \in Int /\ x <= k
      BY <2>0
    <3> QED
      BY <2>0, <3>1, MaxIs
  <2>3. g[1..k] = ProcessStatus(g[(1..k) \ {k}], statuses[k])
    BY <1>1, <2>5, <2>2, Zenon DEF Unfolds
  <2>4. c[k] = g[1..k] /\ c[k - 1] = g[1..(k - 1)]
    BY <2>0
  <2> QED
    BY <2>1, <2>3, <2>4, Zenon
<1>5. c[n] = g[1..n]
  BY n \in 0..n
<1> QED
  BY <1>2, <1>3, <1>4, <1>5, Zenon

\* What results say of arrivals, on a clock that is e ahead of the receiver's.
Timed(rs, e) ==
  \A i \in 1..Len(rs) : rs[i].exact /\ Received(rs[i]) =>
     /\ arrival[Number(rs[i])] # Never
     /\ rs[i].receive = arrival[Number(rs[i])] + e

\* The state of ProcessTransportFeedbackInner after some statuses: old is the
\* history it started with, x the arrival the deltas have come to.
AccOK(acc, old, e, x) ==
  /\ acc = [lastSeq |-> acc.lastSeq, history |-> acc.history, offset |-> acc.offset,
            results |-> acc.results, exact |-> acc.exact]
  /\ acc.lastSeq \in Int /\ acc.lastSeq - FirstSeq \in Issued
  /\ DOMAIN acc.history \subseteq DOMAIN old
  /\ acc.history = [s \in DOMAIN acc.history |-> old[s]]
  /\ ResultsOK(acc.results, acc.history)
  /\ \A i \in 1..Len(acc.results) : acc.results[i].seq \in DOMAIN old
  /\ acc.offset \in Int /\ acc.exact \in BOOLEAN
  /\ acc.exact => acc.offset = x + e
  /\ Timed(acc.results, e)

\* More results, about packets that were in the history until then.
LEMMA ResultsConcat ==
  ASSUME NEW rs, NEW qs, NEW old, NEW h, ResultsOK(rs, old), ResultsOK(qs, h),
         DOMAIN h \subseteq DOMAIN old,
         \A i \in 1..Len(qs) : qs[i].seq \in DOMAIN old
  PROVE  ResultsOK(rs \o qs, h)
<1>1. rs \in Seq(Result) /\ qs \in Seq(Result)
  BY DEF ResultsOK
<1>2. rs \o qs \in Seq(Result)
  BY <1>1
<1> DEFINE n == Len(rs)
           all == rs \o qs
<1>3. /\ n \in Nat /\ Len(qs) \in Nat /\ Len(all) = n + Len(qs)
      /\ \A i \in 1..n : all[i] = rs[i]
      /\ \A i \in 1..Len(qs) : all[n + i] = qs[i]
  BY <1>1, ConcatFacts, QueueBasics DEF IsQueue
<1>4. \A i \in 1..Len(all) : i \in 1..n \/ (i - n \in 1..Len(qs) /\ i = n + (i - n))
  BY <1>3
<1> HIDE DEF all, n
<1>5. \A i \in 1..Len(all) : i \in 1..n => all[i] = rs[i]
  BY <1>3
<1>6. \A i \in 1..Len(all) : i - n \in 1..Len(qs) => all[i] = qs[i - n]
  BY <1>3, <1>4, SMTT(60)
<1>7. ASSUME NEW i \in 1..Len(all)
      PROVE  /\ Number(all[i]) \in Issued
             /\ all[i].send # Never /\ all[i].send = sentAt[Number(all[i])]
             /\ Received(all[i]) => all[i].seq \notin DOMAIN h
  <2>1. CASE i \in 1..n
    BY <1>5, <2>1 DEF ResultsOK, n
  <2>2. CASE i - n \in 1..Len(qs)
    <3>1. PICK k \in 1..Len(qs) : all[i] = qs[k]
      BY <1>6, <2>2
    <3> QED
      BY <3>1 DEF ResultsOK
  <2> QED
    BY <1>4, <2>1, <2>2
<1>8. ASSUME NEW i \in 1..Len(all), NEW j \in 1..Len(all),
             Received(all[i]), Received(all[j]), all[i].seq = all[j].seq
      PROVE  i = j
  <2>1. CASE i \in 1..n /\ j \in 1..n
    BY <1>5, <1>8, <2>1 DEF ResultsOK, n
  <2>2. CASE i \in 1..n /\ j - n \in 1..Len(qs)
    BY <1>5, <1>6, <1>8, <2>2, SMTT(60) DEF ResultsOK, n
  <2>3. CASE i - n \in 1..Len(qs) /\ j \in 1..n
    BY <1>5, <1>6, <1>8, <2>3, SMTT(60) DEF ResultsOK, n
  <2>4. CASE i - n \in 1..Len(qs) /\ j - n \in 1..Len(qs)
    <3>1. i - n = j - n
      BY <1>6, <1>8, <2>4 DEF ResultsOK
    <3>2. i \in Int /\ j \in Int /\ n \in Int
      BY <1>3 DEF n
    <3> QED
      BY <3>1, <3>2
  <2> QED
    BY <1>4, <2>1, <2>2, <2>3, <2>4
<1>9. ResultsOK(all, h)
  BY <1>2, <1>7, <1>8 DEF ResultsOK, all
<1> QED
  BY <1>9 DEF all

\* Two lists of results about true arrivals.
LEMMA TimedConcat ==
  ASSUME NEW rs, NEW qs, IsQueue(rs), IsQueue(qs), NEW e, Timed(rs, e), Timed(qs, e)
  PROVE  Timed(rs \o qs, e)
<1>1. /\ Len(rs) \in Nat /\ Len(qs) \in Nat /\ Len(rs \o qs) = Len(rs) + Len(qs)
      /\ \A i \in 1..Len(rs) : (rs \o qs)[i] = rs[i]
      /\ \A i \in 1..Len(qs) : (rs \o qs)[Len(rs) + i] = qs[i]
  BY ConcatFacts, QueueBasics
<1>2. ASSUME NEW i \in 1..Len(rs \o qs)
      PROVE  \/ \E k \in 1..Len(rs) : (rs \o qs)[i] = rs[k]
             \/ \E k \in 1..Len(qs) : (rs \o qs)[i] = qs[k]
  <2>1. i \in 1..Len(rs) \/ (i - Len(rs) \in 1..Len(qs) /\ i = Len(rs) + (i - Len(rs)))
    BY <1>1
  <2> QED
    BY <1>1, <2>1
<1> QED
  BY <1>2 DEF Timed

\* One status more.
LEMMA StatusOK ==
  ASSUME OrderInv, NEW old, HistoryOK(old), NEW acc, NEW e \in Int, NEW x \in Int, NEW y \in Int,
         AccOK(acc, old, e, x), NEW status \in Status, IsWire(status.seq),
         y = x + (IF status.received THEN status.delta ELSE 0),
         status.received => arrival[Num(status.seq)] # Never /\ y = arrival[Num(status.seq)]
  PROVE  AccOK(ProcessStatus(acc, status), old, e, y)
<1>0. PICK n \in Issued : n = Num(status.seq)
  BY DEF IsWire
<1>1. PICK s \in Int : s = FirstSeq + n /\ s - FirstSeq = n
  <2>1. FirstSeq \in Int /\ n \in Int
    BY <1>0, NotNever
  <2> QED
    BY <2>1
<1>2. Unwrap(acc.lastSeq, status.seq) = s
  BY <1>0, <1>1, LastUnwraps DEF AccOK
<1>3. status.received \in BOOLEAN /\ status.delta \in Int
  BY DEF Status
<1>4. CASE s \in DOMAIN acc.history /\ acc.history[s].send # Never
  <2> DEFINE offset == acc.offset + (IF status.received THEN status.delta ELSE 0)
             receive == IF status.received THEN offset ELSE Never
             result == [seq |-> s, send |-> acc.history[s].send, exact |-> acc.exact,
                        receive |-> receive]
             D == DOMAIN acc.history \ (IF status.received THEN {s} ELSE {})
             h == [r \in D |-> acc.history[r]]
             new == [lastSeq |-> s, history |-> h, offset |-> offset,
                     results |-> Append(acc.results, result), exact |-> acc.exact]
  <2>1. ProcessStatus(acc, status) = new
    <3>1. ProcessStatus(acc, status) = Report(acc, s, status)
      BY <1>2, <1>4 DEF ProcessStatus
    <3>2. acc = [lastSeq |-> acc.lastSeq, history |-> acc.history, offset |-> acc.offset,
                 results |-> acc.results, exact |-> acc.exact]
      BY DEF AccOK
    <3> QED
      BY <3>1, <3>2 DEF Report
  <2>2. offset \in Int /\ receive \in Int /\ acc.exact \in BOOLEAN
    BY <1>3 DEF AccOK, Never
  <2>3. acc.exact => offset = y + e
    BY <1>3 DEF AccOK
  <2>4. s \in DOMAIN old /\ acc.history[s] = old[s] /\ acc.history[s].send \in Times
        /\ acc.history[s].send = sentAt[n]
    <3>1. s \in DOMAIN old /\ acc.history[s] = old[s]
      BY <1>4 DEF AccOK
    <3>2. old[s] \in Packet /\ old[s].send \in {Never, sentAt[s - FirstSeq]}
      BY <3>1 DEF HistoryOK
    <3> QED
      BY <1>1, <1>4, <3>1, <3>2 DEF Packet
  <2>5. result \in Result /\ Number(result) = n
    <3>1. acc.history[s].send \in Int
      BY <2>4, IssuedFacts
    <3> HIDE DEF receive
    <3> QED
      BY <1>1, <2>2, <3>1 DEF Result, Number
  <2>6. Received(result) => status.received
    BY DEF Received
  <2>7. D \subseteq DOMAIN acc.history /\ DOMAIN h = D /\ (status.received => s \notin D)
    OBVIOUS
  <2>8. <<result>> \in Seq(Result) /\ Len(<<result>>) = 1 /\ <<result>>[1] = result
    <3> HIDE DEF result
    <3> QED
      BY <2>5
  <2>9. result.seq = s /\ result.send = acc.history[s].send /\ result.exact = acc.exact
        /\ result.receive = receive
    OBVIOUS
  <2>10. acc.exact /\ Received(result) => arrival[n] # Never /\ result.receive = arrival[n] + e
    <3>1. status.received => receive = offset
      OBVIOUS
    <3> HIDE DEF offset, receive, result
    <3> QED
      BY <1>0, <2>3, <2>6, <2>9, <3>1
  <2> HIDE DEF result, h, D, offset
  <2>11. ResultsOK(<<result>>, h)
    <3>1. \A i \in 1..Len(<<result>>) : i = 1
      BY <2>8
    <3> QED
      BY <1>0, <1>4, <2>4, <2>5, <2>6, <2>7, <2>8, <2>9, <3>1 DEF ResultsOK
  <2>12. IsQueue(acc.results) /\ IsQueue(<<result>>)
         /\ Append(acc.results, result) = acc.results \o <<result>>
    <3>1. IsQueue(acc.results)
      BY DEF AccOK, ResultsOK, IsQueue
    <3> QED
      BY <2>8, <3>1, AppendIsPost DEF IsQueue
  <2>13. ResultsOK(new.results, h)
    <3>1. \A i \in 1..Len(<<result>>) : <<result>>[i].seq \in DOMAIN acc.history
      BY <1>4, <2>8, <2>9
    <3>2. ResultsOK(acc.results, acc.history)
      BY DEF AccOK
    <3>3. ResultsOK(acc.results \o <<result>>, h)
      BY <2>7, <2>11, <3>1, <3>2, ResultsConcat
    <3> QED
      BY <2>12, <3>3
  <2>14. Timed(new.results, e)
    <3>1. Timed(<<result>>, e)
      BY <2>5, <2>8, <2>9, <2>10 DEF Timed
    <3>2. Timed(acc.results, e)
      BY DEF AccOK
    <3> QED
      BY <2>12, <3>1, <3>2, TimedConcat
  <2>15. \A i \in 1..Len(new.results) : new.results[i].seq \in DOMAIN old
    <3>1. /\ Len(acc.results) \in Nat
          /\ Len(Append(acc.results, result)) = Len(acc.results) + 1
          /\ Append(acc.results, result)[Len(acc.results) + 1] = result
          /\ \A i \in 1..Len(acc.results) : Append(acc.results, result)[i] = acc.results[i]
      BY <2>12, AppendFacts, QueueBasics
    <3>2. \A i \in 1..(Len(acc.results) + 1) : i \in 1..Len(acc.results) \/ i = Len(acc.results) + 1
      BY <3>1
    <3>3. \A i \in 1..Len(acc.results) : acc.results[i].seq \in DOMAIN old
      BY DEF AccOK
    <3> QED
      BY <2>4, <2>9, <3>1, <3>2, <3>3
  <2>16. h = [r \in DOMAIN h |-> old[r]] /\ DOMAIN h \subseteq DOMAIN old
    <3>1. DOMAIN acc.history \subseteq DOMAIN old
          /\ acc.history = [r \in DOMAIN acc.history |-> old[r]]
      BY DEF AccOK
    <3> QED
      BY <2>7, <3>1 DEF h
  <2>17. new.lastSeq = s /\ new.history = h /\ new.offset = offset /\ new.exact = acc.exact
         /\ new = [lastSeq |-> new.lastSeq, history |-> new.history, offset |-> new.offset,
                   results |-> new.results, exact |-> new.exact]
    OBVIOUS
  <2> HIDE DEF new
  <2>18. AccOK(new, old, e, y)
    BY <1>0, <1>1, <2>2, <2>3, <2>13, <2>14, <2>15, <2>16, <2>17 DEF AccOK
  <2> QED
    BY <2>1, <2>18
<1>5. CASE ~(s \in DOMAIN acc.history /\ acc.history[s].send # Never)
  <2> DEFINE new == [lastSeq |-> s, history |-> acc.history, offset |-> acc.offset,
                     results |-> acc.results, exact |-> (acc.exact /\ ~status.received)]
  <2>1. ProcessStatus(acc, status) = new
    <3>1. ProcessStatus(acc, status)
            = [acc EXCEPT !.lastSeq = s, !.exact = acc.exact /\ ~status.received]
      BY <1>2, <1>5 DEF ProcessStatus
    <3>2. acc = [lastSeq |-> acc.lastSeq, history |-> acc.history, offset |-> acc.offset,
                 results |-> acc.results, exact |-> acc.exact]
      BY DEF AccOK
    <3> QED
      BY <3>1, <3>2
  <2>2. /\ new.lastSeq = s /\ new.history = acc.history /\ new.offset = acc.offset
        /\ new.results = acc.results
        /\ new = [lastSeq |-> new.lastSeq, history |-> new.history, offset |-> new.offset,
                  results |-> new.results, exact |-> new.exact]
    OBVIOUS
  <2>3. new.exact \in BOOLEAN /\ (new.exact => acc.exact /\ ~status.received)
    OBVIOUS
  <2>4. new.exact => acc.offset = y + e
    <3>1. acc.exact => acc.offset = x + e
      BY DEF AccOK
    <3>2. ~status.received => y = x
      OBVIOUS
    <3> HIDE DEF new
    <3> QED
      BY <2>3, <3>1, <3>2
  <2> HIDE DEF new
  <2>5. AccOK(new, old, e, y)
    BY <1>0, <1>1, <2>2, <2>3, <2>4 DEF AccOK
  <2> QED
    BY <2>1, <2>5
<1> QED
  BY <1>4, <1>5

\* All the statuses of a message, one after the other.
LEMMA StatusesOK ==
  ASSUME OrderInv, NEW old, HistoryOK(old), NEW start, NEW e \in Int, NEW m, MessageOK(m),
         AccOK(start, old, e, m.trueBase)
  PROVE  \E x \in Int : AccOK(FoldLeft(ProcessStatus, start, m.statuses), old, e, x)
<1> DEFINE n == Len(m.statuses)
<1>0. n \in Nat /\ DOMAIN m.statuses = 1..n
      /\ \A k \in 1..n : m.statuses[k] \in Status /\ IsWire(m.statuses[k].seq)
  BY ElementOfSeq DEF MessageOK
<1>1. PICK t \in [0..n -> Bases] : t[0] = m.trueBase /\ Tells(m.statuses, t)
  BY DEF MessageOK
<1>2. Bases \subseteq Int
  BY ConstantFacts DEF Bases
<1> HIDE DEF n
<1>3. PICK c : /\ c[0] = start
               /\ \A k \in 1..n : c[k] = ProcessStatus(c[k - 1], m.statuses[k])
               /\ c[n] = FoldLeft(ProcessStatus, start, m.statuses)
  BY <1>0, FoldChain
<1> DEFINE S == {k \in Nat : k <= n => AccOK(c[k], old, e, t[k])}
<1>4. 0 \in S
  BY <1>1, <1>3
<1>5. ASSUME NEW k \in S PROVE k + 1 \in S
  <2> SUFFICES ASSUME k + 1 <= n PROVE AccOK(c[k + 1], old, e, t[k + 1])
    OBVIOUS
  <2>0. PICK j : j = k + 1
    OBVIOUS
  <2>1. k \in Nat /\ k <= n /\ j \in 1..n /\ j - 1 = k /\ k \in 0..n /\ j \in 0..n
    BY <1>0, <2>0
  <2>2. AccOK(c[k], old, e, t[k]) /\ t[k] \in Int /\ t[j] \in Int
    BY <1>1, <1>2, <2>1
  <2>3. PICK status \in Status : status = m.statuses[j] /\ IsWire(status.seq)
    BY <1>0, <2>1
  <2>4. /\ t[j] = t[k] + (IF status.received THEN status.delta ELSE 0)
        /\ status.received => arrival[Num(status.seq)] # Never /\ t[j] = arrival[Num(status.seq)]
    BY <1>1, <2>1, <2>3 DEF Tells, n
  <2>5. AccOK(ProcessStatus(c[k], status), old, e, t[j])
    BY <2>2, <2>3, <2>4, StatusOK
  <2>6. c[j] = ProcessStatus(c[k], status)
    BY <1>3, <2>1, <2>3
  <2> QED
    BY <2>0, <2>5, <2>6
<1>6. n \in S
  <2> HIDE DEF S
  <2> QED
    BY <1>0, <1>4, <1>5, SetInduction
<1>7. AccOK(c[n], old, e, t[n]) /\ t[n] \in Int
  <2>1. n <= n /\ n \in 0..n
    BY <1>0
  <2> QED
    BY <1>1, <1>2, <1>6, <2>1
<1> QED
  BY <1>3, <1>7

\* A base time that wraps is read right: no run lasts half its period.
LEMMA BaseDeltaFacts ==
  ASSUME NEW b \in Bases, NEW c \in Bases
  PROVE  BaseDelta(b % WrapPeriod, c % WrapPeriod) = b - c
<1> DEFINE w == WrapPeriod
           d == b - c
           delta == (b % w) - (c % w)
<1>1. /\ w \in Nat \ {0} /\ b \in Int /\ c \in Int /\ d \in Int
      /\ 2 * d < w /\ 2 * (-d) < w
  BY ConstantFacts, ClockAssumption DEF ClockAssumption, Bases
<1> HIDE DEF w
<1>2. b % w \in 0..(w - 1) /\ c % w \in 0..(w - 1)
  BY <1>1, ModFacts
<1>3. PICK p \in Int : b = p * w + (b % w)
  BY <1>1, ModFacts
<1>4. PICK q \in Int : c = q * w + (c % w)
  BY <1>1, ModFacts
<1>5. PICK k \in Int : delta = d + k * w
  <2>1. delta = d + (q - p) * w /\ q - p \in Int
    <3>1. p * w \in Int /\ q * w \in Int /\ (q - p) * w = q * w - p * w
      BY <1>1
    <3> QED
      BY <1>1, <1>2, <1>3, <1>4, <3>1
  <2> QED
    BY <2>1
<1>6. delta \in Int /\ -w < delta /\ delta < w
  BY <1>1, <1>2
<1> HIDE DEF d, delta
<1>7. k \in {-1, 0, 1}
  <2>1. CASE k >= 2
    <3>1. k * w >= 2 * w
      BY <1>1, <2>1
    <3> QED
      BY <1>1, <1>5, <1>6, <3>1
  <2>2. CASE k <= -2
    <3>1. k * w <= (-2) * w
      BY <1>1, <2>2
    <3> QED
      BY <1>1, <1>5, <1>6, <3>1
  <2> QED
    BY <1>5, <2>1, <2>2
<1>8. delta = d \/ delta = d + w \/ delta = d - w
  BY <1>1, <1>5, <1>7
<1>9. PICK u \in Int, v \in Int : u = b % w /\ v = c % w /\ delta = u - v
  BY <1>2 DEF delta
<1>10. BaseDelta(u, v) = d
  <2>1. CASE delta = d
    <3>1. ~(Abs(delta - w) < Abs(delta)) /\ ~(Abs(delta + w) < Abs(delta))
      BY <1>1, <2>1 DEF Abs
    <3> QED
      BY <1>9, <2>1, <3>1 DEF BaseDelta, w
  <2>2. CASE delta = d + w
    <3>1. Abs(delta - w) < Abs(delta) /\ delta - w = d /\ ~(Abs(delta - w) >= Abs(delta))
      BY <1>1, <2>2 DEF Abs
    <3> QED
      BY <1>9, <3>1 DEF BaseDelta, w
  <2>3. CASE delta = d - w
    <3>1. Abs(delta - w) >= Abs(delta) /\ Abs(delta + w) < Abs(delta) /\ delta + w = d
          /\ ~(Abs(delta - w) < Abs(delta))
      BY <1>1, <2>3 DEF Abs
    <3> QED
      BY <1>9, <3>1 DEF BaseDelta, w
  <2> QED
    BY <1>8, <2>1, <2>2, <2>3
<1> QED
  BY <1>9, <1>10 DEF d, w

EpochOK(e) == e \in Int /\ e >= StartTime - RemoteStart - MaxTime

\* The base time of the last message, on both clocks.
ClockInv ==
  IF adapter.timestamp = Never THEN results = << >>
  ELSE /\ EpochOK(epoch) /\ Timed(results, epoch)
       /\ \E b \in Bases : adapter.timestamp = b % WrapPeriod /\ adapter.offset = b + epoch

\* True arrivals stay true: a packet arrives once.
LEMMA TimedGrows ==
  ASSUME NEW rs, NEW old, NEW e, OrderInv, ResultsOK(rs, old), Timed(rs, e), Grows
  PROVE  Timed(rs, e)'
<1>1. \A i \in 1..Len(rs) : Number(rs[i]) \in Packets
  BY IssuedFacts DEF ResultsOK
<1> QED
  BY <1>1 DEF Timed, Grows, Number, Received

\* A step that reads no message.
LEMMA ClockQuiet ==
  ASSUME OrderInv, AdapterInv, ClockInv, Grows, UNCHANGED <<results, epoch>>,
         adapter'.offset = adapter.offset, adapter'.timestamp = adapter.timestamp
  PROVE  ClockInv'
<1>1. CASE adapter.timestamp = Never
  BY <1>1 DEF ClockInv
<1>2. CASE adapter.timestamp # Never
  <2>1. PICK rs, e : rs = results /\ e = epoch
    OBVIOUS
  <2>2. Timed(rs, e)'
    BY <1>2, <2>1, TimedGrows DEF ClockInv, AdapterInv
  <2> QED
    BY <1>2, <2>1, <2>2 DEF ClockInv, EpochOK
<1> QED
  BY <1>1, <1>2

\* The base time of a message, on the sender's clock.
LEMMA OffsetFacts ==
  ASSUME OrderInv, ClockInv, NEW m, MessageOK(m), NEW time \in Times, NEW e,
         e = IF adapter.timestamp = Never THEN time - m.trueBase ELSE epoch
  PROVE  EpochOK(e) /\ Offset(adapter, m.base, time) = m.trueBase + e
<1>1. m.trueBase \in Bases /\ m.base = m.trueBase % WrapPeriod
  BY DEF MessageOK
<1>2. time \in Int /\ time >= StartTime /\ StartTime \in Int /\ RemoteStart \in Int /\ MaxTime \in Int
      /\ BaseScale \in Int
  BY ConstantFacts, IssuedFacts DEF Times
<1>3. m.trueBase \in Int /\ m.trueBase <= RemoteStart + MaxTime
      /\ m.trueBase > RemoteStart - BaseScale
  BY <1>1, <1>2 DEF Bases
<1>4. CASE adapter.timestamp = Never
  <2>1. e = time - m.trueBase
    BY <1>4
  <2>2. EpochOK(e) /\ m.trueBase + e = time
    BY <1>2, <1>3, <2>1 DEF EpochOK
  <2> QED
    BY <1>4, <2>2 DEF Offset
<1>5. CASE adapter.timestamp # Never
  <2>1. PICK b \in Bases : adapter.timestamp = b % WrapPeriod /\ adapter.offset = b + e
    BY <1>5 DEF ClockInv
  <2>2. EpochOK(e) /\ e \in Int /\ e >= StartTime - RemoteStart - MaxTime /\ b \in Int
    BY <1>2, <1>5, <2>1 DEF ClockInv, EpochOK, Bases
  <2>3. BaseDelta(m.base, adapter.timestamp) = m.trueBase - b
    BY <1>1, <2>1, BaseDeltaFacts
  <2>4. StartTime >= MaxTime + BaseScale
    BY ClockAssumption, <1>2 DEF ClockAssumption
  <2>5. ~(m.trueBase - b < -(b + e))
    BY <1>2, <1>3, <2>2, <2>4
  <2>6. (b + e) + (m.trueBase - b) = m.trueBase + e
    BY <1>3, <2>2
  <2> QED
    BY <1>5, <2>1, <2>2, <2>3, <2>5, <2>6 DEF Offset
<1> QED
  BY <1>4, <1>5

\* ProcessTransportFeedback of a message that is true.
LEMMA RunFeedbackOK ==
  ASSUME OrderInv, TasksInv, AdapterInv, AddsLater, ClockInv, Grows, RunTransportFeedback
  PROVE  /\ AdapterInv' /\ AddsLater' /\ ClockInv' /\ adapter'.lastSeq # Never
         /\ \A s \in DOMAIN adapter'.history :
              /\ s \in DOMAIN adapter.history
              /\ adapter'.history[s].creation = adapter.history[s].creation
<1>0. /\ taskQueue # << >> /\ Task.kind = "feedback" /\ taskQueue' = Tail(taskQueue)
      /\ adapter' = ProcessTransportFeedback(adapter, Task.message, Task.time).adapter
      /\ results' = IF controller
                    THEN results \o ProcessTransportFeedback(adapter, Task.message, Task.time).results
                    ELSE results
      /\ epoch' = IF adapter.timestamp = Never THEN Task.time - Task.message.trueBase ELSE epoch
  BY DEF RunTransportFeedback, Run, Task
<1>1. PICK m, time, old, rs, e : m = Task.message /\ time = Task.time /\ old = adapter.history
                           /\ rs = results /\ e = epoch'
  OBVIOUS
<1>2. MessageOK(m) /\ time \in Times /\ adapter.lastSeq # Never
  BY <1>0, <1>1, HeadFacts DEF TaskOK, Reads, FirstAdded, Adds
<1>3. EpochOK(e) /\ Offset(adapter, m.base, time) = m.trueBase + e
  BY <1>0, <1>1, <1>2, OffsetFacts
<1> DEFINE offset == Offset(adapter, m.base, time)
           start == [lastSeq |-> adapter.lastSeq, history |-> old, offset |-> offset,
                     results |-> << >>, exact |-> TRUE]
           end == FoldLeft(ProcessStatus, start, m.statuses)
<1>4. HistoryOK(old) /\ ResultsOK(rs, old) /\ adapter.lastSeq \in Int
      /\ adapter.lastSeq - FirstSeq \in Issued
  BY <1>1, <1>2 DEF AdapterInv
<1>5. e \in Int /\ m.trueBase \in Int
  BY <1>2, <1>3, ConstantFacts DEF EpochOK, MessageOK, Bases
<1>6. AccOK(start, old, e, m.trueBase)
  <2>1. << >> \in Seq(Result) /\ Len(<< >>) = 0
    OBVIOUS
  <2>2. ResultsOK(<< >>, old) /\ Timed(<< >>, e)
    BY <2>1 DEF ResultsOK, Timed
  <2>3. old = [s \in DOMAIN old |-> old[s]]
    BY <1>4 DEF HistoryOK
  <2>4. offset \in Int /\ offset = m.trueBase + e
    BY <1>3, <1>5
  <2> HIDE DEF offset
  <2>5. /\ start.lastSeq = adapter.lastSeq /\ start.history = old /\ start.offset = offset
        /\ start.results = << >> /\ start.exact = TRUE
        /\ start = [lastSeq |-> start.lastSeq, history |-> start.history, offset |-> start.offset,
                    results |-> start.results, exact |-> start.exact]
    OBVIOUS
  <2> HIDE DEF start
  <2>6. start.exact \in BOOLEAN /\ (start.exact => start.offset = m.trueBase + e)
    BY <2>4, <2>5
  <2>7. ResultsOK(start.results, start.history) /\ Timed(start.results, e)
    BY <2>2, <2>5
  <2>8. \A i \in 1..Len(start.results) : start.results[i].seq \in DOMAIN old
    BY <2>1, <2>5
  <2>9. /\ DOMAIN start.history \subseteq DOMAIN old
        /\ start.history = [s \in DOMAIN start.history |-> old[s]]
    BY <2>3, <2>5
  <2>10. start.lastSeq \in Int /\ start.lastSeq - FirstSeq \in Issued /\ start.offset \in Int
    BY <1>4, <2>4, <2>5
  <2>11. start = [lastSeq |-> start.lastSeq, history |-> start.history, offset |-> start.offset,
                  results |-> start.results, exact |-> start.exact]
    BY <2>5
  <2> QED
    BY <2>6, <2>7, <2>8, <2>9, <2>10, <2>11, Zenon DEF AccOK
<1> HIDE DEF start
<1>7. PICK x \in Int : AccOK(end, old, e, x)
  BY <1>2, <1>4, <1>5, <1>6, StatusesOK
<1>8. /\ adapter' = [history |-> end.history, lastSeq |-> end.lastSeq,
                     offset |-> offset, timestamp |-> m.base]
      /\ results' = IF controller THEN rs \o end.results ELSE rs
  BY <1>0, <1>1 DEF ProcessTransportFeedback, start
<1> HIDE DEF end, offset
<1>9. PICK h, qs : h = end.history /\ qs = results'
  OBVIOUS
<1>10. /\ h = [s \in DOMAIN h |-> old[s]] /\ DOMAIN h \subseteq DOMAIN old
       /\ ResultsOK(end.results, h) /\ Timed(end.results, e)
       /\ \A i \in 1..Len(end.results) : end.results[i].seq \in DOMAIN old
       /\ end.lastSeq \in Int /\ end.lastSeq - FirstSeq \in Issued
  BY <1>7, <1>9 DEF AccOK
<1>11. HistoryOK(h)
  <2>1. HistoryOK([s \in DOMAIN h |-> old[s]])
    BY <1>4, <1>10, HistoryPart
  <2> QED
    BY <1>10, <2>1
<1>12. IsQueue(rs) /\ IsQueue(end.results)
  BY <1>4, <1>10 DEF ResultsOK, IsQueue
<1>13. ResultsOK(qs, h)
  <2>1. CASE controller
    BY <1>4, <1>8, <1>9, <1>10, <2>1, ResultsConcat
  <2>2. CASE ~controller
    BY <1>4, <1>8, <1>9, <1>10, <2>2 DEF ResultsOK
  <2> QED
    BY <2>1, <2>2
<1>14. HistoryOK(h)' /\ ResultsOK(qs, h)'
  BY <1>11, <1>13, HistoryGrows, ResultsGrow
<1>15. adapter'.history = h /\ adapter'.lastSeq = end.lastSeq /\ adapter'.offset = offset
       /\ adapter'.timestamp = m.base
       /\ adapter' = [history |-> adapter'.history, lastSeq |-> adapter'.lastSeq,
                      offset |-> adapter'.offset, timestamp |-> adapter'.timestamp]
  BY <1>8, <1>9
<1>16. end.lastSeq # Never /\ end.lastSeq - FirstSeq \in Issued'
  <2>1. PICK n \in Issued : n = end.lastSeq - FirstSeq
    BY <1>10
  <2>2. FirstSeq + n # Never /\ FirstSeq \in Int /\ n \in Int
    BY <2>1, NotNever
  <2>3. end.lastSeq = FirstSeq + n
    BY <1>10, <2>1, <2>2
  <2> QED
    BY <1>10, <2>2, <2>3 DEF Grows
<1>17. AdapterInv'
  BY <1>9, <1>10, <1>14, <1>15, <1>16 DEF AdapterInv
<1>18. AddsLater'
  <2>1. \A s \in DOMAIN h : s \in DOMAIN old /\ h[s].creation = old[s].creation
    BY <1>10
  <2>2. ASSUME NEW i \in 1..Len(qs)
        PROVE  \/ \E k \in 1..Len(rs) : Number(qs[i]) = Number(rs[k])
               \/ \E s \in DOMAIN old : Number(qs[i]) = s - FirstSeq
    <3>1. CASE controller
      <4>1. /\ Len(rs) \in Nat /\ Len(end.results) \in Nat /\ Len(qs) = Len(rs) + Len(end.results)
            /\ \A k \in 1..Len(rs) : qs[k] = rs[k]
            /\ \A k \in 1..Len(end.results) : qs[Len(rs) + k] = end.results[k]
        BY <1>8, <1>9, <1>12, <3>1, ConcatFacts, QueueBasics
      <4>2. i \in 1..Len(rs) \/ (i - Len(rs) \in 1..Len(end.results) /\ i = Len(rs) + (i - Len(rs)))
        BY <4>1
      <4>3. CASE i \in 1..Len(rs)
        BY <4>1, <4>3
      <4>4. CASE i - Len(rs) \in 1..Len(end.results) /\ i = Len(rs) + (i - Len(rs))
        <5>1. PICK k \in 1..Len(end.results) : qs[i] = end.results[k]
          BY <4>1, <4>4
        <5> QED
          BY <1>10, <5>1 DEF Number
      <4> QED
        BY <4>2, <4>3, <4>4
    <3>2. CASE ~controller
      BY <1>8, <1>9, <2>2, <3>2
    <3> QED
      BY <3>1, <3>2
  <2> QED
    BY <1>0, <1>1, <1>9, <1>15, <2>1, <2>2, LaterRun
<1>19. ClockInv'
  <2>1. Timed(rs, e)
    <3>1. CASE adapter.timestamp = Never
      <4>1. Len(rs) = 0
        BY <1>1, <3>1 DEF ClockInv
      <4> QED
        BY <4>1 DEF Timed
    <3>2. CASE adapter.timestamp # Never
      BY <1>0, <1>1, <3>2 DEF ClockInv
    <3> QED
      BY <3>1, <3>2
  <2>2. Timed(qs, e)
    BY <1>8, <1>9, <1>10, <1>12, <2>1, TimedConcat
  <2>3. Timed(qs, e)'
    BY <1>13, <2>2, TimedGrows
  <2>4. m.base # Never /\ m.trueBase \in Bases /\ m.base = m.trueBase % WrapPeriod
    <3>1. m.base = m.trueBase % WrapPeriod /\ m.trueBase \in Bases
      BY <1>2 DEF MessageOK
    <3>2. m.base \in 0..(WrapPeriod - 1)
      BY <1>5, <3>1, ConstantFacts, ModFacts
    <3> QED
      BY <3>1, <3>2, ConstantFacts DEF Never
  <2>5. (\E b \in Bases : adapter.timestamp = b % WrapPeriod /\ adapter.offset = b + epoch)'
    BY <1>1, <1>3, <1>15, <2>4 DEF offset, Bases
  <2>6. EpochOK(epoch)' /\ Timed(results, epoch)' /\ adapter'.timestamp # Never
    BY <1>1, <1>3, <1>9, <1>15, <2>3, <2>4 DEF EpochOK
  <2> QED
    BY <2>5, <2>6 DEF ClockInv
<1>20. \A s \in DOMAIN h : s \in DOMAIN old /\ h[s].creation = old[s].creation
  BY <1>10
<1> QED
  BY <1>1, <1>15, <1>16, <1>17, <1>18, <1>19, <1>20

-----------------------------------------------------------------------------
(* Every step.                                                             *)

SendPathInv == OrderInv /\ TasksInv /\ AdapterInv /\ AddsLater /\ ClockInv

\* The invariant holds at the start.
LEMMA SendPathInit == Init => SendPathInv
<1>1. Init => ClockInv
  BY DEF Init, InitialAdapter, ClockInv
<1> QED
  BY <1>1, OrderInit, TasksInit, AdapterInit DEF SendPathInv

\* A step that leaves the rtp_send queue and its state alone.
LEMMA PathQuiet ==
  ASSUME SendPathInv, Grows, UNCHANGED <<taskQueue, created, adapter, results, epoch>>,
         (\A m \in messages : MessageOK(m))'
  PROVE  TasksInv' /\ AdapterInv' /\ AddsLater' /\ ClockInv'
<1>1. TasksInv' /\ AdapterInv' /\ ClockInv'
  BY TasksQuiet, AdapterQuiet, ClockQuiet DEF SendPathInv
<1>2. AddsLater'
  BY DEF SendPathInv, AddsLater, Later, Adds, About, Number
<1> QED
  BY <1>1, <1>2

\* A step that posts a task to it.
LEMMA PathPost ==
  ASSUME SendPathInv, Grows, NEW task, Post(task), UNCHANGED <<adapter, results, epoch>>,
         messages' \subseteq messages, TaskOK(task)',
         created' > 0 => created > 0 \/ (task.kind = "add" /\ Num(task.seq) = 0),
         Reads(task) => created' > 0,
         task.kind = "add" => Num(task.seq) = created /\ task.time = now
  PROVE  TasksInv' /\ AdapterInv' /\ AddsLater' /\ ClockInv'
<1>1. TasksInv' /\ AdapterInv' /\ ClockInv'
  BY TasksPost, AdapterQuiet, ClockQuiet DEF SendPathInv
<1>2. AddsLater'
  BY LaterPost DEF SendPathInv, TasksInv
<1> QED
  BY <1>1, <1>2

\* A step that runs a task that reads nothing.
LEMMA PathRun ==
  ASSUME SendPathInv, Grows, taskQueue # << >>, taskQueue' = Tail(taskQueue), ~Reads(Task),
         UNCHANGED <<created, messages, adapter, results, epoch>>
  PROVE  TasksInv' /\ AdapterInv' /\ AddsLater' /\ ClockInv'
<1>0. Task = taskQueue[1]
  BY HeadFacts DEF SendPathInv
<1>1. TasksInv'
  BY <1>0, TasksRun DEF SendPathInv
<1>2. AdapterInv' /\ ClockInv'
  BY AdapterQuiet, ClockQuiet DEF SendPathInv
<1>3. AddsLater'
  BY LaterRun DEF SendPathInv
<1> QED
  BY <1>1, <1>2, <1>3

\* Every step keeps the invariant.
LEMMA SendPathStep == SendPathInv /\ [Next]_vars => SendPathInv'
<1> SUFFICES ASSUME SendPathInv, [Next]_vars
             PROVE  TasksInv' /\ AdapterInv' /\ AddsLater' /\ ClockInv'
  BY OrderStep DEF SendPathInv
<1> USE DEF others, peer, network, sendQueue
<1>a. OrderInv /\ TasksInv /\ AdapterInv /\ AddsLater /\ ClockInv /\ Grows /\ OrderInv'
  BY OrderStep DEF SendPathInv
<1>b. created \in Nat /\ Issued \subseteq Packets
  BY <1>a, IssuedFacts
<1>c. (\A m \in messages : MessageOK(m)) /\ \A m \in messages : MessageOK(m)'
  BY <1>a, MessageGrows DEF TasksInv
<1>d. (UNCHANGED messages) => (\A m \in messages : MessageOK(m))'
  BY <1>c
<1>1. ASSUME NEW ice \in IceStates, OnIceState(ice)
      PROVE  TasksInv' /\ AdapterInv' /\ AddsLater' /\ ClockInv'
  <2>1. UNCHANGED <<created, messages, adapter, results, epoch>>
    BY <1>1 DEF OnIceState
  <2>2. CASE UNCHANGED taskQueue
    BY <1>a, <1>d, <2>1, <2>2, PathQuiet
  <2>3. CASE pcState' \in {"connected", "disconnected", "failed"}
    <3>1. PICK task : task = [kind |-> "network", ok |-> pcState' = "connected"]
      OBVIOUS
    <3>2. Post(task) /\ task.kind = "network"
      BY <1>1, <2>3, <3>1 DEF OnIceState
    <3>3. TaskOK(task)' /\ ~Reads(task) /\ task.kind # "add"
      BY <3>2 DEF TaskOK, Reads
    <3> QED
      BY <1>a, <2>1, <3>2, <3>3, PathPost
  <2> QED
    BY <1>1, <2>2, <2>3 DEF OnIceState
<1>2. ASSUME NEW count \in 1..MaxPackets, SendEncodedImage(count)
      PROVE  TasksInv' /\ AdapterInv' /\ AddsLater' /\ ClockInv'
  <2>1. UNCHANGED <<taskQueue, created, messages, adapter, results, epoch>>
    BY <1>2 DEF SendEncodedImage
  <2> QED
    BY <1>a, <1>d, <2>1, PathQuiet
<1>3. CASE AddPacketToTransportFeedback
  <2>1. UNCHANGED <<now, messages, adapter, results, epoch>> /\ created' = created + 1
        /\ frameLeft > 0 /\ added = None
    BY <1>3 DEF AddPacketToTransportFeedback
  <2>2. PICK task : task = [kind |-> "add", seq |-> Wire(created), time |-> now]
    OBVIOUS
  <2>3. Post(task) /\ task.kind = "add" /\ task.seq = Wire(created) /\ task.time = now
    BY <1>3, <2>2 DEF AddPacketToTransportFeedback
  <2>4. created \in Packets
    BY <1>a, <2>1, ConstantFacts DEF OrderInv, CreatingInv
  <2>5. Num(task.seq) = created
    BY <2>3, <2>4, WireFacts
  <2>6. created \in Issued' /\ now \in Times' /\ created' > 0
    BY <1>a, <1>b, <2>1, ConstantFacts DEF OrderInv, CreatingInv, Issued, Times
  <2>7. TaskOK(task)'
    BY <2>3, <2>5, <2>6 DEF TaskOK, IsWire
  <2>8. created > 0 \/ created = 0
    BY <1>b
  <2> QED
    BY <1>a, <2>1, <2>3, <2>5, <2>6, <2>7, <2>8, PathPost
<1>4. CASE EnqueuePacket
  <2>1. UNCHANGED <<taskQueue, created, messages, adapter, results, epoch>>
    BY <1>4 DEF EnqueuePacket
  <2> QED
    BY <1>a, <1>d, <2>1, PathQuiet
<1>5. CASE OnTransportFeedback
  <2>1. PICK m \in messages :
          /\ messages' = messages \ {m}
          /\ Post([kind |-> "feedback", message |-> m, time |-> now])
          /\ UNCHANGED <<now, created, adapter, results, epoch>>
    BY <1>5 DEF OnTransportFeedback
  <2>2. PICK task : task = [kind |-> "feedback", message |-> m, time |-> now]
    OBVIOUS
  <2>3. Post(task) /\ task.kind = "feedback" /\ task.message = m /\ task.time = now
    BY <2>1, <2>2
  <2>4. MessageOK(m)' /\ now \in Times'
    BY <1>a, <1>c, <2>1, ConstantFacts DEF OrderInv, CreatingInv, Times
  <2>5. TaskOK(task)'
    BY <2>3, <2>4 DEF TaskOK
  <2>6. created > 0
    <3>1. created # 0
      <4> SUFFICES ASSUME created = 0 PROVE FALSE
        OBVIOUS
      <4>1. Issued = {}
        BY DEF Issued
      <4>2. Len(m.statuses) \in Nat /\ Len(m.statuses) > 0
        BY <1>c, <2>1 DEF MessageOK
      <4>3. Num(m.statuses[1].seq) \in Issued
        BY <1>c, <2>1, <4>2 DEF MessageOK, IsWire
      <4> QED
        BY <4>1, <4>3
    <3> QED
      BY <1>b, <3>1
  <2> QED
    BY <1>a, <2>1, <2>3, <2>5, <2>6, PathPost
<1>6. CASE OnNetworkInfo
  <2>1. UNCHANGED <<created, messages, adapter, results, epoch>>
    BY <1>6 DEF OnNetworkInfo
  <2>2. PICK task : task = [kind |-> "rtt"]
    OBVIOUS
  <2>3. Post(task) /\ TaskOK(task)' /\ ~Reads(task) /\ task.kind # "add"
    BY <1>6, <2>2 DEF OnNetworkInfo, TaskOK, Reads
  <2> QED
    BY <1>a, <2>1, <2>3, PathPost
<1>7. CASE SendPacket
  <2>1. UNCHANGED <<taskQueue, created, messages, adapter, results, epoch>>
    BY <1>7 DEF SendPacket
  <2> QED
    BY <1>a, <1>d, <2>1, PathQuiet
<1>8. CASE OnSentPacket
  <2>1. UNCHANGED <<now, created, messages, adapter, results, epoch>>
        /\ sending # None /\ sentAt' = [sentAt EXCEPT ![sending] = now]
    BY <1>8 DEF OnSentPacket
  <2>2. PICK task : task = [kind |-> "sent", seq |-> Wire(sending), time |-> now]
    OBVIOUS
  <2>3. Post(task) /\ task.kind = "sent" /\ task.seq = Wire(sending) /\ task.time = now
    BY <1>8, <2>2 DEF OnSentPacket
  <2>4. sending \in Issued /\ sending \in Packets
    BY <1>a, <1>b, <2>1 DEF OrderInv, PlaceInv, Left
  <2>5. Num(task.seq) = sending
    BY <2>3, <2>4, WireFacts
  <2>6. sentAt'[sending] = now
    BY <1>a, <2>1, <2>4 DEF OrderInv, TimesInv
  <2>7. sending \in Issued' /\ now \in Times'
    BY <1>a, <2>1, <2>4, ConstantFacts DEF Grows, OrderInv, CreatingInv, Times
  <2>8. TaskOK(task)'
    BY <2>3, <2>5, <2>6, <2>7 DEF TaskOK, IsWire
  <2>9. created > 0
    BY <1>b, <2>4 DEF Issued
  <2> QED
    BY <1>a, <2>1, <2>3, <2>8, <2>9, PathPost
<1>9. taskQueue # << >> => Task = taskQueue[1]
  BY <1>a, HeadFacts
<1>10. CASE RunAddPacket
  <2>1. AdapterInv' /\ AddsLater' /\ adapter'.lastSeq # Never
        /\ adapter'.offset = adapter.offset /\ adapter'.timestamp = adapter.timestamp
    BY <1>a, <1>10, RunAddOK
  <2>2. taskQueue # << >> /\ taskQueue' = Tail(taskQueue)
        /\ UNCHANGED <<created, messages, results, epoch>>
    BY <1>10 DEF RunAddPacket, Run
  <2> QED
    BY <1>a, <2>1, <2>2, TasksRun, ClockQuiet
<1>11. CASE RunSentPacket
  <2>1. AdapterInv' /\ AddsLater' /\ adapter'.lastSeq # Never
        /\ adapter'.offset = adapter.offset /\ adapter'.timestamp = adapter.timestamp
    BY <1>a, <1>11, RunSentOK
  <2>2. taskQueue # << >> /\ taskQueue' = Tail(taskQueue)
        /\ UNCHANGED <<created, messages, results, epoch>>
    BY <1>11 DEF RunSentPacket, Run
  <2> QED
    BY <1>a, <2>1, <2>2, TasksRun, ClockQuiet
<1>12. CASE RunTransportFeedback
  <2>1. AdapterInv' /\ AddsLater' /\ ClockInv' /\ adapter'.lastSeq # Never
    BY <1>a, <1>12, RunFeedbackOK
  <2>2. taskQueue # << >> /\ taskQueue' = Tail(taskQueue) /\ UNCHANGED <<created, messages>>
    BY <1>12 DEF RunTransportFeedback, Run
  <2> QED
    BY <1>a, <2>1, <2>2, TasksRun
<1>13. CASE RunNetworkOk
  BY <1>a, <1>13, PathRun DEF RunNetworkOk, Run, Reads, Task
<1>14. CASE RunRttUpdate
  BY <1>a, <1>14, PathRun DEF RunRttUpdate, Run, Reads, Task
<1>15. ASSUME NEW n \in Packets, Arrive(n)
       PROVE  TasksInv' /\ AdapterInv' /\ AddsLater' /\ ClockInv'
  <2>1. UNCHANGED <<taskQueue, created, messages, adapter, results, epoch>>
    BY <1>15 DEF Arrive
  <2> QED
    BY <1>a, <1>d, <2>1, PathQuiet
<1>16. ASSUME NEW lo \in Packets, NEW hi \in Packets, SendFeedback(lo, hi)
       PROVE  TasksInv' /\ AdapterInv' /\ AddsLater' /\ ClockInv'
  <2>1. /\ UNCHANGED <<taskQueue, created, adapter, results, epoch>>
        /\ lo <= hi /\ arrival[hi] # Never /\ messages' = messages \cup {Feedback(lo, hi)}
    BY <1>16 DEF SendFeedback
  <2>2. PICK m : m = Feedback(lo, hi)
    OBVIOUS
  <2>3. MessageOK(m)'
    BY <1>a, <2>1, <2>2, FeedbackOK, MessageGrows
  <2>4. (\A k \in messages : MessageOK(k))'
    BY <1>c, <2>1, <2>2, <2>3
  <2> QED
    BY <1>a, <2>1, <2>4, PathQuiet
<1>17. CASE Tick
  <2>1. UNCHANGED <<taskQueue, created, messages, adapter, results, epoch>>
    BY <1>17 DEF Tick
  <2> QED
    BY <1>a, <1>d, <2>1, PathQuiet
<1>18. CASE UNCHANGED vars
  <2>1. UNCHANGED <<taskQueue, created, messages, adapter, results, epoch>>
    BY <1>18 DEF vars
  <2> QED
    BY <1>a, <1>d, <2>1, PathQuiet
<1> QED
  BY <1>1, <1>2, <1>3, <1>4, <1>5, <1>6, <1>7, <1>8, <1>10, <1>11, <1>12, <1>13,
     <1>14, <1>15, <1>16, <1>17, <1>18 DEF Next

\* The invariant holds in every state that is reached.
LEMMA AlwaysSendPathInv == Spec => []SendPathInv
BY SendPathInit, SendPathStep, PTL DEF Spec

\* The results the controller was told, by their places.
LEMMA ResultsDomain ==
  ASSUME SendPathInv
  PROVE  /\ DOMAIN results = 1..Len(results) /\ IsQueue(results)
         /\ ResultsOK(results, adapter.history)
<1>1. ResultsOK(results, adapter.history)
  BY DEF SendPathInv, AdapterInv
<1>2. IsQueue(results)
  BY <1>1 DEF ResultsOK, IsQueue
<1> QED
  BY <1>1, <1>2, QueueBasics

\* The state stays well typed, and the history only holds packets that exist.
THEOREM SendPathTypes == Spec => []TypeOK
<1>1. ASSUME SendPathInv PROVE TypeOK
  <2>1. /\ now \in StartTime..(StartTime + MaxTime)
        /\ pcState \in {"new", "connecting", "connected", "disconnected", "failed", "closed"}
        /\ created \in 0..MaxPackets /\ frameLeft \in 0..MaxPackets
    BY <1>1 DEF SendPathInv, OrderInv, CreatingInv
  <2>2. Issued \subseteq Packets
    BY <1>1, IssuedFacts DEF SendPathInv
  <2>3. added \in Packets \cup {None} /\ sending \in Packets \cup {None}
    BY <1>1, <2>2 DEF SendPathInv, OrderInv, CreatingInv, PlaceInv, Left
  <2>4. pacer \in Seq(Packets) /\ onWire \subseteq Packets
    BY <1>1 DEF SendPathInv, OrderInv, PlaceInv
  <2>5. ASSUME NEW s \in DOMAIN adapter.history
        PROVE  s \in {FirstSeq + n : n \in 0..(created - 1)}
    <3>1. PICK n \in Issued : n = s - FirstSeq /\ s \in Int
      BY <1>1 DEF SendPathInv, AdapterInv, HistoryOK
    <3>2. n \in Int /\ FirstSeq \in Int
      BY <1>1, <3>1, NotNever DEF SendPathInv
    <3>3. s = FirstSeq + n
      BY <3>1, <3>2
    <3> QED
      BY <3>1, <3>3 DEF Issued
  <2> QED
    BY <2>1, <2>3, <2>4, <2>5 DEF TypeOK
<1> QED
  BY <1>1, AlwaysSendPathInv, PTL

-----------------------------------------------------------------------------
(* How old the packets of the history are.                                 *)

\* A packet of the history, or on its way there, has the time at which it was
\* created, and in the history that is near the time of the last one added.
AgeInv ==
  /\ madeAt = [n \in Packets |-> madeAt[n]]
  /\ \A j \in 1..Len(taskQueue) : Adds(j) => taskQueue[j].time = madeAt[About(j)]
  /\ \A s \in DOMAIN adapter.history :
       /\ adapter.history[s].creation = madeAt[s - FirstSeq]
       /\ lastAdd - adapter.history[s].creation \in 0..HistoryWindow

\* Nothing has an age yet.
LEMMA AgeInit == Init => AgeInv
<1> SUFFICES ASSUME Init PROVE AgeInv
  OBVIOUS
<1>1. taskQueue = << >> /\ Len(taskQueue) = 0
  BY DEF Init
<1>2. adapter.history = << >> /\ DOMAIN adapter.history = {}
  BY DEF Init, InitialAdapter
<1>3. madeAt = [n \in Packets |-> madeAt[n]]
  BY DEF Init
<1> QED
  BY <1>1, <1>2, <1>3 DEF AgeInv

\* A step that posts a task, the task of a new packet or another.
LEMMA AgePost ==
  ASSUME SendPathInv, AgeInv, NEW task, Post(task), UNCHANGED <<adapter, lastAdd>>,
         \/ task.kind # "add" /\ UNCHANGED madeAt
         \/ /\ created \in Packets /\ madeAt' = [madeAt EXCEPT ![created] = now]
            /\ Num(task.seq) = created /\ task.time = now
  PROVE  AgeInv'
<1>0. PICK n : n = Len(taskQueue)
  OBVIOUS
<1>1. /\ n \in Nat /\ Len(taskQueue') = n + 1
      /\ taskQueue'[n + 1] = task
      /\ \A i \in 1..n : taskQueue'[i] = taskQueue[i]
  BY <1>0, QueueBasics, AppendFacts DEF Post, SendPathInv, TasksInv
<1>2. madeAt' = [k \in Packets |-> madeAt'[k]]
  BY DEF AgeInv
<1>3. ASSUME NEW k \in Issued PROVE madeAt'[k] = madeAt[k]
  <2>1. k \in Packets /\ k # created
    BY IssuedFacts DEF Issued, SendPathInv
  <2> QED
    BY <2>1 DEF AgeInv
<1>4. ASSUME NEW j \in 1..n, Adds(j) PROVE taskQueue[j].time = madeAt'[About(j)]
  <2>1. About(j) \in Issued
    BY <1>0, <1>4 DEF SendPathInv, TasksInv, TaskOK, IsWire, Adds, About
  <2> QED
    BY <1>0, <1>3, <1>4, <2>1 DEF AgeInv
<1>5. task.kind = "add" => task.time = madeAt'[Num(task.seq)]
  BY DEF AgeInv
<1>6. (\A j \in 1..Len(taskQueue) : Adds(j) => taskQueue[j].time = madeAt[About(j)])'
  <2> SUFFICES ASSUME NEW j \in 1..(n + 1), Adds(j)'
               PROVE  taskQueue'[j].time = madeAt'[Num(taskQueue'[j].seq)]
    BY <1>1 DEF About
  <2>1. CASE j \in 1..n
    BY <1>1, <1>4, <2>1 DEF Adds, About
  <2>2. CASE j = n + 1
    BY <1>1, <1>5, <2>2 DEF Adds
  <2> QED
    BY <1>1, <2>1, <2>2
<1>7. ASSUME NEW s \in DOMAIN adapter.history
      PROVE  adapter.history[s].creation = madeAt'[s - FirstSeq]
  <2>1. s - FirstSeq \in Issued
    BY DEF SendPathInv, AdapterInv, HistoryOK
  <2> QED
    BY <1>3, <2>1 DEF AgeInv
<1> QED
  BY <1>2, <1>6, <1>7 DEF AgeInv

\* A step that runs a task, after which the packets of the history are as old as
\* they should be.
LEMMA AgeRun ==
  ASSUME SendPathInv, AgeInv, taskQueue # << >>, taskQueue' = Tail(taskQueue), UNCHANGED madeAt,
         \A s \in DOMAIN adapter'.history :
            /\ adapter'.history[s].creation = madeAt[s - FirstSeq]
            /\ lastAdd' - adapter'.history[s].creation \in 0..HistoryWindow
  PROVE  AgeInv'
<1>0. PICK n : n = Len(taskQueue)
  OBVIOUS
<1>1. /\ Len(taskQueue') = n - 1
      /\ \A i \in 1..(n - 1) : taskQueue'[i] = taskQueue[i + 1] /\ i + 1 \in 1..n
  BY <1>0, TailFacts DEF SendPathInv, TasksInv
<1>2. (\A j \in 1..Len(taskQueue) : Adds(j) => taskQueue[j].time = madeAt[About(j)])'
  BY <1>0, <1>1 DEF AgeInv, Adds, About
<1> QED
  BY <1>2 DEF AgeInv

\* Every step keeps the ages.
LEMMA AgeStep == SendPathInv /\ AgeInv /\ [Next]_vars => AgeInv'
<1> SUFFICES ASSUME SendPathInv, AgeInv, [Next]_vars PROVE AgeInv'
  OBVIOUS
<1> USE DEF others, peer, network, sendQueue
<1>a. OrderInv /\ TasksInv /\ AdapterInv /\ AddsLater /\ ClockInv /\ Grows
  BY OrderStep DEF SendPathInv
<1>b. CASE UNCHANGED <<taskQueue, adapter, lastAdd, madeAt>>
  BY <1>b DEF AgeInv, Adds, About
<1>c. ASSUME taskQueue # << >>, taskQueue' = Tail(taskQueue), UNCHANGED <<lastAdd, madeAt>>,
             \A s \in DOMAIN adapter'.history :
                /\ s \in DOMAIN adapter.history
                /\ adapter'.history[s].creation = adapter.history[s].creation
      PROVE  AgeInv'
  BY <1>c, AgeRun DEF AgeInv
<1>1. ASSUME NEW ice \in IceStates, OnIceState(ice) PROVE AgeInv'
  <2>1. UNCHANGED <<adapter, lastAdd, madeAt>>
    BY <1>1 DEF OnIceState
  <2>2. PICK task : task = [kind |-> "network", ok |-> pcState' = "connected"]
    OBVIOUS
  <2>3. UNCHANGED taskQueue \/ Post(task)
    BY <1>1, <2>2 DEF OnIceState
  <2>4. task.kind # "add"
    BY <2>2
  <2> QED
    BY <1>b, <2>1, <2>3, <2>4, AgePost
<1>2. ASSUME NEW count \in 1..MaxPackets, SendEncodedImage(count) PROVE AgeInv'
  BY <1>b, <1>2 DEF SendEncodedImage
<1>3. CASE AddPacketToTransportFeedback
  <2>1. UNCHANGED <<adapter, lastAdd>> /\ madeAt' = [madeAt EXCEPT ![created] = now]
        /\ frameLeft > 0 /\ added = None
    BY <1>3 DEF AddPacketToTransportFeedback
  <2>2. PICK task : task = [kind |-> "add", seq |-> Wire(created), time |-> now]
    OBVIOUS
  <2>3. Post(task) /\ task.seq = Wire(created) /\ task.time = now
    BY <1>3, <2>2 DEF AddPacketToTransportFeedback
  <2>4. created \in Packets
    BY <1>a, <2>1, ConstantFacts DEF OrderInv, CreatingInv
  <2>5. Num(task.seq) = created
    BY <2>3, <2>4, WireFacts
  <2> QED
    BY <2>1, <2>3, <2>4, <2>5, AgePost
<1>4. CASE EnqueuePacket
  BY <1>b, <1>4 DEF EnqueuePacket
<1>5. CASE OnTransportFeedback
  <2>1. PICK m \in messages : Post([kind |-> "feedback", message |-> m, time |-> now])
    BY <1>5 DEF OnTransportFeedback
  <2>2. PICK task : task = [kind |-> "feedback", message |-> m, time |-> now]
    OBVIOUS
  <2>3. Post(task) /\ task.kind # "add" /\ UNCHANGED <<adapter, lastAdd, madeAt>>
    BY <1>5, <2>1, <2>2 DEF OnTransportFeedback
  <2> QED
    BY <2>3, AgePost
<1>6. CASE OnNetworkInfo
  <2>1. PICK task : task = [kind |-> "rtt"]
    OBVIOUS
  <2>2. Post(task) /\ task.kind # "add" /\ UNCHANGED <<adapter, lastAdd, madeAt>>
    BY <1>6, <2>1 DEF OnNetworkInfo
  <2> QED
    BY <2>2, AgePost
<1>7. CASE SendPacket
  BY <1>b, <1>7 DEF SendPacket
<1>8. CASE OnSentPacket
  <2>1. PICK task : task = [kind |-> "sent", seq |-> Wire(sending), time |-> now]
    OBVIOUS
  <2>2. Post(task) /\ task.kind # "add" /\ UNCHANGED <<adapter, lastAdd, madeAt>>
    BY <1>8, <2>1 DEF OnSentPacket
  <2> QED
    BY <2>2, AgePost
<1>9. CASE RunAddPacket
  <2>1. /\ taskQueue # << >> /\ taskQueue' = Tail(taskQueue) /\ UNCHANGED madeAt
        /\ lastAdd' = Task.time
    BY <1>9 DEF RunAddPacket, Run
  <2>2. Task = taskQueue[1] /\ 1 \in 1..Len(taskQueue) /\ TaskOK(taskQueue[1])
    BY <1>a, <2>1, HeadFacts
  <2>3. PICK time : time = taskQueue[1].time /\ time = lastAdd' /\ (Adds(1) => time \in Int)
    BY <1>a, <2>1, <2>2, IssuedFacts DEF TaskOK, Adds
  <2>4. ASSUME NEW s \in DOMAIN adapter'.history
        PROVE  /\ adapter'.history[s].creation = madeAt[s - FirstSeq]
               /\ time - adapter'.history[s].creation \in 0..HistoryWindow
    <3>1. \/ /\ s \in DOMAIN adapter.history /\ adapter'.history[s] = adapter.history[s]
             /\ time - adapter.history[s].creation \in 0..HistoryWindow
          \/ Adds(1) /\ s - FirstSeq = About(1) /\ adapter'.history[s].creation = time
      BY <1>9, <1>a, <2>3, RunAddOK
    <3>2. CASE s \in DOMAIN adapter.history /\ adapter'.history[s] = adapter.history[s]
               /\ time - adapter.history[s].creation \in 0..HistoryWindow
      BY <3>2 DEF AgeInv
    <3>3. CASE Adds(1) /\ s - FirstSeq = About(1) /\ adapter'.history[s].creation = time
      <4>1. adapter'.history[s].creation = madeAt[s - FirstSeq]
        BY <2>2, <2>3, <3>3 DEF AgeInv
      <4>2. time - time \in 0..HistoryWindow
        BY <2>3, <3>3, ConstantFacts
      <4> QED
        BY <3>3, <4>1, <4>2
    <3> QED
      BY <3>1, <3>2, <3>3
  <2> QED
    BY <2>1, <2>3, <2>4, AgeRun
<1>10. CASE RunSentPacket
  BY <1>10, <1>a, <1>c, RunSentOK DEF RunSentPacket, Run
<1>11. CASE RunTransportFeedback
  BY <1>11, <1>a, <1>c, RunFeedbackOK DEF RunTransportFeedback, Run
<1>12. CASE RunNetworkOk
  BY <1>12, <1>c DEF RunNetworkOk, Run
<1>13. CASE RunRttUpdate
  BY <1>13, <1>c DEF RunRttUpdate, Run
<1>14. ASSUME NEW n \in Packets, Arrive(n) PROVE AgeInv'
  BY <1>b, <1>14 DEF Arrive
<1>15. ASSUME NEW lo \in Packets, NEW hi \in Packets, SendFeedback(lo, hi) PROVE AgeInv'
  BY <1>b, <1>15 DEF SendFeedback
<1>16. CASE Tick
  BY <1>b, <1>16 DEF Tick
<1>17. CASE UNCHANGED vars
  BY <1>b, <1>17 DEF vars
<1> QED
  BY <1>1, <1>2, <1>3, <1>4, <1>5, <1>6, <1>7, <1>8, <1>9, <1>10, <1>11, <1>12, <1>13,
     <1>14, <1>15, <1>16, <1>17 DEF Next

\* Every packet in the history is there under its own number, with the time it was
\* created, which is at most the window before the packet AddPacket added last.
THEOREM HistoryStaysInWindow == Spec => []HistoryInWindow
<1>1. Init => SendPathInv /\ AgeInv
  BY SendPathInit, AgeInit
<1>2. SendPathInv /\ AgeInv /\ [Next]_vars => (SendPathInv /\ AgeInv)'
  BY SendPathStep, AgeStep
<1>3. SendPathInv /\ AgeInv => HistoryInWindow
  BY DEF SendPathInv, AdapterInv, HistoryOK, AgeInv, HistoryInWindow, Issued
<1> QED
  BY <1>1, <1>2, <1>3, PTL DEF Spec
-----------------------------------------------------------------------------
(* What the controller is told.                                            *)

\* A result is about a packet that was sent, and has the time at which it was.
THEOREM SendTimesStayTrue == Spec => []SendTimesTrue
<1>1. ASSUME SendPathInv PROVE SendTimesTrue
  <2>1. Issued \subseteq Packets
    BY <1>1, IssuedFacts DEF SendPathInv
  <2> QED
    BY <1>1, <2>1, ResultsDomain DEF ResultsOK, SendTimesTrue
<1> QED
  BY <1>1, AlwaysSendPathInv, PTL

\* However messages repeat, overtake each other and wrap, the controller is told
\* once that a packet arrived.
THEOREM ArrivalsReportedOnce == Spec => []ReportedOnce
<1>1. SendPathInv => ReportedOnce
  BY ResultsDomain DEF ResultsOK, ReportedOnce
<1> QED
  BY <1>1, AlwaysSendPathInv, PTL

\* The arrivals the controller is told of are the receiver's, on the clock of the
\* sender, wherever the code reads all the deltas of a message.
THEOREM ReceiveTimesStayTrue == Spec => []ReceiveTimesTrue
<1>1. ASSUME SendPathInv, NEW i \in DOMAIN results, results[i].exact, Received(results[i])
      PROVE  results[i].receive = arrival[Number(results[i])] + epoch
  <2>1. i \in 1..Len(results) /\ Len(results) # 0
    BY <1>1, ResultsDomain, QueueBasics
  <2>2. results # << >>
    BY <1>1, <2>1, ResultsDomain, QueueBasics
  <2>3. Timed(results, epoch)
    BY <1>1, <2>2 DEF SendPathInv, ClockInv
  <2> QED
    BY <1>1, <2>1, <2>3 DEF Timed
<1>2. SendPathInv => ReceiveTimesTrue
  BY <1>1 DEF ReceiveTimesTrue, ArrivalTrue
<1> QED
  BY <1>2, AlwaysSendPathInv, PTL
=============================================================================
